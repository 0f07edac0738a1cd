---------------------------- MODULE DeviceProofs ----------------------------
(***************************************************************************)
(* Proofs about Device, for every set of JSON bodies and every bound on    *)
(* the flash faults.                                                       *)
(***************************************************************************)
EXTENDS Device, TLAPS, FiniteSetTheorems

(* Every field has values of its own, none of them Missing. *)
LEMMA FieldValues ==
  /\ \A f \in Fields : Values(f) \subseteq AnyValue /\ Missing \notin Values(f)
  /\ CoreFields \subseteq Fields
  /\ \A f \in {"uas_id", "operator_id"} : f \in Fields /\ "mac" \in Values(f)
  /\ \A f \in Strings : "" \in Values(f)
  /\ \A f \in Floats : "zero" \in Values(f)
  BY DEF Values, AnyValue, Missing, Fields, Strings, Floats, Numbers, CoreFields, Regions

(* The defaults are a configuration. *)
LEMMA DefaultTyped == Default \in BspConfig
<1>1. \A f \in Fields : Default[f] \in Values(f)
  BY DEF Default, Values, Fields, Strings, Floats, Numbers, Regions
<1>2. Default \in [Fields -> AnyValue]
  BY <1>1, FieldValues DEF Default
<1> QED BY <1>1, <1>2 DEF BspConfig

(* Patching, loading and deriving the IDs give configurations. *)
LEMMA PatchedTyped ==
  ASSUME NEW c \in BspConfig, NEW p \in Patches
  PROVE  Patched(c, p) \in BspConfig
<1>1. \A f \in Fields : Patched(c, p)[f] \in Values(f)
  BY DeviceAssumption DEF Patched, BspConfig
<1>2. Patched(c, p) \in [Fields -> AnyValue]
  BY <1>1, FieldValues DEF Patched
<1> QED BY <1>1, <1>2 DEF BspConfig

(* What load reads from a typed flash is a configuration.                  *)
LEMMA LoadedTyped ==
  ASSUME NEW flash \in Flash
  PROVE  Loaded(flash) \in BspConfig
<1>1. \A f \in Fields : Loaded(flash)[f] \in Values(f)
  <2> SUFFICES ASSUME NEW f \in Fields PROVE Loaded(flash)[f] \in Values(f)
    OBVIOUS
  <2>1. f \in Strings \/ f \in Floats \/ f \in Numbers
    BY DEF Fields
  <2>2. flash[f] \in Values(f) \/ flash[f] = Missing
    BY DEF Flash
  <2>3. Default[f] \in Values(f)
    BY DefaultTyped DEF BspConfig
  <2> QED BY <2>1, <2>2, <2>3, FieldValues DEF Loaded, LoadedString
<1>2. Loaded(flash) \in [Fields -> AnyValue]
  BY <1>1, FieldValues DEF Loaded, LoadedString
<1> QED BY <1>1, <1>2 DEF BspConfig

(* The placeholder IDs keep a configuration one.                           *)
LEMMA DerivedTyped ==
  ASSUME NEW c \in BspConfig
  PROVE  DeriveIds(c) \in BspConfig
<1>1. \A f \in Fields : DeriveIds(c)[f] \in Values(f)
  BY FieldValues DEF DeriveIds, BspConfig
<1>2. DeriveIds(c) \in [Fields -> AnyValue]
  BY <1>1, FieldValues DEF DeriveIds, BspConfig
<1> QED BY <1>1, <1>2 DEF BspConfig

(* What core_config derives has its type, and the region it came from.     *)
LEMMA CoreTyped ==
  ASSUME NEW c \in BspConfig
  PROVE  /\ CoreOf(c) \in [CoreFields -> AnyValue]
         /\ \A f \in CoreFields : CoreOf(c)[f] \in Values(f)
         /\ Binding(CoreOf(c).region) \in [active : Standards, fallback : BOOLEAN]
         /\ CoreOf(c).region = c.region
  BY FieldValues DEF CoreOf, BspConfig, Binding, Standards, ActiveStandard, HasEncoder, CoreFields

(* What a save writes of a field is a value of that field.                 *)
LEMMA StoredTyped ==
  ASSUME NEW c \in BspConfig, NEW f \in Fields
  PROVE  Stored(f, c) \in Values(f)
  BY FieldValues DEF Stored, BspConfig

(* The order of a save names every key, each at one of seven places.       *)
LEMMA SaveKeyTyped ==
  /\ Len(SaveOrder) = 7
  /\ \A i \in 1 .. 7 : SaveOrder[i] \in Fields
  /\ \A f \in Fields : \E i \in 1 .. 7 : SaveOrder[i] = f
  BY DEF SaveOrder, Fields, Strings, Floats, Numbers

-----------------------------------------------------------------------------
(* Writing a field of the flash keeps it typed. *)
LEMMA FlashTyped ==
  ASSUME NEW n \in Flash, NEW f \in Fields, NEW v \in Values(f) \cup {Missing}
  PROVE  [n EXCEPT ![f] = v] \in Flash /\ Blank \in Flash
  BY FieldValues DEF Flash, Blank

(* The first state of the device is typed.                                 *)
LEMMA InitTyped == Init => TypeOK
<1> SUFFICES ASSUME Init PROVE TypeOK
  OBVIOUS
<1>1. Default \in BspConfig /\ CoreOf(Default).region = "AUTO"
  BY DefaultTyped, CoreTyped DEF Default, Fields, Numbers
<1>2. Blank \in Flash
  BY FieldValues DEF Blank, Flash
<1>3. faults \in 0 .. MaxFaults
  BY DeviceAssumption DEF Init
<1>4. 1 \in 1 .. Len(SaveOrder)
  BY SaveKeyTyped
<1>5. Binding("AUTO") \in [active : Standards, fallback : BOOLEAN]
  BY DEF Binding, Standards, ActiveStandard, HasEncoder
<1> QED BY <1>1, <1>2, <1>3, <1>4, <1>5, CoreTyped DEF Init, TypeOK

(* Every step of the device keeps its type, one action at a time.          *)
LEMMA StepTyped == TypeOK /\ [Next]_vars => TypeOK'
<1> SUFFICES ASSUME TypeOK, [Next]_vars PROVE TypeOK'
  OBVIOUS
<1> USE DEF ramVars, saveVars, histVars, taskVars, bootVars
<1>1. ASSUME NEW ok \in BOOLEAN, PowerOn(ok) PROVE TypeOK'
  <2>1. nvs' \in Flash
    BY <1>1, FieldValues DEF PowerOn, TypeOK, Blank, Flash
  <2>2. bsp' \in BspConfig /\ Loaded(nvs') \in BspConfig
    BY <1>1, <2>1, LoadedTyped, DerivedTyped DEF PowerOn
  <2>3. PICK c \in BspConfig : core' = CoreOf(c)
    BY <1>1, <2>2, DefaultTyped DEF PowerOn
  <2> QED BY <1>1, <2>1, <2>2, <2>3, CoreTyped DEF PowerOn, TypeOK
<1>2. ASSUME StartWeb \/ SpawnScheduler \/ Wake \/ StepBegin \/ StepEnd PROVE TypeOK'
  <2>1. CASE StartWeb
    <3>1. web_up' \in BOOLEAN
      BY <2>1 DEF StartWeb
    <3> QED BY <2>1, <3>1 DEF StartWeb, TypeOK
  <2>2. CASE SpawnScheduler
    BY <2>2 DEF SpawnScheduler, TypeOK
  <2>3. CASE Wake \/ StepBegin \/ StepEnd
    BY <2>3 DEF Wake, StepBegin, StepEnd, TypeOK
  <2> QED BY <1>2, <2>1, <2>2, <2>3
<1>3. ASSUME PowerCut PROVE TypeOK'
  <2>1. faults' \in 0 .. MaxFaults
    BY <1>3, DeviceAssumption DEF PowerCut, TypeOK
  <2>2. Default \in BspConfig /\ Binding("AUTO") \in [active : Standards, fallback : BOOLEAN]
    BY DefaultTyped DEF Binding, Standards, ActiveStandard, HasEncoder
  <2>3. 1 \in 1 .. Len(SaveOrder)
    BY SaveKeyTyped
  <2> QED BY <1>3, <2>1, <2>2, <2>3, CoreTyped DEF PowerCut, TypeOK
<1>4. ASSUME NEW r \in Requests, Request(r) PROVE TypeOK'
  BY <1>4 DEF Request, TypeOK
<1>5. ASSUME PostApply PROVE TypeOK'
  <2>1. request.patch \in Patches
    BY <1>5 DEF PostApply, TypeOK, Requests
  <2>2. bsp' \in BspConfig /\ core' = CoreOf(bsp') /\ standard' = Binding(bsp'.region)
    BY <1>5, <2>1, PatchedTyped DEF PostApply, SetConfig, TypeOK
  <2>3. changed' \in BOOLEAN
    BY <1>5 DEF PostApply, SetConfig
  <2>4. 1 \in 1 .. Len(SaveOrder)
    BY SaveKeyTyped
  <2> QED BY <1>5, <2>2, <2>3, <2>4, CoreTyped DEF PostApply, TypeOK
<1>6. ASSUME PostReject \/ GetBegin \/ GetEnd PROVE TypeOK'
  BY <1>6 DEF PostReject, GetBegin, GetEnd, TypeOK
<1>7. ASSUME SaveErase PROVE TypeOK'
  <2>1. nvs' \in Flash
    BY <1>7, SaveKeyTyped, FlashTyped DEF SaveErase, SaveKey, TypeOK
  <2> QED BY <1>7, <2>1 DEF SaveErase, TypeOK
<1>8. ASSUME NEW ok \in BOOLEAN, Advance(ok)
      PROVE  /\ cursor' \in 1 .. Len(SaveOrder) 
             /\ erased' \in BOOLEAN /\ clean' \in BOOLEAN
             /\ durable' \in BOOLEAN /\ established' \in BOOLEAN
             /\ acked' \in BspConfig /\ lock' \in {"free", "sched", "httpd"}
             /\ httpd' \in {"idle", "waiting", "saving", "erasing", "sending"}
             /\ request' \in Requests \cup {[kind |-> "none"]}
  <2>1. cursor \in 1 .. 7 /\ Len(SaveOrder) = 7
    BY SaveKeyTyped DEF TypeOK
  <2>2. CASE cursor < Len(SaveOrder)
    <3>1. cursor' \in 1 .. Len(SaveOrder)
      BY <1>8, <2>1, <2>2 DEF Advance
    <3> QED BY <1>8, <2>2, <3>1 DEF Advance, TypeOK
  <2>3. CASE ~(cursor < Len(SaveOrder))
    <3>1. cursor' \in 1 .. Len(SaveOrder)
      BY <1>8, <2>1, <2>3 DEF Advance
    <3>2. erased' \in BOOLEAN /\ clean' \in BOOLEAN /\ durable' \in BOOLEAN /\ established' \in BOOLEAN
      BY <1>8, <2>3 DEF Advance
    <3> QED BY <1>8, <2>3, <3>1, <3>2 DEF Advance, TypeOK
  <2> QED BY <2>2, <2>3
<1>9. ASSUME SaveSet PROVE TypeOK'
  <2>1. nvs' \in Flash
    BY <1>9, SaveKeyTyped, StoredTyped, FlashTyped DEF SaveSet, SaveKey, TypeOK
  <2>2. faults' \in 0 .. MaxFaults
    BY <1>9, DeviceAssumption DEF SaveSet, TypeOK
  <2>3. clean \in BOOLEAN
    BY DEF TypeOK
  <2> QED BY <1>8, <1>9, <2>1, <2>2, <2>3 DEF SaveSet, TypeOK
<1>10. ASSUME SaveFail PROVE TypeOK'
  <2>1. faults' \in 0 .. MaxFaults
    BY <1>10, DeviceAssumption DEF SaveFail, TypeOK
  <2> QED BY <1>8, <1>10, <2>1 DEF SaveFail, TypeOK
<1>11. ASSUME ResetApply PROVE TypeOK'
  <2>1. bsp' \in BspConfig
    <3>1. bsp' = [Default EXCEPT !["keys"] = bsp["keys"]]
      BY <1>11 DEF ResetApply
    <3>2. bsp["keys"] \in Values("keys") /\ "keys" \in Fields
      BY DEF TypeOK, BspConfig, Fields, Strings
    <3> QED BY <3>1, <3>2, DefaultTyped, FieldValues DEF BspConfig
  <2> QED BY <1>11, <2>1, CoreTyped DEF ResetApply, TypeOK
<1>12. ASSUME NEW ok \in BOOLEAN, ResetErase(ok) PROVE TypeOK'
  <2>1. nvs' \in Flash
    BY <1>12, FieldValues DEF ResetErase, TypeOK, Blank, Flash
  <2> QED BY <1>12, <2>1 DEF ResetErase, TypeOK
<1>13. ASSUME UNCHANGED vars PROVE TypeOK'
  BY <1>13 DEF vars, TypeOK
<1> QED
  BY <1>1, <1>2, <1>3, <1>4, <1>5, <1>6, <1>7, <1>9, <1>10, <1>11, <1>12, <1>13
  DEF Next, Boot, Handler, Finish

(* Whatever is posted, and wherever the power fails, every variable keeps  *)
(* its type: in particular the save never runs past its last key.          *)
THEOREM DeviceTypeCorrect == Spec => []TypeOK
  BY InitTyped, StepTyped, PTL DEF Spec

-----------------------------------------------------------------------------
(* The core and the binding follow the configuration, lock or no lock. *)
CoreBound ==
  /\ core = CoreOf(bsp) \/ (~changed /\ core = CoreOf(Default))
  /\ standard = Binding(core.region)

(* The region survives the derivation.                                     *)
LEMMA CoreRegion ==
  /\ \A c : CoreOf(c).region = c.region
  /\ Default.region = "AUTO"
  BY DEF CoreOf, CoreFields, Default, Fields, Numbers

(* No step leaves core derived from something else than bsp.               *)
LEMMA StepKeepsCore == CoreBound /\ [Next]_vars => CoreBound'
<1> SUFFICES ASSUME CoreBound, [Next]_vars PROVE CoreBound'
  OBVIOUS
<1> USE DEF ramVars, saveVars, histVars, taskVars, bootVars
<1>1. ASSUME NEW ok \in BOOLEAN, PowerOn(ok) PROVE CoreBound'
  BY <1>1 DEF PowerOn, CoreBound
<1>2. ASSUME PowerCut PROVE CoreBound'
  BY <1>2, CoreRegion DEF PowerCut, CoreBound
<1>3. ASSUME PostApply PROVE CoreBound'
  BY <1>3, CoreRegion DEF PostApply, SetConfig, CoreBound
<1>4. ASSUME ResetApply PROVE CoreBound'
  BY <1>4, CoreRegion DEF ResetApply, CoreBound
<1>5. CASE StartWeb \/ SpawnScheduler \/ Wake \/ StepBegin \/ StepEnd
  BY <1>5 DEF StartWeb, SpawnScheduler, Wake, StepBegin, StepEnd, CoreBound
<1>6. CASE (\E r \in Requests : Request(r)) \/ PostReject \/ GetBegin \/ GetEnd
  BY <1>6 DEF Request, PostReject, GetBegin, GetEnd, CoreBound
<1>7. CASE SaveErase \/ SaveSet \/ SaveFail \/ (\E ok \in BOOLEAN : ResetErase(ok))
  <2>1. CASE SaveErase
    BY <2>1 DEF SaveErase, CoreBound
  <2>2. CASE SaveSet \/ SaveFail
    <3>1. UNCHANGED <<bsp, core, standard, changed>>
      BY <2>2 DEF SaveSet, SaveFail
    <3> QED BY <3>1 DEF CoreBound
  <2>3. ASSUME NEW ok \in BOOLEAN, ResetErase(ok) PROVE CoreBound'
    <3>1. UNCHANGED <<bsp, core, standard, changed>>
      BY <2>3 DEF ResetErase
    <3> QED BY <3>1 DEF CoreBound
  <2> QED BY <1>7, <2>1, <2>2, <2>3
<1>8. CASE UNCHANGED vars
  BY <1>8 DEF vars, CoreBound
<1> QED
  BY <1>1, <1>2, <1>3, <1>4, <1>5, <1>6, <1>7, <1>8 DEF Next, Boot, Handler, Finish

(* No step of the scheduler runs on a mixture of two configurations, for   *)
(* any requests, faults and power cuts.                                    *)
THEOREM OneConfigAlwaysOnAir == Spec => []OneConfigOnAir
<1>1. Init => CoreBound
  BY CoreRegion DEF Init, CoreBound
<1>2. CoreBound => OneConfigOnAir
  BY DEF CoreBound, OneConfigOnAir
<1> QED BY <1>1, <1>2, StepKeepsCore, PTL DEF Spec

-----------------------------------------------------------------------------
(* What the flash holds while a save runs, and after it. *)
Image(c) == [f \in Fields |-> Stored(f, c)]

SaveInv ==
  /\ phase = "off" => httpd = "idle" /\ ~web_up
  /\ httpd # "saving" => ~erased
  /\ httpd = "saving" => /\ ~durable
                         /\ erased => nvs[SaveKey] = Missing
                         /\ clean => \A i \in 1 .. 7 : i < cursor =>
                                       nvs[SaveOrder[i]] = Stored(SaveOrder[i], bsp)
  /\ durable => nvs = Image(acked)

(* No key is written twice by a save.                                      *)
LEMMA KeysDiffer ==
  \A i, j \in 1 .. 7 : SaveOrder[i] = SaveOrder[j] => i = j
  BY DEF SaveOrder

(* A save that never failed leaves the image of the configuration. *)
LEMMA SaveSetEffect ==
  ASSUME TypeOK, SaveInv, SaveSet
  PROVE  /\ clean => \A i \in 1 .. 7 : i <= cursor => nvs'[SaveOrder[i]] = Stored(SaveOrder[i], bsp)
         /\ (clean /\ cursor = 7) => nvs' = Image(bsp)
<1>1. cursor \in 1 .. 7 /\ SaveKey \in Fields /\ nvs \in [Fields -> AnyValue \cup {Missing}]
  BY SaveKeyTyped DEF TypeOK, SaveKey, Flash
<1>2. nvs' = [nvs EXCEPT ![SaveOrder[cursor]] = Stored(SaveOrder[cursor], bsp)] /\ httpd = "saving"
  BY DEF SaveSet, SaveKey
<1>3. ASSUME clean, NEW i \in 1 .. 7, i <= cursor
      PROVE  nvs'[SaveOrder[i]] = Stored(SaveOrder[i], bsp)
  <2>1. SaveOrder[i] \in Fields /\ SaveOrder[cursor] \in Fields
    BY <1>1, SaveKeyTyped
  <2>2. CASE i = cursor
    BY <1>1, <1>2, <2>1, <2>2
  <2>3. CASE i < cursor
    BY <1>1, <1>2, <1>3, <2>1, <2>3, KeysDiffer DEF SaveInv
  <2> QED BY <1>1, <1>3, <2>2, <2>3
<1>4. ASSUME clean, cursor = 7 PROVE nvs' = Image(bsp)
  <2>1. \A f \in Fields : nvs'[f] = Stored(f, bsp)
    BY <1>3, <1>4, SaveKeyTyped
  <2>2. nvs' = [f \in Fields |-> nvs'[f]]
    BY <1>1, <1>2
  <2> QED BY <2>1, <2>2 DEF Image
<1> QED BY <1>3, <1>4

(* Every step keeps what a clean save has written so far.                  *)
LEMMA StepKeepsSave == TypeOK /\ SaveInv /\ [Next]_vars => SaveInv'
<1> SUFFICES ASSUME TypeOK, SaveInv, [Next]_vars PROVE SaveInv'
  OBVIOUS
<1> USE DEF ramVars, saveVars, histVars, taskVars, bootVars
<1>0. cursor \in 1 .. 7 /\ Len(SaveOrder) = 7
  BY SaveKeyTyped DEF TypeOK
<1>1. ASSUME NEW ok \in BOOLEAN, PowerOn(ok) PROVE SaveInv'
  BY <1>1 DEF PowerOn, SaveInv, SaveKey
<1>2. ASSUME PowerCut PROVE SaveInv'
  BY <1>2 DEF PowerCut, SaveInv, SaveKey
<1>3. ASSUME PostApply PROVE SaveInv'
  <2>1. phase # "off"
    BY <1>3 DEF PostApply, SaveInv
  <2> QED BY <1>3, <2>1 DEF PostApply, SaveInv
<1>4. CASE StartWeb \/ SpawnScheduler \/ Wake \/ StepBegin \/ StepEnd
  BY <1>4 DEF StartWeb, SpawnScheduler, Wake, StepBegin, StepEnd, SaveInv, SaveKey
<1>5. CASE (\E r \in Requests : Request(r)) \/ PostReject \/ GetBegin \/ GetEnd \/ ResetApply
  BY <1>5 DEF Request, PostReject, GetBegin, GetEnd, ResetApply, SaveInv, SaveKey
<1>6. ASSUME NEW ok \in BOOLEAN, ResetErase(ok) PROVE SaveInv'
  BY <1>6 DEF ResetErase, SaveInv, SaveKey
<1>7. ASSUME SaveErase PROVE SaveInv'
  <2>1. SaveKey \in Fields /\ nvs \in [Fields -> AnyValue \cup {Missing}]
    BY <1>0, SaveKeyTyped DEF SaveKey, TypeOK, Flash
  <2>2. \A i \in 1 .. 7 : i < cursor => nvs'[SaveOrder[i]] = nvs[SaveOrder[i]]
    BY <1>0, <1>7, <2>1, KeysDiffer, SaveKeyTyped DEF SaveErase, SaveKey
  <2>3. nvs'[SaveKey] = Missing /\ SaveKey' = SaveKey
    BY <1>7, <2>1 DEF SaveErase, SaveKey
  <2> QED BY <1>7, <2>2, <2>3 DEF SaveErase, SaveInv
<1>8. ASSUME SaveSet PROVE SaveInv'
  <2>1. CASE cursor < 7
    <3>1. /\ cursor' = cursor + 1 /\ clean' = clean /\ erased' = FALSE /\ httpd' = httpd
          /\ UNCHANGED <<durable, acked, bsp, phase, web_up>>
      BY <1>0, <1>8, <2>1 DEF SaveSet, Advance
    <3>2. clean => \A i \in 1 .. 7 : i < cursor' => nvs'[SaveOrder[i]] = Stored(SaveOrder[i], bsp')
      BY <1>0, <1>8, <3>1, SaveSetEffect
    <3>3. ~durable /\ httpd = "saving"
      BY <1>8 DEF SaveSet, SaveInv
    <3> QED BY <3>1, <3>2, <3>3 DEF SaveInv
  <2>2. CASE cursor = 7
    <3>1. /\ durable' = clean /\ acked' = bsp /\ erased' = FALSE /\ httpd' = "idle"
          /\ UNCHANGED <<phase, web_up>>
      BY <1>0, <1>8, <2>2 DEF SaveSet, Advance
    <3>2. phase # "off"
      BY <1>8 DEF SaveSet, SaveInv
    <3> QED BY <1>8, <2>2, <3>1, <3>2, SaveSetEffect DEF SaveInv, Image
  <2> QED BY <1>0, <2>1, <2>2
<1>9. ASSUME SaveFail PROVE SaveInv'
  <2>1. /\ phase # "off" /\ phase' = phase /\ ~durable /\ nvs' = nvs /\ erased' = FALSE
    BY <1>9 DEF SaveFail, Advance, SaveInv
  <2>2. ~durable' /\ (httpd' = "saving" => ~clean')
    BY <1>0, <1>9, <2>1 DEF SaveFail, Advance
  <2> QED BY <2>1, <2>2 DEF SaveInv
<1>10. CASE UNCHANGED vars
  BY <1>10 DEF vars, SaveInv, SaveKey
<1> QED
  BY <1>1, <1>2, <1>3, <1>4, <1>5, <1>6, <1>7, <1>8, <1>9, <1>10 DEF Next, Boot, Handler, Finish
-----------------------------------------------------------------------------
(* Values the flash gives back as they were stored. *)
Plain(c) == \A f \in Fields : c[f] \notin {"cut", "max"}

(* A plain configuration comes back from its image as it was.              *)
LEMMA LoadedImage ==
  ASSUME NEW c \in BspConfig, Plain(c)
  PROVE  Loaded(Image(c)) = c
<1>1. ASSUME NEW f \in Fields PROVE Image(c)[f] = c[f] /\ c[f] # Missing /\ c[f] # "max"
  BY <1>1, FieldValues DEF Image, Stored, Plain, BspConfig
<1>2. \A f \in Fields : Loaded(Image(c))[f] = c[f]
  BY <1>1 DEF Loaded, LoadedString
<1>3. c = [f \in Fields |-> c[f]]
  BY DEF BspConfig
<1>4. Loaded(Image(c)) = [f \in Fields |-> Loaded(Image(c))[f]]
  BY DEF Loaded, LoadedString
<1> QED BY <1>2, <1>3, <1>4

(* The placeholder IDs are plain,                                          *)
LEMMA DerivedPlain ==
  ASSUME NEW c \in BspConfig, Plain(c)
  PROVE  Plain(DeriveIds(c))
<1>1. c \in [Fields -> AnyValue]
  BY DEF BspConfig
<1> QED BY <1>1 DEF DeriveIds, Plain

(* what is loaded from a plain flash is,                                   *)
LEMMA LoadedPlain ==
  ASSUME NEW flash \in Flash, Plain(flash)
  PROVE  Plain(Loaded(flash))
<1> SUFFICES ASSUME NEW f \in Fields PROVE Loaded(flash)[f] \notin {"cut", "max"}
  BY DEF Plain
<1>1. Default[f] \notin {"cut", "max"}
  BY DEF Default, Fields, Strings, Floats, Numbers
<1>2. f \in Strings \/ f \in Floats \/ f \in Numbers
  BY DEF Fields
<1>3. flash[f] \notin {"cut", "max"}
  BY DEF Plain
<1> QED BY <1>1, <1>2, <1>3 DEF Loaded, LoadedString

(* and so are the defaults and an empty flash.                             *)
LEMMA DefaultPlain == Plain(Default) /\ Plain(Blank)
  BY DEF Plain, Default, Blank, Missing, Fields, Strings, Floats, Numbers

DurableInv ==
  Storable =>
    /\ Plain(bsp) /\ Plain(acked) /\ Plain(nvs)
    /\ (durable /\ phase # "off" /\ httpd # "erasing") => bsp \in {acked, DeriveIds(acked)}

(* Every step keeps the values plain and memory what was acknowledged.     *)
LEMMA StepKeepsDurable ==
  TypeOK /\ SaveInv /\ DurableInv /\ [Next]_vars => DurableInv'
<1> SUFFICES ASSUME TypeOK, SaveInv, DurableInv, [Next]_vars, Storable PROVE DurableInv'
  BY DEF DurableInv, Storable
<1> USE DEF ramVars, saveVars, histVars, taskVars, bootVars
<1>0. /\ Plain(bsp) /\ Plain(acked) /\ Plain(nvs)
      /\ (durable /\ phase # "off" /\ httpd # "erasing") => bsp \in {acked, DeriveIds(acked)}
      /\ nvs \in Flash /\ acked \in BspConfig /\ bsp \in BspConfig
  BY DEF DurableInv, TypeOK
<1>a. ASSUME UNCHANGED <<bsp, acked, nvs>>,
             (durable' /\ phase' # "off" /\ httpd' # "erasing")
               => (durable /\ phase # "off" /\ httpd # "erasing")
      PROVE  DurableInv'
  BY <1>0, <1>a DEF DurableInv, Plain
<1>1. ASSUME NEW ok \in BOOLEAN, PowerOn(ok) PROVE DurableInv'
  <2>1. nvs' \in Flash /\ Plain(nvs')
    BY <1>0, <1>1, FlashTyped, FieldValues, DefaultPlain DEF PowerOn, Blank, Flash
  <2>2. bsp' = DeriveIds(Loaded(nvs')) /\ acked' = acked
    BY <1>1 DEF PowerOn
  <2>3. Plain(bsp')
    BY <2>1, <2>2, LoadedPlain, LoadedTyped, DerivedPlain
  <2>4. ASSUME durable' PROVE bsp' = DeriveIds(acked)
    <3>1. nvs' = Image(acked)
      BY <1>1, <2>4 DEF PowerOn, SaveInv
    <3> QED BY <1>0, <2>2, <3>1, LoadedImage
  <2> QED BY <1>0, <2>1, <2>2, <2>3, <2>4 DEF DurableInv, Plain
<1>2. ASSUME PowerCut PROVE DurableInv'
  <2>1. bsp' = Default /\ acked' = acked /\ nvs' = nvs /\ phase' = "off"
    BY <1>2 DEF PowerCut
  <2> QED BY <1>0, <2>1, DefaultPlain DEF DurableInv, Plain
<1>3. ASSUME PostApply PROVE DurableInv'
  <2>1. request.patch \in Patches
    BY <1>3 DEF PostApply, TypeOK, Requests
  <2>2. bsp' = Patched(bsp, request.patch) /\ acked' = acked /\ nvs' = nvs /\ ~durable'
    BY <1>3 DEF PostApply, SetConfig
  <2>3. Plain(bsp')
    BY <1>0, <2>1, <2>2 DEF Plain, Patched, Storable
  <2> QED BY <1>0, <2>2, <2>3 DEF DurableInv, Plain
<1>4. ASSUME ResetApply PROVE DurableInv'
  <2>1. bsp' = [Default EXCEPT !["keys"] = bsp["keys"]] /\ acked' = acked /\ nvs' = nvs
        /\ httpd' = "erasing"
    BY <1>4 DEF ResetApply
  <2>2. Plain(bsp')
    BY <1>0, <2>1, DefaultPlain, DefaultTyped DEF Plain, BspConfig, Fields, Strings
  <2> QED BY <1>0, <2>1, <2>2 DEF DurableInv, Plain
<1>5. CASE StartWeb \/ SpawnScheduler \/ Wake \/ StepBegin \/ StepEnd
  <2>1. \/ UNCHANGED <<bsp, acked, nvs, durable, httpd>> /\ phase # "off"
        \/ UNCHANGED <<bsp, acked, nvs, durable, httpd, phase>>
    BY <1>5 DEF StartWeb, SpawnScheduler, Wake, StepBegin, StepEnd
  <2> QED BY <1>a, <2>1
<1>6. CASE (\E r \in Requests : Request(r)) \/ PostReject \/ GetBegin \/ GetEnd
  <2>1. UNCHANGED <<bsp, acked, nvs, durable, phase>> /\ httpd # "erasing"
    BY <1>6 DEF Request, PostReject, GetBegin, GetEnd
  <2> QED BY <1>a, <2>1
<1>7. ASSUME SaveErase PROVE DurableInv'
  <2>1. UNCHANGED <<bsp, acked, durable, httpd>> /\ ~durable
        /\ nvs' = [nvs EXCEPT ![SaveKey] = Missing]
    BY <1>7 DEF SaveErase, SaveInv
  <2>2. Plain(nvs')
    BY <1>0, <2>1 DEF Plain, Flash, Missing
  <2> QED BY <1>0, <2>1, <2>2 DEF DurableInv, Plain
<1>8. ASSUME SaveSet PROVE DurableInv'
  <2>1. bsp' = bsp /\ nvs' = [nvs EXCEPT ![SaveKey] = Stored(SaveKey, bsp)] /\ ~durable
    BY <1>8 DEF SaveSet, SaveInv
  <2>2. (acked' = acked /\ durable' = durable) \/ acked' = bsp
    BY <1>8 DEF SaveSet, Advance
  <2>3. Plain(nvs')
    BY <1>0, <2>1, SaveKeyTyped DEF Plain, Flash, Stored
  <2>4. Plain(acked')
    BY <1>0, <2>2
  <2> QED BY <1>0, <2>1, <2>2, <2>3, <2>4 DEF DurableInv, Plain
<1>9. ASSUME SaveFail PROVE DurableInv'
  <2>1. bsp' = bsp /\ nvs' = nvs /\ ~durable
    BY <1>9 DEF SaveFail, SaveInv
  <2>2. (acked' = acked /\ durable' = durable) \/ (acked' = bsp /\ ~durable')
    BY <1>9 DEF SaveFail, Advance
  <2>4. Plain(acked')
    BY <1>0, <2>2
  <2> QED BY <1>0, <2>1, <2>2, <2>4 DEF DurableInv, Plain
<1>10. ASSUME NEW ok \in BOOLEAN, ResetErase(ok) PROVE DurableInv'
  <2>1. bsp' = bsp /\ acked' = acked /\ ~durable' /\ nvs' \in {nvs, Blank}
    BY <1>10 DEF ResetErase
  <2>2. Plain(nvs')
    BY <1>0, <2>1, DefaultPlain
  <2> QED BY <1>0, <2>1, <2>2 DEF DurableInv, Plain
<1>11. CASE UNCHANGED vars
  BY <1>a, <1>11 DEF vars
<1> QED
  BY <1>1, <1>2, <1>3, <1>4, <1>5, <1>6, <1>7, <1>8, <1>9, <1>10, <1>11 DEF Next, Boot, Handler, Finish

(* No save runs in the first state.                                        *)
LEMMA InitSaved == Init => SaveInv
  BY DEF Init, SaveInv

(* A configuration acknowledged after writes that all succeeded is the one *)
(* the device comes back with and serves, for every set of storable JSON   *)
(* bodies and any number of power cuts, rejected bodies and interrupted    *)
(* resets; the scheduler runs on it or, until a change that follows the    *)
(* boot, on the defaults.                                                  *)
THEOREM AcknowledgedAlwaysSurvives == Spec => []AcknowledgedSurvives
<1>1. Init => DurableInv /\ CoreBound
  BY DefaultPlain, CoreRegion DEF Init, DurableInv, CoreBound
<1>2. DurableInv /\ CoreBound => AcknowledgedSurvives
  BY DEF DurableInv, CoreBound, AcknowledgedSurvives
<1> QED
  BY <1>1, <1>2, InitTyped, StepTyped, InitSaved, StepKeepsSave, StepKeepsDurable, StepKeepsCore,
     PTL DEF Spec
-----------------------------------------------------------------------------
(* The keys missing from a flash, and how they count. *)
LostIn(flash) == {f \in Fields : flash[f] = Missing}

(* There are finitely many missing keys, because there are seven keys.     *)
LEMMA LostFinite ==
  ASSUME NEW flash
  PROVE  IsFiniteSet(LostIn(flash)) /\ Cardinality(LostIn(flash)) \in Nat
<1>1. IsFiniteSet({"uas_id"} \cup {"operator_id"} \cup {"keys"} \cup {"rate"}
                    \cup {"region"} \cup {"webserver_en"} \cup {"baud"})
  <2>1. IsFiniteSet({"uas_id"} \cup {"operator_id"})
    BY FS_Singleton, FS_AddElement
  <2>2. IsFiniteSet({"uas_id"} \cup {"operator_id"} \cup {"keys"})
    BY <2>1, FS_AddElement
  <2>3. IsFiniteSet({"uas_id"} \cup {"operator_id"} \cup {"keys"} \cup {"rate"})
    BY <2>2, FS_AddElement
  <2>4. IsFiniteSet({"uas_id"} \cup {"operator_id"} \cup {"keys"} \cup {"rate"} \cup {"region"})
    BY <2>3, FS_AddElement
  <2>5. IsFiniteSet({"uas_id"} \cup {"operator_id"} \cup {"keys"} \cup {"rate"} \cup {"region"}
                      \cup {"webserver_en"})
    BY <2>4, FS_AddElement
  <2> QED BY <2>5, FS_AddElement
<1>2. Fields = {"uas_id"} \cup {"operator_id"} \cup {"keys"} \cup {"rate"}
                 \cup {"region"} \cup {"webserver_en"} \cup {"baud"}
  BY DEF Fields, Strings, Floats, Numbers
<1>3. LostIn(flash) \in SUBSET Fields
  BY DEF LostIn
<1>4. IsFiniteSet(LostIn(flash))
  BY <1>1, <1>2, <1>3, FS_Subset
<1> QED BY <1>4, FS_CardinalityType

(* Erasing a key loses one at most. *)
LEMMA EraseLosesOne ==
  ASSUME NEW n \in Flash, NEW f \in Fields
  PROVE  Cardinality(LostIn([n EXCEPT ![f] = Missing])) <= Cardinality(LostIn(n)) + 1
<1>1. LostIn([n EXCEPT ![f] = Missing]) = LostIn(n) \cup {f}
  BY DEF LostIn, Flash
<1>2. IsFiniteSet(LostIn(n)) /\ Cardinality(LostIn(n)) \in Nat
  BY LostFinite
<1>3. Cardinality(LostIn(n) \cup {f})
        = IF f \in LostIn(n) THEN Cardinality(LostIn(n)) ELSE Cardinality(LostIn(n)) + 1
  BY <1>2, FS_AddElement
<1>4. Cardinality(LostIn(n) \cup {f}) <= Cardinality(LostIn(n)) + 1
  BY <1>2, <1>3
<1> QED BY <1>1, <1>4

(* Storing a value under a key finds the one that was missing. *)
LEMMA SetFindsOne ==
  ASSUME NEW n \in Flash, NEW f \in Fields, NEW v, v # Missing
  PROVE  Cardinality(LostIn([n EXCEPT ![f] = v])) =
           IF n[f] = Missing THEN Cardinality(LostIn(n)) - 1 ELSE Cardinality(LostIn(n))
<1>1. LostIn([n EXCEPT ![f] = v]) = LostIn(n) \ {f}
  BY DEF LostIn, Flash
<1>2. f \in LostIn(n) <=> n[f] = Missing
  BY DEF LostIn
<1> QED BY <1>1, <1>2, LostFinite, FS_RemoveElement

LossBound == established => Cardinality(LostIn(nvs)) <= faults + One(erased)

(* A step that loses a key is a fault, and a clean save restores it.       *)
LEMMA StepKeepsLoss == TypeOK /\ SaveInv /\ LossBound /\ [Next]_vars => LossBound'
<1> SUFFICES ASSUME TypeOK, SaveInv, LossBound, [Next]_vars PROVE LossBound'
  OBVIOUS
<1> USE DEF ramVars, saveVars, histVars, taskVars, bootVars
<1> DEFINE lost == Cardinality(LostIn(nvs))
<1>0. /\ nvs \in Flash /\ bsp \in BspConfig /\ faults \in Nat /\ lost \in Nat /\ lost' \in Nat
      /\ SaveKey \in Fields /\ erased \in BOOLEAN /\ clean \in BOOLEAN
  BY LostFinite, SaveKeyTyped, DeviceAssumption DEF TypeOK, SaveKey
<1>a. ASSUME nvs' = nvs, erased' = erased, faults' = faults, established' => established
      PROVE  LossBound'
  BY <1>a DEF LossBound, One
<1>1. ASSUME NEW ok \in BOOLEAN, PowerOn(ok) PROVE LossBound'
  <2>1. ~ok => ~established'
    BY <1>1 DEF PowerOn
  <2>2. ok => nvs' = nvs /\ erased' = erased /\ faults' = faults /\ (established' => established)
    BY <1>1 DEF PowerOn
  <2> QED BY <1>a, <2>1, <2>2 DEF LossBound
<1>2. ASSUME PowerCut PROVE LossBound'
  <2>1. /\ nvs' = nvs /\ erased' = FALSE /\ established' = established
        /\ httpd = "saving" => faults' = faults + 1
        /\ httpd # "saving" => faults' = faults /\ ~erased
    BY <1>2 DEF PowerCut, SaveInv
  <2>2. lost' = lost
    BY <2>1
  <2> QED BY <1>0, <2>1, <2>2 DEF LossBound, One
<1>3. CASE PostReject \/ ResetApply \/ GetBegin \/ GetEnd
  <2>1. nvs' = nvs /\ erased' = erased /\ faults' = faults /\ established' = established
    BY <1>3 DEF PostReject, ResetApply, GetBegin, GetEnd
  <2> QED BY <1>a, <2>1
<1>10. ASSUME PostApply PROVE LossBound'
  <2>1. nvs' = nvs /\ erased' = FALSE /\ faults' = faults /\ established' = established /\ ~erased
    BY <1>10 DEF PostApply, SaveInv
  <2> QED BY <2>1 DEF LossBound, One
<1>4. CASE StartWeb \/ SpawnScheduler \/ Wake \/ StepBegin \/ StepEnd \/ (\E r \in Requests : Request(r))
  <2>1. nvs' = nvs /\ erased' = erased /\ faults' = faults /\ established' = established
    BY <1>4 DEF StartWeb, SpawnScheduler, Wake, StepBegin, StepEnd, Request
  <2> QED BY <1>a, <2>1
<1>5. ASSUME SaveErase PROVE LossBound'
  <2>1. /\ nvs' = [nvs EXCEPT ![SaveKey] = Missing] /\ ~erased /\ erased'
        /\ faults' = faults /\ established' = established
    BY <1>5 DEF SaveErase
  <2>2. lost' <= lost + 1
    BY <1>0, <2>1, EraseLosesOne
  <2> QED BY <1>0, <2>1, <2>2 DEF LossBound, One
<1>6. ASSUME SaveSet PROVE LossBound'
  <2>1. /\ nvs' = [nvs EXCEPT ![SaveKey] = Stored(SaveKey, bsp)] /\ erased' = FALSE
        /\ erased => nvs[SaveKey] = Missing
    BY <1>6 DEF SaveSet, Advance, SaveInv
  <2>2. Stored(SaveKey, bsp) # Missing
    BY <1>0, StoredTyped, FieldValues
  <2>3. lost' <= lost /\ (erased => lost' <= lost - 1)
    <3>1. lost' = IF nvs[SaveKey] = Missing THEN lost - 1 ELSE lost
      BY <1>0, <2>1, <2>2, SetFindsOne
    <3> QED BY <1>0, <2>1, <3>1
  <2>4. CASE cursor = Len(SaveOrder) /\ clean
    <3>1. nvs' = Image(bsp)
      BY <1>6, <2>4, SaveKeyTyped, SaveSetEffect
    <3>2. LostIn(nvs') = {}
      BY <1>0, <3>1, StoredTyped, FieldValues DEF LostIn, Image
    <3>3. faults' = 0
      BY <1>6, <2>4 DEF SaveSet
    <3>4. Cardinality(LostIn(nvs')) = 0
      BY <3>2, FS_EmptySet
    <3> QED BY <2>1, <3>3, <3>4 DEF LossBound, One
  <2>5. CASE ~(cursor = Len(SaveOrder) /\ clean)
    <3>1. faults' = faults
      BY <1>6, <2>5 DEF SaveSet
    <3>2. cursor \in 1 .. Len(SaveOrder)
      BY DEF TypeOK
    <3>3. established' => established
      <4>1. Advance(clean)
        BY <1>6 DEF SaveSet
      <4>2. CASE cursor < Len(SaveOrder)
        BY <4>1, <4>2 DEF Advance
      <4>3. CASE ~(cursor < Len(SaveOrder))
        <5>1. established' = (established \/ clean)
          BY <4>1, <4>3 DEF Advance
        <5>2. ~clean
          BY <2>5, <3>2, <4>3, SaveKeyTyped
        <5> QED BY <5>1, <5>2
      <4> QED BY <4>2, <4>3
    <3> QED BY <1>0, <2>1, <2>3, <3>1, <3>3 DEF LossBound, One
  <2> QED BY <2>4, <2>5
<1>7. ASSUME SaveFail PROVE LossBound'
  <2>1. nvs' = nvs /\ faults' = faults + 1 /\ erased' = FALSE /\ (established' => established)
    BY <1>7 DEF SaveFail, Advance
  <2> QED BY <1>0, <2>1 DEF LossBound, One
<1>8. ASSUME NEW ok \in BOOLEAN, ResetErase(ok) PROVE LossBound'
  <2>1. ok => ~established'
    BY <1>8 DEF ResetErase
  <2>2. ~ok => nvs' = nvs /\ erased' = erased /\ faults' = faults /\ (established' => established)
    BY <1>8 DEF ResetErase
  <2> QED BY <1>a, <2>1, <2>2 DEF LossBound
<1>9. CASE UNCHANGED vars
  BY <1>a, <1>9 DEF vars
<1> QED
  BY <1>1, <1>2, <1>3, <1>4, <1>5, <1>6, <1>7, <1>8, <1>9, <1>10 DEF Next, Boot, Handler, Finish

(* However often a save is cut short or a write fails, the flash never     *)
(* lacks more keys than there were faults, but for the one being replaced. *)
THEOREM LossIsBounded == Spec => []OneKeyPerFault
<1>1. Init => LossBound
  BY DEF Init, LossBound
<1>2. LossBound => OneKeyPerFault
  BY DEF LossBound, LostIn, OneKeyPerFault, Lost
<1> QED BY <1>1, <1>2, InitTyped, StepTyped, InitSaved, StepKeepsSave, StepKeepsLoss, PTL DEF Spec

-----------------------------------------------------------------------------
(* The refinement.  Between two saves no write is remembered as failed.    *)
CleanInv == httpd # "saving" => clean

(* Every step but those of a save leaves nothing to remember.              *)
LEMMA StepKeepsClean == CleanInv /\ [Next]_vars => CleanInv'
<1> SUFFICES ASSUME CleanInv, [Next]_vars PROVE CleanInv'
  OBVIOUS
<1> USE DEF ramVars, saveVars, histVars, taskVars, bootVars
<1>1. CASE Boot
  BY <1>1 DEF Boot, PowerOn, StartWeb, SpawnScheduler, CleanInv
<1>2. CASE PowerCut \/ Wake \/ StepBegin \/ StepEnd \/ \E r \in Requests : Request(r)
  BY <1>2 DEF PowerCut, Wake, StepBegin, StepEnd, Request, CleanInv
<1>3. CASE Handler
  BY <1>3 DEF Handler, PostApply, PostReject, ResetApply, GetBegin, CleanInv
<1>4. CASE SaveErase
  BY <1>4 DEF SaveErase, CleanInv
<1>5. CASE SaveSet \/ SaveFail
  BY <1>5 DEF SaveSet, SaveFail, Advance, CleanInv
<1>6. CASE (\E ok \in BOOLEAN : ResetErase(ok)) \/ GetEnd
  BY <1>6 DEF ResetErase, GetEnd, CleanInv
<1>7. CASE UNCHANGED vars
  BY <1>7 DEF vars, CleanInv
<1> QED BY <1>1, <1>2, <1>3, <1>4, <1>5, <1>6, <1>7 DEF Next, Finish

(* What is written is the image of the configuration.                      *)
LEMMA ImageIsEncoded ==
  /\ Image(bsp) = Encoded(bsp)
  /\ \A f \in Fields : Encoded(bsp)[f] = Stored(f, bsp)
  BY DEF Image, Encoded

(* Every step of the device is one of the store, or none that it sees.     *)
LEMMA StepIsStoreStep ==
  TypeOK /\ SaveInv /\ CleanInv /\ [Next]_vars => [Store!StoreNext]_(Store!storeVars)
<1> SUFFICES ASSUME TypeOK, SaveInv, CleanInv, [Next]_vars
             PROVE  Store!StoreNext \/ UNCHANGED Store!storeVars
  OBVIOUS
<1> USE DEF ramVars, saveVars, histVars, taskVars, bootVars
<1>a. ASSUME UNCHANGED <<bsp, nvs, clean>>, (phase' # "off") = (phase # "off"), Busy' = Busy
      PROVE  UNCHANGED Store!storeVars
  BY <1>a DEF Store!storeVars
<1>0. cursor \in 1 .. 7 /\ Len(SaveOrder) = 7 /\ SaveKey \in Fields
  BY SaveKeyTyped DEF TypeOK, SaveKey
<1>1. ASSUME NEW ok \in BOOLEAN, PowerOn(ok) PROVE Store!BootUp
  <2>1. (phase # "off") = FALSE /\ (phase' # "off") = TRUE /\ nvs' \in {nvs, Blank}
    BY <1>1 DEF PowerOn
  <2>2. bsp' = Recovered(nvs') /\ Busy' = Busy /\ clean' = clean
    BY <1>1 DEF PowerOn, Recovered, Busy
  <2> QED BY <2>1, <2>2 DEF Store!BootUp, Store!Empty, Blank
<1>2. ASSUME PowerCut PROVE Store!Cut
  BY <1>2 DEF PowerCut, Store!Cut, Busy
<1>3. ASSUME PostApply \/ ResetApply PROVE Store!Change
  <2>1. phase # "off" /\ phase' # "off" /\ httpd = "waiting" /\ httpd' \in {"saving", "erasing"}
    BY <1>3 DEF PostApply, ResetApply, SaveInv
  <2>2. nvs' = nvs /\ clean' = clean
    BY <1>3 DEF PostApply, ResetApply, CleanInv
  <2> QED BY <2>1, <2>2 DEF Store!Change, Busy
<1>4. ASSUME SaveErase PROVE Store!Write(SaveKey)
  <2>1. phase # "off" /\ phase' # "off" /\ httpd = "saving" /\ httpd' = "saving" /\ bsp' = bsp
        /\ clean' = clean /\ nvs' = [nvs EXCEPT ![SaveKey] = Missing]
    BY <1>4 DEF SaveErase, SaveInv
  <2> QED BY <2>1 DEF Store!Write, Store!Keep, Busy
<1>5. ASSUME SaveSet PROVE Store!Write(SaveKey)
  <2>1. phase # "off" /\ phase' # "off" /\ httpd = "saving" /\ bsp' = bsp
        /\ nvs' = [nvs EXCEPT ![SaveKey] = Encoded(bsp)[SaveKey]]
    BY <1>0, <1>5, ImageIsEncoded DEF SaveSet, SaveInv
  <2>2. Store!Keep \/ Store!End(clean)
    <3>1. CASE cursor < 7
      BY <1>0, <1>5, <3>1 DEF SaveSet, Advance, Store!Keep, Busy
    <3>2. CASE cursor = 7
      <4>1. clean => nvs' = Encoded(bsp)
        BY <1>5, <3>2, SaveSetEffect, ImageIsEncoded
      <4>2. httpd' = "idle" /\ clean' = TRUE
        BY <1>0, <1>5, <3>2 DEF SaveSet, Advance
      <4> QED BY <4>1, <4>2 DEF Store!End, Busy
    <3> QED BY <1>0, <3>1, <3>2
  <2> QED BY <2>1, <2>2 DEF Store!Write, Busy
<1>6. ASSUME SaveFail PROVE Store!WriteFails
  <2>1. phase # "off" /\ phase' # "off" /\ httpd = "saving" /\ bsp' = bsp /\ nvs' = nvs
    BY <1>6 DEF SaveFail, SaveInv
  <2>2. \/ httpd' = "saving" /\ clean' = FALSE
        \/ httpd' = "idle" /\ clean' = TRUE
    BY <1>0, <1>6, <2>1 DEF SaveFail, Advance
  <2> QED BY <2>1, <2>2 DEF Store!WriteFails, Store!End, Busy
<1>7. ASSUME NEW ok \in BOOLEAN, ResetErase(ok) PROVE Store!Erase
  <2>1. phase # "off" /\ phase' # "off" /\ httpd = "erasing" /\ httpd' = "idle" /\ bsp' = bsp
        /\ clean' = clean /\ nvs' \in {nvs, Blank}
    BY <1>7 DEF ResetErase, SaveInv
  <2> QED BY <2>1 DEF Store!Erase, Store!Empty, Blank, Busy
<1>8. CASE StartWeb \/ SpawnScheduler \/ Wake \/ StepBegin \/ StepEnd
  <2>1. UNCHANGED <<bsp, nvs, clean, httpd>> /\ (phase' # "off") = (phase # "off")
    BY <1>8 DEF StartWeb, SpawnScheduler, Wake, StepBegin, StepEnd
  <2> QED BY <1>a, <2>1 DEF Busy
<1>9. CASE (\E r \in Requests : Request(r)) \/ PostReject \/ GetBegin \/ GetEnd
  <2>1. UNCHANGED <<bsp, nvs, clean, phase>>
        /\ {httpd, httpd'} \subseteq {"idle", "waiting", "sending"}
    BY <1>9 DEF Request, PostReject, GetBegin, GetEnd
  <2> QED BY <1>a, <2>1 DEF Busy
<1>10. CASE UNCHANGED vars
  BY <1>10, <1>a DEF vars, Busy
<1> QED
  BY <1>0, <1>1, <1>2, <1>3, <1>4, <1>5, <1>6, <1>7, <1>8, <1>9, <1>10
  DEF Next, Boot, Handler, Finish, Store!StoreNext

(* nvs.rs:100-174, web.rs:61-146, main.rs:75-84: for every set of bodies   *)
(* and any number of faults, the two tasks, the lock and the cuts of the   *)
(* power implement the store: the flash moves key by key towards what is   *)
(* being saved and by nothing else.                                        *)
THEOREM DeviceImplementsStore == Spec => StoreKeepsPromise
<1>1. Init => Store!StoreInit
  BY DEF Init, Store!StoreInit, Store!Empty, Blank, Busy
<1>2. Init => CleanInv
  BY DEF Init, CleanInv
<1> QED
  BY <1>1, <1>2, InitTyped, StepTyped, InitSaved, StepKeepsSave, StepKeepsClean,
     StepIsStoreStep, PTL
  DEF Spec, StoreKeepsPromise, Store!StoreSpec
=============================================================================
