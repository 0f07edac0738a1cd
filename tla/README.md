# OmniRID in TLA+

This directory is the verification development of the OmniRID firmware, the
Rust port of a drone Remote ID transmitter. It models the program in TLA+,
checks small instances with TLC and proves the properties that matter most with
TLAPS. Paths below are relative to `OmniRID/` in the repository.

## The system

A Remote ID device takes the position of a drone from an autopilot or a GPS,
puts an identity next to it, and broadcasts both by Wi-Fi and Bluetooth. The
repository builds it as a portable core, protocol parsers, an encoder, and a
board support package for the ESP32 (another one simulates).

| Component | Source | State | Operations | Hard part |
|---|---|---|---|---|
| Scheduler | `firmware/rid-core/src/scheduler.rs` | position, validity, identity, readiness, one rate timer per transport, counters | `tick`, `apply_config`, `snapshot`, `status` | four timeouts over one position; options that change at run time; clocks and counters that wrap |
| Kalman filter | `rid-core/src/kalman.rs` | validity, age, estimate | `update`, `predict`, `get`, `valid_age` | it stamps itself when it predicts |
| Readiness | `rid-core/src/readiness.rs` | a latched flag, takeoff point | `update_identity_ready`, `maybe_capture_takeoff` | what was granted stays granted |
| Hub | `rid-core/src/hub.rs` | none | region table, gating of messages, fallback | three components read the same table |
| Controller | `firmware/app/src/controller.rs` | the stored configuration, the one derived from it, the scheduler | `set_config`, `factory_reset`, `derive_default_ids`, `step`, `status` | two copies of one configuration |
| Configuration store | `firmware/rid-app/src/nvs.rs`, `hardware/bsp-esp32/src/nvs.rs` | the flash | `load`, `save`, `erase` | dozens of separate flash writes; power cuts; ignored errors |
| Boot, tasks | `bsp-esp32/src/main.rs`, `lib.rs`, `core.rs` | one spin lock | boot order, 1-tick loop | two tasks and a lock without a queue |
| Web interface | `bsp-esp32/src/web.rs`, `rid-app/src/json.rs` | none of its own | GET, POST, reset, status, log, upload | a save runs under the lock, a GET sends under it; a document must mean the same to two boards |
| MAVLink input | `inputs/proto-mavlink` | the frame at hand; last values and three stamps | `process`, getters, `sample` | resynchronisation, cut payloads; stamps shared by different data |
| MSP, NMEA inputs | `inputs/proto-msp`, `proto-nmea` | a buffer, last values | `feed`, `get` | lost bytes, fields that move up |
| DroneCAN input | `inputs/proto-dronecan` | a few transfer contexts, a fix with its stamp | `feed`, `get` | interleaved transfers, fewer contexts than senders, a clock that wraps |
| Protocol detection | `rid-core/src/protocol_detect.rs` | none | `detect_protocol` | it sees the start of a stream only |
| ASTM transmitter | `outputs/out-astm`, `EspTx` in `bsp-esp32/src/lib.rs` | the rotation counter of BLE 4 | `build_uas`, `next_message`, `build_pack` | messages that fail to encode, a counter that wraps, a pack that is limited |
| Wi-Fi framing | `out-astm/src/wifi.rs`, `rid-app/src/ble4.rs` | a frame counter | beacon, NAN frame, BLE 4 advert | lengths written around one another |
| Radio drivers | `bsp-esp32/src/wifi.rs`, `ble.rs`, `usb.rs` | SSID, counter, what is advertised | `init`, `send`, `transmit` | each call of a sequence may fail |
| Access control | `rid-app/src/web_config.rs`, `web.rs`, `rid-core/src/security.rs` | the stamps of failed signatures, the log ring | signed writes and commands | a window on a clock that wraps |
| OTA | `rid-app/src/ota.rs`, `bsp-esp32/src/ota.rs` | the upload, the boot partition | `validate_ota_upload`, `finish` | a socket that stalls, ends early or fails |
| Command line | `rid-app/src/cli.rs` | the configuration | `set`, switches | one text, three bases, four widths |
| Authentication | `rid-core/src/auth.rs` | the signing key | `set_key`, `sign_identity` | rounding up of pages |
| Status lights | `rid-app/src/led_status.rs`, `lighting.rs`, `led_ws2812.rs` | state, flash timer | `set_state`, `tx_flash`, `tick` | two clocks share one light |
| USB MAVLink output | `inputs/proto-usb-mavlink` | two rate timers, a sequence number | `tick` | the port takes a part of a frame |

How they interact. On the ESP32 the scheduler task locks the controller, calls
`step` (one `tick`) and sleeps one RTOS tick; the HTTP server task locks the same
controller to read or change the configuration and writes the flash before it
lets go. A tick reads an `InputSample` that a source built, and calls a
`Transmitter` for each transport whose timer ran out; the transmitter asks the
hub which messages the region allows and encodes them; the radio driver frames
them. Everything is a call or a value under that one lock: there are no messages
between tasks. On the ESP32 of this commit the sample is empty, so only demo mode
reaches the radio; with the sources of `inputs/` the same scheduler gets what
`MavlinkFeed` describes.

What makes each part correct: the scheduler never presents an old position as
valid, never broadcasts before the gate is earned, and starves no transport; the
controller never lets a step run on a mixture of configurations; the store gives
back what it acknowledged; the tasks never stop for good; a source never keeps
a dead link alive; a parser takes what was sent, once and in order, and finds its
step again; the transmitter sends every message in turn and whole signatures
only; a receiver can read each frame by the lengths in it; an image that is
committed is whole and one that is right is accepted; what is rightly signed
passes; numbers and documents come out as they went in.

`PROJECT.json` lists every hazard at its line, with the properties that watch it.

## Modules

| Module | Models | Part of |
|---|---|---|
| `Hub` | region table and sanity checks as operators | `Scheduler`, `Device`, `Transmitter` |
| `Scheduler` | one action per call: `Tick`, `ApplyConfig`; `Status`, `Snapshot` as views | `MCScheduler`, `SchedulerProofs`, `MavlinkFeed` |
| `ConfigStore` | the promise of the configuration store, abstractly | refined by `Device` |
| `Device` | boot, flash, controller, the two tasks | `MCDevice`, `DeviceProofs` |
| `MavlinkFeed` | the messages of MAVLink and its source, composed with `Scheduler` | `MCMavlinkFeed` |
| `SnapshotFeed` | the NMEA and MSP sources, composed with `Scheduler` | `MCSnapshotFeed` |
| `LossyLink` | the promise of a framing over a bad line, abstractly | refined by `SerialLine` |
| `SerialBytes`, `MavlinkFraming`, `MspFraming`, `NmeaSentences` | one parser each, byte by byte, as operators | `SerialLine`, `UsbTelemetry` |
| `SerialLine` | a sender, the line and the parser | `Inputs` |
| `DronecanBus` | receivers on a CAN bus, the parser and its clock | `Inputs` |
| `Inputs` | both, with protocol detection | `MCInputs` |
| `Texts` | number parsers, base 64, hexadecimal, UTF-8 as operators | the next six |
| `SignedActions`, `Upload`, `LogRing`, `Console`, `ConfigJson`, `AuthSigner` | one part of the management each | `Management` |
| `Management` | their composition | `MCManagement` |
| `Transmitter` | message list, rotation, pack | `MCTransmitter`, `Outputs` |
| `Lights`, `UsbTelemetry`, `WifiFrames` with `EspRadio` | one output each | `Outputs` |
| `Outputs` | their composition | `MCOutputs` |
| `Lemmas`, `SchedulerProofs`, `DeviceProofs`, `MavlinkProofs`, `InputsProofs`, `FramingProofs`, `OutputsProofs`, `ManagementProofs` | theorems and proofs | |
| `MC*` | the instances TLC checks | |

`Inputs`, `Management` and `Outputs` compose parts that share no state that
changes. A variable (`source`, `desk`, `bench`) says which of them the behaviour
is about; the product of independent parts would show nothing more.

**`Scheduler`.** `Tick(in, d)` is the whole of `Scheduler::tick` on the sample
`in`, `d` milliseconds after the last. It is written as one operator for each
stage: `Usable`, `MergedGps`, `MergedIdentity`, `ReadyAfter` (ingestion),
`KalmanAfter`, `Smoothed` and `Estimated` (filter), `TimedOut` and `ValidAfter` (the
absolute timeout), `Gates`, `Firing` and `UpdateTransmissions` (transmission). A
stamp of the code is represented by its age, the only thing the code computes
from it: `update_age` is `now_ms - last_update_ms` modulo `MsMod`, so it wraps as
the 32-bit clock does; the microsecond timers are 64 bits wide, never wrap in the
life of a device, and saturate where no comparison can tell more. A position is
a class (`origin`, `meridian`, `inside`, `outside`, `estimate`) and a string of
an identity is one of `empty`, `factory`, `own`, `relayed`: what the code tests.
`since_fix` and `ever_sane` are history variables.

**`Device`.** `bsp` is `Controller.bsp_config`, `core` what `core_config` derived
from it, `nvs` the flash as a function from field to value or `Missing`. Seven
fields stand for about fifty: one at least for each way a field is saved (string:
erase then set; float; integer), loaded (missing string becomes empty, missing
float zero, missing integer keeps its default) and used. A save is one action
per flash operation (`SaveErase`, `SaveSet`, `SaveFail`); `PowerCut` may come
before any of them. `lock` is the spin lock; the actions of the tasks that need
it (`StepBegin`, `PostApply`, `ResetApply`, `GetBegin`) are guarded by it.
`durable`, `acked`, `established`, `faults`, `clean`, `changed` are histories.
`Store` is `ConfigStore` with the tasks, the lock and the order of the keys mapped
away; `StoreKeepsPromise` is that specification.

**`MavlinkFeed`.** A frame that passed framing and checksum is a record.
`Process` is `MavlinkParser::process`: the system filter, the switch, and the
trailing refresh of `last_update`. `SampleOf` is the source; a `Poll` is one
`sample` and one `Tick` on it, at the same `now_ms`. The four ages are histories.

**`SnapshotFeed`** puts the other two serial sources in front of the scheduler: what
their parsers keep (`Snapped`, `LastFix`), and one sample of it per tick.

**`SerialLine`** and the parsers below it. The sender sends one of `Messages`; each
byte arrives (`Arrive`), is lost (`Lose`), or another is made up (`MakeUp`), and
`Feed` is one call of the parser. A byte is its value and, when its sender
computed it as a checksum, the data it is the checksum of: an accidental match is
left out, a byte of the right value in the wrong place is not. `MavlinkFraming` has
every state of `frame_char`, the resynchronisation of `parse_char` (a refused byte
that is a start byte begins a frame) and what `process` reads of the zero-filled
payload; the header, payload and signature are shorter than on the line.
`MspFraming` counts sizes over a buffer that a `$` restarts; what it takes is the type of a
frame, which says how the payload is read, and the payload. `NmeaSentences` works on
words and separators, drops the checksum unread and lets fields move up over
empty ones, as `strtok` does. `Link` is `LossyLink` with the parser mapped away.

**`DronecanBus`.** A receiver sends a transfer frame by frame (`Transmit`), frames of
several receivers interleave, are lost or repeated, time passes (`Wait`) between
any two. `AddFrame` is the reassembly: the restart conditions in their order, the
toggle and the transfer id, `Stamped` for the arithmetic that never stores zero,
`IsAfter` for the comparison within half a turn. `missed` remembers a clean
transfer that was not decoded; `fix_age` the true age of the fix. A transfer is due
(`Expected`) when its frames come whole and in time and the parser has a context for every
receiver. Nothing is promised to a receiver that had no transfer due, of a length the parser
holds, for half a turn of the clock (`quiet`: 24.8 days), or one less than all ids in a row
(`undue`: 31 transfers): to the parser the next one then looks like one long past, or like a
repetition of the last.

**`SignedActions`** holds a table of key slots, requests that are rightly or wrongly
signed, and the ring of failure stamps on a wrapping clock. **`Upload`** is
`validate_ota_upload`: one action for each answer of the socket (`Data`, `Timeout`,
`Fatal`, `Complete`, the end of the stream), `Judgement` for the verdict at the end
and `Finish` for the partition calls of the board. **`LogRing`** is the ring and
`render_log_json` with the place where the list is cut. **`Console`** applies typed
texts to fields of the four widths. **`ConfigJson`** is `apply_json` and
`config_to_json` for one field of each kind, on two boards, with the document of the
one handed to the other. A decimal has three digits behind the point, and is cut at `F32Max` where
it becomes an f32, to infinity, which is written as a bare word and makes the document no JSON (`Bare`); a whole
number stops at the ends of an i64 (`Whole`). The rounding of decimals to floats is left out: a number
that was written with the digits of `num1` or `num6` is read as a float that is written with the same digits. **`AuthSigner`** cuts a signature into pages, with the real
sizes of a page.

**`Transmitter`.** `ValidMessages` is the list that `build_uas` and
`build_uas_data` leave valid, in wire order; `NextMessage` is `next_message` with
its fall-through when the encoder refuses the selected message; `Pack` is
`build_pack`. `AuthPage` is what the MAVLink parser does with one page, seen as
soon as a tick hands the identity on; `SetIdentity` and `SetRefused` are the
other ways in which what the scheduler passes to a transport changes.
`KeepsRotation` says whether the caller keeps the counter (`bsp-sim`) or starts
from zero each time (`EspTx`). Of the encoder, which is C code
(`opendroneid.c:282-512`), only whether it refuses a message is modelled, and that is chosen from `RefusedChoices`.

**`Lights`** computes each pattern from the tick number with the periods of the code;
a colour is its name. There are two clocks, as in `tick`: blinks count ticks of 100 ms whatever the time is, pulses,
flashes and the position lights go by the milliseconds (`now_ms`), which wrap at `ClockSpan`; a tick comes late or early
(`Gaps`). The offset of a position light is added modulo `ClockSpan`, negative ones too. **`UsbTelemetry`** packs its frames with the trimming and
checksum of `pack.rs`, writes all of them or a part, and lets a host read the bytes
with the parser of `MavlinkFraming`: the encoder of one crate against the parser of
another. **`WifiFrames`** builds a frame byte for byte and reads it back as a receiver
would, who knows only the lengths in it; **`EspRadio`** is the sequence of driver calls
around it, each of which may fail.

## Runs

| Run | Specification | Checks | What it shows |
|---|---|---|---|
| `sched_validity` | `Scheduler!Spec` | `TypeOK`, `FreshPosition`, `CountersAgree` | a GpsOk light and a frame without `bcast_powerup` rest on a position no older than the timeout, over option changes, filter, demo mode and clock wraps; the counters of a frame, and those of the status, agree |
| `sched_gate` | `Spec` | `NothingOnAirUnearned` | with the gate on in every configuration nothing leaves before one sane fix |
| `sched_air` | `FairSpec` | `NoTransportStarves`, `StaleOnce`, `LossIsNoticed` | each transport whose gates stay open transmits again and again; the loss of a source is reported once and noticed for good |
| `device_config` | `Device!Spec` | `TypeOK`, `OneConfigOnAir`, `AcknowledgedSurvives`, `StoreKeepsPromise` | a step runs on one configuration; what was acknowledged after clean writes comes back, for the scheduler too unless a boot left it the defaults; the device implements `ConfigStore` |
| `device_tasks` | `FairSpec` | `OneKeyPerFault`, `SchedulerRuns`, `RequestsFinish` | each fault costs at most one key; neither task is locked out; every request ends |
| `mavlink_feed` | `FeedSpec` | `FeedTypeOK`, `LinkLossIsNoticed`, `IdentityIsRecent`, `OperatorIsRecent` | the limits of parser and scheduler add up and no more; frames of other systems change nothing |
| `inputs` | `InputsSpec` | `InputsTypeOK`, `MavlinkFindsStep`, `MspAlwaysInStep`, `NmeaReadsInPlace`, `CleanTransferTaken`, `FixIsFresh`, `OnlyWhatWasSent` | what a parser takes was sent, once and in order (it implements `LossyLink`), and what arrives whole is taken once the parser is in step; the same of CAN transfers that interleave |
| `access` | `ManagementSpec` | `AtMostMaxFails`, `RightlySignedPasses`, `CommittedIsWhole`, `GoodUploadAccepted`, `LogInOrder`, `NumbersAsTyped`, `ExportRestores`, `PagesMakeSignature`, `UploadEnds` | what is rightly signed passes unless too many failed lately; an image is accepted if it is whole and right, and only then; every upload ends; log, numbers, documents and pages come out as they went in |
| `outputs` | `OutputsSpec` | `LightsTell`, `TelemetryArrives`, `ReceiverGetsPack`, `EveryMessageInTurn`, `PackNeverOverflows`, `SignatureWhole` | a light tells its state; a host reads the telemetry; a receiver finds the pack that was handed over; no message waits two turns, no pack is rejected for its length, signatures are whole |
| `viol_core` | `Device!Spec` | `CoreIsDerived` | violated: a configuration with its own IDs is saved, the power fails, and after the boot, which loads it, the scheduler runs on the defaults |
| `viol_rotation` | `Transmitter!Spec` | `EveryMessageInTurn` | violated with the caller of the ESP32: BLE 4 never sends the location |
| `viol_silence` | `SnapshotSpec` | `SilenceIsNoticed` | violated: an NMEA or MSP receiver that falls silent keeps its last position on air for ever |

Each property of a passing run has a mutant in `PROJECT.json`: a plausible bug in
a mapped definition with which TLC finds the property violated. `access` does not
check deadlock: an upload, and the bounded sequences of commands and documents,
really end.

### Bounds

* Clocks. An instance counts time in a few units: `GpsStaleTimeout` is 1 to 3,
  `MsMod` (2^32 in the code) 4 to 7, a tick lasts 0 to 2 units (0 only in
  `sched_air`). Every timeout is
  reached from both sides and the clock wraps many times in a run. What has to
  hold of the real numbers is in the assumptions: a tick never outlasts what is
  left of the clock after the timeout. The CAN clock turns after `ClockMod` 5 units
  with timeouts of 1 and 2; the clock of the limiter after `ClockTurn` 8 with a
  `Window` of 3.
* Counters. `CountMod`, `NanMod` and `RotMod` keep the ratios that matter (`NanMod`
  divides `CountMod`; `RotMod` is 8, with a remainder for lists of 3, 5 and 6
  messages). `StatMod` is 1: the diagnostic counters feed nothing. `CounterMod` and
  `TxSeqMod` are 2: the radio counter and the sequence number are only passed on.
* Configurations, samples, frames and JSON bodies are small sets with one member
  for each path through the code that takes them; the `MC` modules name them. In
  `mavlink_feed` the three limits are equal, to keep the instance small: a mix-up
  of them would not be seen there.
* `MaxFaults` of the flash (1 and 2) bounds the faults between two clean saves: two are
  enough for a fault in the repair of a fault.
* `MaxFaults` of the line is 1 byte for MAVLink and NMEA, 2 for MSP, lost or made up
  among the frames without a limit on their number; bytes are made up that are start
  bytes, lengths and ids. One fault suffices to put the parser out of step for
  several frames, which is what the properties are about. `MaxPayload` 7 (255; 34 in `outputs`, where a field holds that number) and
  `SignatureLen` 2 (13) keep a start byte possible as a length; `MspBuffer` 10 and
  `NmeaBuffer` 24 with `LineMax` 20 are outgrown by a misread size or a lost newline.
* CAN transfers have 1 to 4 frames where 3 fit, ids modulo 4, one or two contexts
  for one or two receivers, at most one frame lost or repeated.
* Texts: `ByteMod` is real, `WordMod` 4096 and `LongMod` 65536 are multiples of it as
  2^32 and 2^64 are, and of each other; the typed texts cross each of them. Buffers hold
  3 to 6 characters, with texts that end inside, at and beyond them, and inside a
  character of two bytes. Two commands and two documents show one overwriting another.
* `MaxFails`, `MaxStalls` and `RingMax` are 3: below, at and past the limit are distinct.
* Pages have their real sizes (17, 23, 16 pages); a message has its
  real 25 bytes and a frame 300 where 1024 fit.
* The lights have their real periods: the blinks repeat after `Cycle` 70 ticks, and a watcher looks
  for 9 ticks, long enough for each pattern to differ from the others. Ticks are 96 or 144 ms apart
  and there are `MaxTicks` 18 of them, two watches. `ClockSpan` 1296 is what 2^32 leaves of a pulse of 2000 ms:
  the clock turns every 9 to 13 ticks, and meets the periods as the real one does. The offsets of the
  position lights are 0, 100, 350, 1000 and -1000, which takes a light over the end of the clock; one light has no pin.
* `F32Max` is 36000, in thousandths as all decimals are: a document may have 40000 or -40000 where an f32 is kept.
* `PackMax` 6 and `AuthMaxPages` 2 keep the shape of 9 and 16: room for zero, one
  or two pages according to the optional fields, and signatures too long for it.

### Fairness

`Scheduler!FairSpec` asks for weak fairness of ticks that take time: the task
loops for ever (`main.rs:134-169`) and the clock advances. `Device!FairSpec` asks
for weak fairness of the scheduler's own steps and of the steps that finish a
request, and for strong fairness of the step with which the HTTP task gets the
lock: the lock is a test-and-set loop without a queue, but the scheduler sleeps
a whole tick with the lock free and the spinning handler finds it so. The
opposite is not assumed: while clients keep sending requests nothing promises
the lock to the scheduler, and `SchedulerRuns` is about the time when they stop.
`ManagementSpec` asks for weak fairness of the answers of the upload's socket:
the members of `RecvChunk` are bytes, a timeout and an error, so that every wait
ends; how is left open. No fairness is assumed of clients,
lines, power, flash faults or boot.

## Refinement

* `Device` implements `ConfigStore` (`StoreKeepsPromise`, in `device_config`). The
  abstract store has a value, a flash and a phase: the flash changes one key at a
  time and only towards the value being saved, or is erased as a whole; a save
  without a failed write ends with the whole value in flash; a power cut changes
  nothing in flash; a boot comes back with what is derived from the flash. The mapping
  forgets the tasks, the lock, the requests and the cursor.
* `SerialLine` with each of the two binary parsers implements `LossyLink`
  (`OnlyWhatWasSent`, in `inputs`). The abstract link has the frames in flight and the last
  one taken: a frame is taken if it was sent, once, and the older ones are then given
  up. An MSP frame is its type and its payload. The code sums up the payload alone, so that the parser may take the header
  of one frame for the payload of another, when the first byte of the later one is lost or a byte is made up inside a
  frame: what is taken then is left out of the refinement (`unmixed`, `Accepts`), and shown to happen in no other way. Nothing is said of how many arrive: that is `MavlinkFindsStep` and
  `MspAlwaysInStep`. NMEA is left out of it, because it drops its checksum: a damaged sentence is
  read as a sentence.

Both are proved: `DeviceImplementsStore`, and `LineImplementsLink` for a line that is honest (below).

## Proofs

| Theorem | Property | For |
|---|---|---|
| `SchedulerTypeCorrect` | `TypeOK` | all configurations, inputs, moduli and clock steps |
| `PositionsOnAirAreFresh` | `FreshPosition` | the same |
| `GateIsEarned` | `NothingOnAirUnearned` | the same |
| `CountersAlwaysAgree` | `CountersAgree` | the same, after any number of wraps |
| `StaleReportedOnce` | `StaleOnce` | the same, without the filter (`FilterUnused`) |
| `FeedTypeCorrect` | `FeedTypeOK` | all frames, filters, limits and clocks |
| `LostLinksAreNoticed` | `LinkLossIsNoticed` | the same, with `OnlySamples` |
| `RelayedIdentitiesAreRecent` | `IdentityIsRecent` | the same, with `OnlySamples` and `OwnIdentities` |
| `RelayedOperatorsAreRecent` | `OperatorIsRecent` | the same, with `OnlySamples` |
| `EveryReadableFrameIsTaken` | `MavlinkFindsStep` | all message tables, signature and payload lengths, frames, noise, any number of faults |
| `WholeFramesAreTaken` | `MspAlwaysInStep` | all frames, noise and buffers, any number of faults |
| `FixesAreFresh` | `FixIsFresh` | all buses, limits and clocks |
| `BusTypeCorrect` | `BusTypeOK` | the same |
| `CleanTransfersAreTaken` | `CleanTransferTaken` | the same, all lengths, numbers of ids and of receivers, any number of faults |
| `InputsTypeCorrect` | `InputsTypeOK` | all of the above, and all sentences |
| `SentencesAreReadInPlace` | `NmeaReadsInPlace` | all sentences, noise and buffers, any number of faults, with `SentencesInPlace` |
| `LineImplementsLink` | `OnlyWhatWasSent` | all message tables, frames, signature and payload lengths, noise and buffers, with `HonestLine`; MSP frames by type and payload, unless one is mixed up (above) |
| `PacksNeverOverflow` | `PackNeverOverflows` | all regions, fields, and numbers of pages and places |
| `SignaturesAreWhole` | `SignatureWhole` | the same |
| `MessagesTakeTurns` | `EveryMessageInTurn` | the same, all widths of the counter, with `KeepsRotation` |
| `TelemetryAlwaysArrives` | `TelemetryArrives` | all message tables, periods, passes, places and cuts |
| `ReceiversAlwaysGetPacks` | `ReceiverGetsPack` | all names, messages, counters and sizes of the buffer, with a board's address of 6 bytes |
| `LightsAlwaysTell` | `LightsTell` | all tables of lights with any 16-bit offsets, watches, flashes and ticks 7 to 1289 ms apart, through the turns of both clocks, with `LooksDiffer` |
| `CommittedImagesAreWhole` | `CommittedIsWhole` | all uploads, limits and buffers |
| `GoodUploadsAreAccepted` | `GoodUploadAccepted` | the same |
| `NoWindowHoldsMore` | `AtMostMaxFails` | all limits, windows and turns of the clock |
| `RightlySignedAlwaysPasses` | `RightlySignedPasses` | the same, with `RightlyVerifies` |
| `SignaturesComeTogether` | `PagesMakeSignature` | all keys and sizes of pages, signatures that a byte counts |
| `LogIsInOrder` | `LogInOrder` | all lines, and all sizes of ring, line and buffer |
| `ExportsAreRestored` | `ExportRestores` | all values, widths, buffers, largest floats and tables of regions |
| `TypedNumbersGetIn` | `NumbersAsTyped` | all texts, sets of fields and widths |
| `DeviceTypeCorrect` | `Device!TypeOK` | all sets of JSON bodies and bounds on faults |
| `OneConfigAlwaysOnAir` | `OneConfigOnAir` | the same |
| `AcknowledgedAlwaysSurvives` | `AcknowledgedSurvives` | all storable bodies (`Storable`) |
| `LossIsBounded` | `OneKeyPerFault` | all bodies, any bound on faults |
| `DeviceImplementsStore` | `StoreKeepsPromise` | the same |

`SchedulerProofs` has the scheduler alone and then behind the MAVLink parser (`MavlinkFeed`);
`DeviceProofs` the device; `ManagementProofs` uploads, then the limiter, the signer, the log,
the JSON document and the command line. `MavlinkProofs` has no theorem of its own: it is what one byte makes of the
MAVLink parser, for the two that read bytes, the input lines (`FramingProofs`, with the types of all
inputs; `InputsProofs` has the CAN bus and MSP) and the host at the end of the telemetry (`OutputsProofs`,
with the transmitter, the lights and the radios). `FramingProofs` goes on with the link and ends with the sentences of NMEA. `Lemmas` has the facts on `%` that wrapping clocks and counters need, as
the solver knows nothing of a remainder by a constant it cannot see, and those on
folds (see *Folds* below).
### What is assumed

The constants: `ConstantsAssumption`, `DeviceAssumption`, `FeedAssumption`,
`TransmitterAssumption`, `LightsAssumption`, `TelemetryAssumption`, `RadioAssumption`,
`UploadAssumption`, `LimiterAssumption`, `BusAssumption`,
`MavlinkAssumption`, `MspAssumption`, `NmeaAssumption`, `LineAssumption`, `PageAssumption`, `LengthAssumption`,
`RingAssumption`, `JsonAssumption`, `RegionAssumption`, `WidthAssumption` and `ConsoleAssumption`, which TLC also
evaluates on each run that reaches them. Most say that a number is a number. The others: a
tick does not outlast what is left of the clock after the timeout; a clock
turns in more than two windows of the limiter, and in more than two timeouts of the bus
(50 days against minutes and seconds); a bus has finitely many receivers and a position takes
more than one frame (`FIX2_FIXED_BYTES` is 48, a frame carries 7); a pack has at least six places; the
table of the messages knows lengths that fit the payload, and the text of an ID
lies within its message (`parser.rs:35-36`, `:101-118` of MAVLink); the host knows the two messages
of the telemetry, the fields of which and the sequence number are bytes (`seq as u8`), and its passes
have a longest one; messages, names and addresses are bytes, a message has 25 of them as the advert of
Bluetooth 4 counts (`0x1E`), a pack at most nine, and the counter of a frame is one byte; page 0 carries no more than
another page (17 and 23, `auth.rs:149`), a signature that
fits the pages has fewer than 256 bytes (Ed25519: 64; `sig_len as u8`), signatures and log lines are sequences of bytes,
and the buffer of the log has room for more than one byte; the defaults of the configuration
fit its fields, and the names of the regions differ in more than case; of the widths of numbers
each is a part of the next one and has as many values below zero as from it; a field of the
command line has one kind, and its texts are characters; a line of NMEA has room for the seven fields that are
read (`MAX_FIELDS` is 16), and digits read as a number that is not negative (`c_atoi` saturates).
The clock of the lights wraps where 2^32 does, 1296 ms into a pulse; offsets are 16 bits with a sign; a tick is never so late or so
near to the last one (1290 ms, 6 ms) that a pulse is met in the dark twice running. The largest float is whole, and an i64
holds twice what the other fields do.

Besides the constants, some theorems have a hypothesis, which the instance of its run satisfies:

* `FilterUnused`: no configuration runs the filter, unless in demo mode. With it `gps_stale`
  is set at every tick of a loss (see below), so `StaleOnce` is false.
* `OnlySamples`: neither demo mode nor the filter. Both put another position in the place
  of one the autopilot no longer sends, as they are meant to.
* `OwnIdentities`: the strings of a configuration are not mistaken for relayed ones.
  It is about the classes of strings of the model: the property could not tell them apart.
* `KeepsRotation`: the caller keeps the counter of the rotation. `viol_rotation` shows the other case.
* `SentencesInPlace`: no field of a sentence moves up into the place of a position. A position
  sentence has its first seven fields, or one of those that are read is missing and too few are left
  for the test of the parser (`count < 7` for GGA, where the empty `fields[6]` ends it, and `count <= 5` for RMC), or it is an
  RMC sentence that says it is void; and it fits both buffers (`ReadInPlace`). It speaks of the words a receiver
  sends alone, nothing of what the parser does with them. TLC evaluates it on the sentences of
  `inputs` (`SentencesAssumption`). It excludes the two cases among *Divergences seen*: a GGA
  sentence with an empty time, and one with many fields of which an early one is empty.
* `HonestLine`: of the made-up bytes none is a checksum (the model leaves out data that
  matches a checksum by accident, `SerialBytes`; noise that copied the checks of a frame would be such
  an accident), and if any frame is signed, no more bytes are lost or made up in all than
  the shortest frame has. A signature is waited for and not looked at (`parser.rs:427-439`), so
  that a parser which lost the end of one takes bytes of the next frame in its place; if it lost
  all of that frame too, the one it takes at last may be one the abstract link has given up.
  Without signed frames there is no bound. TLC evaluates it on `inputs` (`HonestAssumption`).
* `LooksDiffer`: no two states look alike for `Watch` ticks. It is a fact about the patterns
  and `Watch` alone, and true of those of the instance: every look of every state is
  watched there, so that `LightsTell` would fail if two states shared one. The theorem adds that
  what was watched is always a piece of the pattern of the present state, whatever ticks,
  flashes and changes came before.
* `RightlyVerifies`: a request that is rightly signed verifies, and a command that is rightly
  signed is understood as what it is. The tags of the requests are the specification's;
  that Ed25519 accepts a true signature is not proved here.

### Along which argument

*Fresh positions.* `FreshPosition` is not inductive: it says nothing of
`update_age`, on which the next tick decides. The strengthening (`FreshInv`) ties the code's
age to the true one: the two are equal until the clock has turned once since the
last fix, a valid position is `Fresh`, and a light or a frame means a valid one. The only way for the code's age to be small while the
true one is a whole turn of the clock is a filter that re-validates the position
at every tick; `Fresh` names this case instead of hiding it.

*Gate.* Readiness is latched, so the invariant is that a granted readiness, in a
world where every configuration has the gate and none the demo mode, goes with
`ever_sane`.

*Counters.* `CountInv` is that the total is the sum of the four modulo their width; a
tick adds to both the number of transports that fire, and `%` may be taken before or
after the sum. The narrow NAN counter agrees with the wide one only if its modulus divides
the other's, which the invariant says. *Stale.* A tick that reports a loss
leaves the position invalid (`StaleIsInvalid`), and the next one reports nothing unless a
new position came.

*Link loss.* `FeedInv` adds to `FreshInv` that each stamp of the parser is as old as
what it stamps until the clock has turned, and `HeardNear`: when the last position came the
link was no older than its limit, so that it is now at most `since_fix` older,
or has been renewed. The two timeouts add up in one step, `HeardIsBounded`.

*Finding the step.* The proof of `MavlinkFindsStep` is the longest. `MavKept` is what
the parser keeps at every byte (the `Step` lemmas, one for each state); `BytesRead`
counts the bytes of a frame it has read. `Seen` is the strengthening: a frame that was begun
within the last `calm` bytes is the frame on the line, at its place. Each byte that is not
a start byte adds one to both, and a start byte inside a frame sets `calm` to
zero; as no `BytesRead` is above `Misread`, a parser that has been calm for so long is inside
the frame on the line or inside none. From the first byte of the next frame on it is
`Followed`: version, length, number, summed bytes and payload are those of the frame, so the
checks match and `process` reads what was meant. The invariant was first checked on
the instance of `inputs`. It allows the parser to be in the wrong version, as
happens after a refused frame (`parser.rs:273-279`): such a frame is misread, and
then it is over.

*Only what was sent.* The refinement needs to know what a checksum is worth. `Tells` says, of every parser
whatever it has been fed, that the bytes summed up are the bytes read: the first is the length, the second of
version 2 says whether there is a signature, the payload is behind the header, and behind it comes the number of
the message. So a parser whose sum is that of a frame has read that frame, version, payload and all, however its
bytes came together (`Unmixed`): a frame of one version is not taken for one of the other, for the first byte of the
sum fixes how long it is. The second check on the line is that of the frame being sent, and its only other source
would be noise; hence a frame is taken at the second check when it is last in flight (`CheckTakes`). Between the check and the
end of a signature more can happen: `Waits` says that the frame is still the last one sent, or was so until the
next one, and bounds what is left to wait for by the bytes to come and the faults. This `LinkKept` was first checked on the
instance of `inputs` (1.8 million states). For MSP the sum says which payload is taken, and
when: at its own last byte (`MspOpen`: an open buffer is never a whole frame). The type is not under it. But since the first
byte of the frame restarted the parser, and nothing was made up, the buffer has at most as many bytes as have come of the frame,
and just those if it has as many (`HoldsOf`); a frame of the right payload needs all of them, so that its type is the frame's.

*Telemetry.* The host reads a whole write at once, a parser folded over a buffer: `HearsStepwise`
takes the fold apart, and from there on the argument is that of the input lines. What was
cut off may leave the host inside a frame (`MavKept` is all that is known of it); if it waits for a frame and
the next one is whole, it has `Followed` it to the end (`WholeIsHeard`), and takes it as it was meant, without the zeros
that were trimmed (`FinalizeFrames`: what the sender writes is a frame of the kind the parser
was proved about). The heartbeats are the easy half: `silence` is at most
`since_heartbeat`, which a heartbeat that is due sets back.

*Radios.* Nothing is remembered from frame to frame but the counter, so that `RadioInv` is short; the work is in the bytes.
A frame is put together of a dozen parts: `Holds` says that a part stands at a place, `Appended` that it stays there when more comes,
and so each byte a receiver looks at is known (`BeaconShape`, `NanShape`), the places behind the name counted from its length.
The receiver's walk is a recursive function; `ElementsWalk` shows that there is such a
function, by going backwards from the end of the frame, and that an element which is whole is followed by the walk behind it. Three such
steps read a beacon, two an action frame (`BeaconRead`, `ActionRead`), and just one element of each has a pack. It is that of the messages
because each of them starts 25 bytes behind the one before (`MessagesFlat`, by induction over the messages), which is where `ReadInfo` looks.

*Sentences.* `NmeaInv` is that the parser's buffer holds the words of the sentence that have arrived, or, when the
newline has, that the position is the one meant; `before` was the snapshot when its sending began, and until the newline nothing
else writes it. What a line gives is the longer half. The words are flattened from the fields
(`FlattenStepwise`) and split again by a fold (`TokensStepwise`), so that the fields can be followed one at
a time: `Told` says that after k of them as many fields are open or closed as were not empty, and that
each one stands in its own place as long as none before it was empty (`FieldsTold`, by induction over the fields). The cut at the
star and at the end of the buffer takes none of them away (`CutAtStar`), so the parser reads each in its
place, or too few to give a position (`ReadAsMeant`, one lemma for each way in which a sentence may be meant).

*MSP.* A `$` restarts the parser, so `MspReading` needs no history: a frame without a `$`
behind its first byte is in the buffer as far as it has arrived.

*CAN bus.* `BusInv` is `BusTyped` (with the length of each buffer), `OneEach` (no two contexts of
one node, the invariant of `get_or_create_context`) and `FixAged`, the stamp as old as the fix.

*Types of the lines.* `LineKept` puts the three protocols together; a frame in flight may
be of any shape, so sequences are typed by their own values (`IsList`).

*Transmitter.* The optional messages of the list are at most five for all choices of fields,
and the pages fill at most the places that are left. `TurnsKept` bounds the
cycles since each message by what the counter still has to go (`WaitBound`), through
the end of a round and the wrap of the counter, where a part of a round is skipped; hence two rounds.

*Lights.* `WatchInv`: what was watched is a piece of the pattern of the present state
(`SeenFrom`) that ends with the present tick; a watch that is full is therefore one of its
looks. A tick extends the piece and may cut its beginning (`WatchedOn`, `WatchedLess`). For a blink the piece is of
the pattern, by ticks; for a pulse it has no two dark ticks in a row, which is the arithmetic of the clock through its wrap.
`HalfPeriod` is that of the position lights, for two that the wrap does not part.

*Clean transfers.* `FollowedInv` says of every node what its context may be (`Following`), if
there are enough of them. Its stamps are no older than the last transfer that was due
(`StampsIn`), so the parser looks at the frame. It expects the id of the node, or one of as many
before it as transfers were not due since (`TidNear`), so that a first frame is either the
one expected or skips ahead and restarts; that is where `undue` must stay below
`TidMod` - 1. And amid a transfer that is due it holds the pieces so far, their checksum, the
toggle and the stamp of the first (`GoesAlong`). A frame keeps this for its node, with
any frame of the transfer that is repeated refused, and touches no other node's context
(`ContextsFed`): each has its own, by the pigeon-hole principle (`SlotFits`).

*Uploads.* `UploadInv` is that what was hashed is what was sent so far, that the flash holds it
piece by piece and the verdict was passed on it; for a right upload that it is
also right so far.

*Limiter.* `LimiterInv` maps each failure of the last window to a stamp in the ring that
is as old, different ones to different stamps (`Stamped`), so that there are no more
failures than places. For `RightlySignedPasses` the other direction: the stamps without a
failure are old (`OthersOld`), unless the clock may have turned.

*Folds.* The code has loops over pages, bytes and records, and the models have folds. The
theorems of the library for an induction take an operator, which no installed prover can
instantiate, so `SetInduction` has a set in the place of the operator: it follows from
`<` being well-founded on the numbers. The fold of the library is a function picked with CHOOSE;
`FoldExists` shows that there is one to pick, by gluing together the partial
folds of the first n elements (`Unfolds`). Each loop then has a lemma that says what it works
out step by step (`AssembledStepwise`, `BodyStepwise`, `ListStepwise`).

*Pages.* What the first k pages give back is the signature up to where page k begins, and
zeros past its end (`Put`); the last page ends at or behind the end of the signature
(`PagesReach`), where the result is cut. The invariant is only that the pack in memory
was made from a signature (`PackMade`).

*Log.* `RingInv`: the ring holds the records of the last lines, in their order from `head` on, through
the wrap. `Same` compares the loop that writes into the buffer with the plain
list, record by record: they are equal, or both as long as the limit and equal so far;
what is cut at the limit is therefore the same, and there is room for the mark of the end.

*Documents.* `Allowed` is the set of what a field may hold: a text no longer than its buffer, a
number that is its own remainder with or without sign, a code of its table. The defaults are
in it (`FactoryFits`) and every value posted leaves the field in it (`TakenFits`);
that is the invariant. `WrittenBack` is the round trip: what is in `Allowed`, written,
taken by a board that held anything else allowed, and written again, is the same. For texts it rests on
`CstrOf` (reading what was read changes nothing), for decimals on `NearestTwice`, for signed
fields on `SignedBack`, and for the width of a float on `AsF32Back`: a number that is not infinite is
written as one that is not (`NearestIsFinite`), so that the document is JSON (`NeverBare`). No field is read or written from another, so that they are proved about one at a time.

*Typed numbers.* `ConsoleInv`: the number that was typed last is in its field as `parse_i64_base0` read
it, for no other command touches a field of a number. `TypedAlike` compares that reading with C's. Both
take the same digits but for the leading zero of an octal number, which
`ZeroAdds` shows to add nothing, and digit by digit what is kept in i64 differs from the number
by whole turns (`Alike`, `AccumulatedAlike`); so do the sign and the narrower
field (`KeptAlike`). Digits that are no octal ones, a prefix without digits and a lone sign are in it:
they end the number for both.

*One configuration.* The inductive part (`CoreBound`) says that `core` is derived
from `bsp`, or is still the default of a boot nobody has changed, and that the
standard is bound to the region of `core`.

*Acknowledged.* During a clean save every key before the cursor holds its stored
value (`SaveInv`), so that when the last one is set the flash is the image of
`acked`, and it stays so until the next write. `DurableInv` adds that storable
bodies keep every value of memory and flash one that reads back as itself:
loading the image gives `acked`, but for placeholder IDs. That the scheduler runs on it follows from
`CoreBound`, with the boots that leave it the defaults excepted by name.

*Loss.* `LossBound` is `OneKeyPerFault` for every moment of a save; it needs
`SaveInv`, which says that while a key is erased it is missing, so that the step
that sets it, or fails to, changes the count by one.

*The store.* Every action of `Device` is, under the mapping, an action of `ConfigStore` or
leaves its variables alone; the proof needs `SaveInv` (a save ends with the whole
image) and `CleanInv` (no failed write is remembered outside a save).

### Only model-checked

* Liveness: `NoTransportStarves`, `LossIsNoticed`, `SchedulerRuns`, `RequestsFinish`,
  `UploadEnds`. Out of the prover's reach.
Every other property of a passing run is stated by a theorem.

## Divergences seen

With a run: the three `viol_` runs above. Without one, first the configuration:

* A factory reset keeps the keys in memory (`controller.rs:115`) and erases the
  flash (`web.rs:137`); the two disagree until the next boot.
* An empty flash loads floats as zero (`bsp-esp32/src/nvs.rs:92`), which means
  disabled for a rate, where the defaults and `rid-app/src/nvs.rs:628` have numbers.
* `set_config` compares the new configuration with one already changed in place
  (`web.rs:74`) and so never reports that the baud rate changed; nothing on the
  ESP32 reads the answer.
* A public key of 256 characters is stored and read back empty
  (`bsp-esp32/src/nvs.rs:42`): excluded by `Storable`.
* `mavlink_usb_enable` is exported as a truth value (`json.rs:336`) and read as a number
  only (`json.rs:253`): a profile that is saved and loaded again loses the switch.
  `ExportRestores` leaves it out.
* A baud rate or bit rate of 2^32 passes the test for more than zero and is stored as 0;
  a text cut inside a UTF-8 character is exported as empty (`cstr`). `ExportRestores`
  names the first case and checks the second.
* `operator_alt` is cut to an f32 without a test (`json.rs:212`): 1e39 becomes infinity, and `config_to_json` then writes
  `inf` (`json.rs:322`, `:371-373`), which is no JSON, though `json.rs:11-12` has the web UI always receive
  well-formed JSON. The page of the configuration cannot read it, and a board refuses the whole document.
  `ExportRestores` names the case; without the exception TLC finds it violated.
* `parse_f64` takes the whole text or 0, where its comment says `strtod` (`cli.rs:271`).

The scheduler and its inputs:

* `gps_stale` is documented (`scheduler.rs:43`) as "just expired"; with the filter
  on it is set at every tick of a loss. `StaleOnce` is checked without the filter.
* The filter's own limit of three seconds never ends anything, since `predict`
  stamps it; a comment of a test (`scheduler.rs:613`) expects it to.
* Readiness granted before the gate is enabled, or by demo mode, stays granted
  (`readiness.rs:42-53`).
* A MAVLink heartbeat refreshes the stamp of the position (`parser.rs:557` with
  `:562`): frames without a position keep an old one fresh.
* The NMEA checksum is dropped unread, though
  `../todolist/processes.md:166` has it validated. The checksum of an MSP frame is of its
  payload only, not of its size and type (`parser.rs:95-97`): after a fault the header of one frame may be taken for the
  payload of another.
* A GGA sentence with an empty time is read with its fields moved up; one that reports no
  fix keeps the old `fix_type` and position.
* A DroneCAN context that was quiet for 24.8 days is not restarted for the next 24.8
  (`is_after`); a transfer without a fix overwrites the position while the last fix
  is still fresh.

Management:

* `bsp-esp32/src/ota.rs:86-98` sets the boot partition to the running one, its
  comment names the one that was updated; `check_and_run` polls for ever and serves
  no upload. `Upload` models both partitions (`boot`) and checks what is in the flash.
* `../todolist/processes.md:209` has the upload of the web without a check of its
  signature; `validate_ota_upload` has one, and no route of the board calls it.
* A list of log lines that is too long is cut inside an entry (`web.rs:150-153`), so
  it is not well-formed JSON; `LogInOrder` says only that it is the beginning of the list.
* Failures of an earlier turn of the clock read as recent after 49.7 days without a
  check; `RightlySignedPasses` names the case.
* `AuthSigner` is used by nothing outside its tests and `auth_enabled` is never set;
  the `uptime_ms` of the status is the stamp of the last update.

Outputs:

* `EspTx::ble4` passes the rotation after the increment as the frame counter;
  `rid_app::ble4` and its tests use the value before it.
* With an empty SSID no beacon is ever built. The BLE 5 advert is the bare pack, without
  a Service Data header. `wifi::init` has `expect` on its calls, so that a
  failure is a panic; `ble::set_power` and `deinit` are called by nobody.
* The offset of a position light is added modulo 2^32, which is no multiple of a period (`lighting.rs:57`): where it takes
  a light over an end of the clock, two lights half a period apart may both be on, or both off, as in the test of
  `lighting.rs:167-175` at 0 with an offset of -1000. `LightsTell` excepts it (`SameTurn`).
* A flash in the first 20 ms after a tick is over before the next one and never seen;
  `main.rs:152-166` sets the light from the state of the scheduler every 200 ms and
  does not use `LedStateMachine`. `MavlinkUsbTx` is not instantiated on the ESP32.
* The loop is documented (`core.rs:3-6`) as undisturbed by the web server; a
  handler holds the lock while it writes flash or sends.

## Not modelled

The byte layout of Open Drone ID messages and the fields of MAVLink and DroneCAN
payloads, past those a property is about; the floating-point content of the
filter; log texts, the tables of names of the command line, and the static web page;
Ed25519 and SHA-256, of which only the result matters; the loop that waits for an
upload (`check_and_run`); the drivers of the board, and the vendored C library,
whose encoder is present in the tree (`opendroneid.c:282-512`) and is modelled by what it refuses; the
simulator and the host demo, which print; and the desktop application, of which only the profile it hands over is seen (`HandOver`).

## Plan

1. *Done:* `Hub`, `Scheduler`, `Device` with their proofs; `MavlinkFeed`, `Transmitter`.
2. *Done:* `ConfigStore` and `LossyLink` with their refinements; `Inputs`, `Management`,
   `Outputs`.
3. *Done:* the proofs of the safety properties of all components that keep state, and the
   refinement of the configuration store.
4. *Done:* what the folds of the signer and of the log work out, by induction over sets; the
   round trip of the JSON document.
5. *Done:* `TelemetryArrives` by the same induction.
6. *Done:* `CleanTransferTaken` without a bound of faults, for transfers of which fewer than
   `TidMod` - 1 in a row were not due before.
7. *Done:* `NmeaReadsInPlace` for all sentences in which no field moves into the place of a position.
8. *Done:* the refinement of the lossy link, over an honest line.
