--------------------------- MODULE SignedActions ---------------------------
(***************************************************************************)
(* The requests of a locked board: a write of the configuration or a       *)
(* factory reset has to be signed, and so has a command; after a number of *)
(* failed verifications within a window the writes are refused.            *)
(***************************************************************************)
EXTENDS Texts

CONSTANTS
  KeySlots,              (* the key texts of the configuration               *)
  Verifies(_, _, _),     (* the signature scheme: the key, the digest of a   *)
                         (* body, a signature                                *)
  KeyLen, SignatureBytes,(* 32 and 64 bytes                                  *)
  Requests, Commands,    (* bodies with the signature that came with them    *)
  MaxFails, Window,      (* SIG_RATE_MAX_FAILS, SIG_RATE_WINDOW_MS           *)
  ClockTurn,             (* a turn of the millisecond clock                  *)
  Delays                 (* the times that pass between two requests         *)

ASSUME LimiterAssumption ==
  /\ Delays \subseteq Nat /\ MaxFails \in Nat \ {0} /\ Window \in Nat \ {0}
  /\ ClockTurn \in Nat /\ ClockTurn > 2 * Window

VARIABLES
  now,         (* now_ms                                                     *)
  fail_times,  (* SigRate: the slots in use, with the stamps in them         *)
  lock_level,  (* the lock level of the caller, 0 .. 2                       *)
  answer,      (* the last answer                                            *)
  failures,    (* histories: the failures of the last window with their ages, *)
  quiet,       (* the time since the limiter was last asked, up to a turn,   *)
  turned,      (* the time for which failures of an earlier turn may count,  *)
  wronged      (* a request was refused that should not have been            *)

signedVars == <<now, fail_times, lock_level, answer, failures, quiet, turned, wronged>>

-----------------------------------------------------------------------------
(* parse_public_key: a PEM or DER key as the library reads it, or a tagged *)
(* base 64 text of the right length.                                       *)
ParsePublicKey(slot) ==
  LET raw == B64Decode(slot.text)
  IN  IF slot.form \in {"pem", "der"} THEN Some(slot.text)
      ELSE IF slot.form = "v1" /\ raw # None /\ Len(raw.some) = KeyLen THEN raw
      ELSE None

ReadableKeys ==
  {ParsePublicKey(KeySlots[i]) : i \in {j \in DOMAIN KeySlots : KeySlots[j].text # <<>>}} \ {None}

(* verify_signed_body: with any of the keys that can be read. *)
VerifySignedBody(body, signature) ==
  LET sig == B64Decode(signature)
  IN  /\ body # <<>> /\ signature # <<>> /\ signature[1] # Nul
      /\ sig # None /\ Len(sig.some) = SignatureBytes
      /\ \E key \in ReadableKeys : Verifies(key.some, body, sig.some)

(* A missing header is an empty one. *)
Header(signature) == IF signature = None THEN <<>> ELSE signature.some

-----------------------------------------------------------------------------
(* The limiter. *)

(* The slots of the array: which of them a stamp is in is of no account,   *)
(* and those that are in use are the domain of fail_times.                 *)
Places == 1 .. MaxFails

Elapsed(stamp) == IF now >= stamp THEN now - stamp ELSE ClockTurn + now - stamp

(* Mutant: nothing is ever forgotten. *)
RecentForever(times) == times

(* check: what it leaves of the window, and whether there is room. *)
Recent(times) == [s \in {u \in DOMAIN times : Elapsed(times[u]) < Window} |-> times[s]]

(* Mutant: an off-by-one at the limit. *)
RateOkOneMore(times) == Cardinality(DOMAIN times) <= MaxFails

RateOk(times) == Cardinality(DOMAIN times) < MaxFails

(* A function with a value at a place of its own, of those that are free. *)
With(f, room, v) ==
  LET free == CHOOSE p \in room : p \notin DOMAIN f
  IN  [p \in DOMAIN f \cup {free} |-> IF p = free THEN v ELSE f[p]]

(* record_fail *)
RecordFail(times) ==
  IF Cardinality(DOMAIN times) < MaxFails THEN With(times, Places, now) ELSE times

(* The body of C ends at its NUL. *)
SignedPart(body) == CText(body)

Verified ==
  [r \in Requests |-> VerifySignedBody(SignedPart(r.body), Header(r.signature))]

(* signed_action_decision *)
Decision(request, window) ==
  IF lock_level = 0 THEN "Ok"
  ELSE IF ~RateOk(window) THEN "RateLimited"
  ELSE IF Verified[request] THEN "Ok" ELSE "InvalidSignature"

(* What a client may count on: a signature of a configured key over the    *)
(* text of its body, while fewer than MaxFails verifications failed within *)
(* the window.  When the limiter was not asked for a turn of the clock,    *)
(* failures of the earlier turn read as recent.                            *)
MayHaveTurned == quiet > ClockTurn - Window

Deserved(request) ==
  request.rightly /\ Cardinality(DOMAIN failures) < MaxFails /\ turned = 0 /\ ~MayHaveTurned

SignedAction(request) ==
  LET window  == IF lock_level = 0 THEN fail_times ELSE Recent(fail_times)
      outcome == Decision(request, window)
      failed  == outcome = "InvalidSignature"
  IN  /\ answer' = outcome
      /\ fail_times' = IF failed THEN RecordFail(window) ELSE window
      /\ failures' = IF failed THEN With(failures, 0 .. MaxFails, 0) ELSE failures
      /\ quiet' = IF lock_level = 0 THEN quiet ELSE 0
      /\ turned' = IF lock_level > 0 /\ MayHaveTurned THEN Window ELSE turned
      /\ wronged' = (Deserved(request) /\ outcome # "Ok")
      /\ UNCHANGED <<now, lock_level>>

-----------------------------------------------------------------------------
(* Commands. *)

Blanks == {110, 111}
Quote == 112

WithoutBlanks(s) ==
  LET first == SelectInSeq(s, LAMBDA c : c \notin Blanks)
  IN  IF first = 0 THEN <<>> ELSE SubSeq(s, first, Len(s))

(* normalize_command: up to the NUL, the leading blanks and a pair of      *)
(* quotes, of which the second may be missing.                             *)
NormalizeCommand(raw) ==
  LET s == WithoutBlanks(CText(raw))
      closing == SelectInSeq(Tail(s), LAMBDA c : c = Quote)
  IN  IF s = <<>> \/ s[1] # Quote THEN s
      ELSE IF closing = 0 THEN Tail(s) ELSE SubSeq(s, 2, closing)

(* command_kind and command_needs_auth: a word is a character here. *)
CommandKind(s) ==
  IF s \in {<<1>>, <<2>>} THEN "Restart" ELSE IF s \in {<<3>>, <<4>>} THEN "FactoryReset"
  ELSE IF s = <<5>> THEN "Status" ELSE "Unknown"

NeedsAuth(kind) == kind \in {"Restart", "FactoryReset"}

(* A command and whether its signature is good for it. *)
Understood ==
  [c \in Commands |->
     LET command == NormalizeCommand(c.body)
     IN  [kind   |-> CommandKind(command),
          signed |-> VerifySignedBody(command, Header(c.signature))]]

(* handle_command: the limiter has no part in it. *)
Command(request) ==
  LET c == Understood[request]
  IN  /\ answer' = IF lock_level >= 1 /\ NeedsAuth(c.kind) /\ ~c.signed
                   THEN "InvalidSignature" ELSE c.kind
      /\ wronged' = (request.rightly /\ answer' # request.kind)
      /\ UNCHANGED <<now, fail_times, lock_level, failures, quiet, turned>>

(* The lock level comes from the configuration, which may be written. *)
Lock(level) ==
  /\ lock_level # level /\ lock_level' = level
  /\ answer' = "None" /\ wronged' = FALSE
  /\ UNCHANGED <<now, fail_times, failures, quiet, turned>>

Pass(d) ==
  /\ now' = (now + d) % ClockTurn
  /\ failures' = [i \in {j \in DOMAIN failures : failures[j] + d < Window} |-> failures[i] + d]
  /\ quiet' = Least(quiet + d, ClockTurn)
  /\ turned' = IF turned > d THEN turned - d ELSE 0
  /\ answer' = "None" /\ wronged' = FALSE
  /\ UNCHANGED <<fail_times, lock_level>>

SignedInit ==
  /\ now = 0 /\ fail_times = <<>> /\ lock_level \in 0 .. 2
  /\ answer = "None" /\ failures = <<>> /\ quiet = 0 /\ turned = 0 /\ wronged = FALSE

SignedNext ==
  \/ \E r \in Requests : SignedAction(r)
  \/ \E c \in Commands : Command(c)
  \/ \E level \in 0 .. 2 : Lock(level)
  \/ \E d \in Delays : Pass(d)

-----------------------------------------------------------------------------
(* web.rs:35-53, web_config.rs:40-54: no window holds more than MaxFails   *)
(* failed verifications of writes.                                         *)
AtMostMaxFails == Cardinality(DOMAIN failures) <= MaxFails

(* web.rs:35-45, web_config.rs:40-54, :117-132, security.rs:163-194: a     *)
(* rightly signed request is carried out, unless MaxFails verifications    *)
(* failed within the last window; what is older is forgotten.             *)
RightlySignedPasses == ~wronged
=============================================================================
