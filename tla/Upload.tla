------------------------------- MODULE Upload -------------------------------
(***************************************************************************)
(* The upload of a firmware image: the body comes in chunks from a socket  *)
(* that may stall, end early or fail; it is hashed, kept for the signature *)
(* and written to the flash as it comes, and judged at the end.  A hash    *)
(* stands for the bytes that have it.                                      *)
(***************************************************************************)
EXTENDS Texts

CONSTANTS
  Uploads,     (* requests: the lock level, the declared length, the         *)
               (* expected hash or None, the bytes that were signed or None, *)
               (* the room for the signed body, and what the client sends    *)
  MaxStalls,   (* OTA_MAX_IDLE_STALLS                                        *)
  BodyCap,     (* OTA_BODY_CAP_DEFAULT                                       *)
  MaxChunk     (* the size of the buffer of the socket                       *)

ASSUME UploadAssumption ==
  /\ MaxStalls \in Nat \ {0} /\ MaxChunk \in Nat
  /\ \A u \in Uploads : /\ {u.level, u.length, u.cap} \subseteq Nat
                         /\ u.sends \in Seq(Nat)

VARIABLES
  upload,      (* the request                                                *)
  sent,        (* how much of it the socket has given                        *)
  remaining, idle_stalls, hashed, buffered,  (* as in validate_ota_upload    *)
  flash,       (* what the flash has taken                                   *)
  outcome,     (* "receiving", "Ok" or the error                             *)
  boot,        (* the partition that starts next time                        *)
  beat,        (* a bit that flips with every answer of the socket           *)
  waited,      (* histories: the timeouts since the last chunk, and whether  *)
  spoiled      (* the socket or the flash failed                             *)

uploadVars ==
  <<upload, sent, remaining, idle_stalls, hashed, buffered, flash, outcome, boot, beat,
    waited, spoiled>>

(* ota_body_cap *)
DefaultCap(length) == IF length > 0 THEN length ELSE BodyCap

(* The two refusals before the body is read. *)
Begun(u) ==
  IF u.level >= 2 THEN "PermanentlyLocked"
  ELSE IF u.level >= 1 /\ u.signed = None THEN "MissingSignature"
  ELSE "receiving"

UploadInit ==
  /\ upload \in Uploads
  /\ outcome = Begun(upload)
  /\ remaining = upload.length /\ sent = 0 /\ idle_stalls = 0
  /\ hashed = <<>> /\ buffered = <<>> /\ flash = <<>>
  /\ boot = "running" /\ beat = FALSE /\ waited = 0 /\ spoiled = FALSE

-----------------------------------------------------------------------------
(* The end of the loop.                                                    *)

(* Mutant: the end of the stream is the end of the image. *)
JudgementComplete(hash, body) ==
  IF upload.expected = None THEN "MissingExpectedHash"
  ELSE IF Some(hash) # upload.expected THEN "HashMismatch"
  ELSE IF upload.level >= 1 /\ (CText(body) = <<>> \/ Some(CText(body)) # upload.signed)
       THEN "InvalidSignature"
  ELSE "Ok"

(* The signature is that of the kept body up to its first NUL. *)
Judgement(hash, body) ==
  IF upload.expected = None THEN "MissingExpectedHash"
  ELSE IF Some(hash) # upload.expected THEN "HashMismatch"
  ELSE IF upload.level >= 1 /\ (CText(body) = <<>> \/ Some(CText(body)) # upload.signed)
       THEN "InvalidSignature"
  ELSE IF remaining > 0 THEN "UploadIncomplete" ELSE "Ok"

(* A good upload is committed with OtaHandle.finish, which sets the boot   *)
(* partition to the running one where they differ.                         *)
Finish == boot' = IF Judgement(hashed, buffered) = "Ok" THEN "running" ELSE boot

Ended ==
  /\ outcome' = Judgement(hashed, buffered) /\ Finish
  /\ UNCHANGED <<upload, sent, remaining, hashed, buffered, flash>>

-----------------------------------------------------------------------------
(* What the socket gives.                                                  *)

(* A chunk that does not fit is left out of the kept body. *)
Kept(chunk) ==
  IF upload.level >= 1 /\ Len(buffered) + Len(chunk) <= upload.cap THEN buffered \o chunk
  ELSE buffered

(* Mutant: a chunk does not end a row of stalls. *)
StallsAfterChunkKept == idle_stalls

StallsAfterChunk == 0

Data(n, writes) ==
  LET chunk == SubSeq(upload.sends, sent + 1, sent + Least(n, remaining))
  IN  /\ outcome = "receiving" /\ remaining > 0
      /\ sent + n <= Len(upload.sends)
      /\ idle_stalls' = StallsAfterChunk /\ waited' = 0
      /\ sent' = sent + n
      /\ hashed' = hashed \o chunk /\ buffered' = Kept(chunk)
      /\ IF writes
         THEN /\ flash' = flash \o chunk /\ remaining' = remaining - Len(chunk)
              /\ UNCHANGED <<outcome, spoiled>>
         ELSE /\ outcome' = "WriteFailed" /\ spoiled' = TRUE
              /\ UNCHANGED <<flash, remaining>>
      /\ UNCHANGED <<upload, boot>>

(* Mutant: a stall is waited out. *)
StalledForever(n) == n

Stalled(n) == n + 1

Timeout ==
  /\ outcome = "receiving" /\ remaining > 0
  /\ waited' = Least(waited + 1, MaxStalls) /\ spoiled' = (spoiled \/ waited' = MaxStalls)
  /\ idle_stalls' = Stalled(idle_stalls)
  /\ IF Stalled(idle_stalls) >= MaxStalls THEN Ended
     ELSE UNCHANGED <<upload, sent, remaining, hashed, buffered, flash, outcome, boot>>

(* The socket fails, or there is no more to come. *)
Fatal ==
  /\ outcome = "receiving" /\ remaining > 0
  /\ Ended /\ spoiled' = (spoiled \/ sent < Len(upload.sends))
  /\ UNCHANGED <<idle_stalls, waited>>

(* Whatever comes after the declared length ends the loop. *)
Complete ==
  /\ outcome = "receiving" /\ remaining = 0
  /\ Ended /\ UNCHANGED <<idle_stalls, waited, spoiled>>

Receive ==
  /\ beat' = ~beat
  /\ \/ \E n \in 1 .. MaxChunk, writes \in BOOLEAN : Data(n, writes)
     \/ Timeout \/ Fatal \/ Complete

-----------------------------------------------------------------------------
(* ota.rs:121-174: an image that is accepted is in the flash as a whole:   *)
(* as many bytes as were declared, and those that have the expected hash.  *)
CommittedIsWhole ==
  outcome = "Ok" => Len(flash) = upload.length /\ Some(flash) = upload.expected

(* A client that does everything right. *)
Right(u) ==
  /\ u.level < 2 /\ u.length = Len(u.sends) /\ u.expected = Some(u.sends)
  /\ u.level = 1 => /\ u.cap >= u.length /\ CText(u.sends) # <<>>
                    /\ u.signed = Some(CText(u.sends))

(* ota.rs:121-174: an upload that does everything right is accepted, how-  *)
(* ever it is cut into chunks and as long as fewer than MaxStalls timeouts *)
(* come in a row.                                                          *)
GoodUploadAccepted ==
  (Right(upload) /\ ~spoiled) => outcome \in {"receiving", "Ok"}
=============================================================================
