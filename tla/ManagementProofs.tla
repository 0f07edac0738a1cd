-------------------------- MODULE ManagementProofs --------------------------
(***************************************************************************)
(* What holds of an upload, however the socket cuts, stalls and ends it;   *)
(* of the limiter, for every limit, window and clock; of the pages a       *)
(* signature is cut into; of the ring of the log and its rendering, for    *)
(* every size of ring, line and buffer; of the configuration as it is      *)
(* written by one board and read by another; and of the numbers that are   *)
(* typed at the command line.                                              *)
(***************************************************************************)
EXTENDS Management, Lemmas, FiniteSetTheorems, SequenceTheorems

-----------------------------------------------------------------------------
(* The upload. *)

Sends == upload.sends

UploadTyped ==
  /\ upload \in Uploads /\ sent \in 0 .. Len(Sends) /\ remaining \in 0 .. upload.length
  /\ hashed \in Seq(Nat) /\ idle_stalls \in Nat /\ waited \in Nat /\ spoiled \in BOOLEAN

(* While bytes come, and when the image was accepted, the flash holds what *)
(* was hashed, and what is missing of the declared length is remaining.    *)
FlashFollows ==
  outcome \in {"receiving", "Ok"} =>
    flash = hashed /\ Len(hashed) = upload.length - remaining

JudgedOk == outcome = "Ok" => remaining = 0 /\ Some(hashed) = upload.expected

(* A right upload that was not spoiled has hashed, and kept, what was sent *)
(* so far, and counts as many stalls as there were.                        *)
RightSoFar ==
  (Right(upload) /\ ~spoiled) =>
    /\ outcome \in {"receiving", "Ok"}
    /\ outcome = "receiving" =>
         /\ sent = upload.length - remaining /\ hashed = SubSeq(Sends, 1, sent)
         /\ upload.level = 1 => buffered = hashed
         /\ idle_stalls = waited /\ waited < MaxStalls

UploadInv == UploadTyped /\ FlashFollows /\ JudgedOk /\ RightSoFar

(* The fields of a request are what they are declared to be.               *)
LEMMA RequestTyped ==
  ASSUME NEW u \in Uploads
  PROVE  u.level \in Nat /\ u.length \in Nat /\ u.cap \in Nat /\ u.sends \in Seq(Nat)
  BY UploadAssumption

(* A value that is there is never the missing one.                         *)
LEMMA SomeIsNotNone ==
  ASSUME NEW v
  PROVE  Some(v) # None
<1>1. DOMAIN Some(v) = {"some"} /\ DOMAIN None = {"none"}
  BY DEF Some, None
<1> QED BY <1>1

(* An upload begins as one that can still become good.                     *)
LEMMA UploadBegins ==
  ASSUME UploadInit
  PROVE  UploadInv
<1>1. /\ upload \in Uploads /\ outcome = Begun(upload) /\ remaining = upload.length /\ sent = 0
      /\ idle_stalls = 0 /\ waited = 0 /\ spoiled = FALSE
      /\ hashed = <<>> /\ buffered = <<>> /\ flash = <<>>
  BY DEF UploadInit
<1>2. upload.length \in Nat /\ Sends \in Seq(Nat) /\ Len(Sends) \in Nat
  <2>1. upload.length \in Nat /\ Sends \in Seq(Nat)
    BY <1>1, RequestTyped DEF Sends
  <2> QED BY <2>1
<1>3. UploadTyped
  <2>1. sent \in 0 .. Len(Sends) /\ remaining \in 0 .. upload.length
    BY <1>1, <1>2
  <2>2. hashed \in Seq(Nat)
    BY <1>1, EmptySeq
  <2> QED BY <1>1, <2>1, <2>2 DEF UploadTyped
<1>4. FlashFollows /\ JudgedOk
  BY <1>1, <1>2 DEF FlashFollows, JudgedOk, Begun
<1>5. RightSoFar
  <2> SUFFICES ASSUME Right(upload) PROVE outcome = "receiving"
    BY <1>1, <1>2, UploadAssumption DEF RightSoFar
  <2>1. upload.level \in Nat /\ upload.level < 2 /\ (upload.level = 1 => upload.signed # None)
    BY <1>1, RequestTyped, SomeIsNotNone DEF Right
  <2>2. ~(upload.level >= 2) /\ (upload.level >= 1 => upload.level = 1)
    BY <2>1
  <2> QED BY <1>1, <2>1, <2>2 DEF Begun
<1> QED BY <1>3, <1>4, <1>5 DEF UploadInv

(* What the data branch takes of the declared length.                      *)
LEMMA ChunkTaken ==
  ASSUME UploadTyped, NEW n \in 1 .. MaxChunk, remaining > 0, sent + n <= Len(Sends)
  PROVE  LET k == Least(n, remaining)
             chunk == SubSeq(upload.sends, sent + 1, sent + k)
         IN  /\ k \in 1 .. remaining /\ k <= n /\ sent + n \in 0 .. Len(Sends)
             /\ chunk \in Seq(Nat) /\ Len(chunk) = k
             /\ remaining - k \in 0 .. upload.length
             /\ SubSeq(Sends, 1, sent) \o chunk = SubSeq(Sends, 1, sent + k)
<1> DEFINE k == Least(n, remaining)
           chunk == SubSeq(Sends, sent + 1, sent + k)
<1>1. /\ upload.length \in Nat /\ Sends \in Seq(Nat) /\ Len(Sends) \in Nat
      /\ sent \in Nat /\ remaining \in Nat /\ n \in Nat \ {0} /\ remaining <= upload.length
      /\ sent + n <= Len(Sends)
  BY RequestTyped, UploadAssumption DEF UploadTyped, Sends
<1>2. k \in 1 .. remaining /\ k <= n
  BY <1>1 DEF Least
<1> HIDE DEF k, Sends
<1>3. chunk \in Seq(Nat) /\ Len(chunk) = k
  <2>1. \A i \in sent + 1 .. sent + k : Sends[i] \in Nat
    BY <1>1, <1>2, ElementOfSeq
  <2> QED BY <1>1, <1>2, <2>1, SubSeqProperties
<1>4. SubSeq(Sends, 1, sent) \o chunk = SubSeq(Sends, 1, sent + k)
  BY <1>1, <1>2, ConcatAdjacentSubSeq
<1>5. remaining - k \in 0 .. upload.length /\ sent + n \in 0 .. Len(Sends)
  BY <1>1, <1>2
<1> QED BY <1>2, <1>3, <1>4, <1>5 DEF k, Sends

(* A judgement that accepts found the declared length and the hash.        *)
LEMMA OkMeans ==
  ASSUME UploadTyped, Judgement(hashed, buffered) = "Ok"
  PROVE  remaining = 0 /\ Some(hashed) = upload.expected
  BY RequestTyped DEF Judgement, UploadTyped

(* A right upload that was taken in whole is accepted.                     *)
LEMMA RightIsOk ==
  ASSUME UploadTyped, RightSoFar, Right(upload), ~spoiled, outcome = "receiving", remaining = 0
  PROVE  Judgement(hashed, buffered) = "Ok"
<1>1. /\ upload.length \in Nat /\ upload.level \in Nat /\ Sends \in Seq(Nat)
      /\ upload.length = Len(Sends) /\ upload.expected = Some(Sends) /\ upload.level < 2
      /\ upload.level = 1 => CText(Sends) # <<>> /\ upload.signed = Some(CText(Sends))
  BY RequestTyped DEF UploadTyped, Right, Sends
<1>2. hashed = SubSeq(Sends, 1, Len(Sends)) /\ (upload.level = 1 => buffered = hashed)
  BY <1>1 DEF RightSoFar
<1>3. SubSeq(Sends, 1, Len(Sends)) = Sends
  BY <1>1, SubSeqFull
<1>4. upload.expected # None
  BY <1>1, SomeIsNotNone
<1>5. hashed = Sends /\ (upload.level = 1 => buffered = Sends)
  BY <1>2, <1>3
<1>6. CASE upload.level = 0
  <2>1. ~(upload.level >= 1)
    BY <1>6
  <2> QED BY <1>1, <1>4, <1>5, <2>1 DEF Judgement
<1>7. CASE upload.level = 1
  BY <1>1, <1>4, <1>5, <1>7 DEF Judgement
<1> QED BY <1>1, <1>6, <1>7

(* Bytes from the socket keep it.                                          *)
LEMMA DataKeepsUpload ==
  ASSUME UploadInv, NEW n \in 1 .. MaxChunk, NEW writes \in BOOLEAN, Data(n, writes)
  PROVE  UploadInv'
<1> DEFINE k == Least(n, remaining)
           chunk == SubSeq(upload.sends, sent + 1, sent + k)
<1>1. /\ outcome = "receiving" /\ remaining > 0 /\ sent + n <= Len(Sends) /\ sent' = sent + n
      /\ idle_stalls' = 0 /\ waited' = 0 /\ upload' = upload
      /\ hashed' = hashed \o chunk /\ buffered' = Kept(chunk)
      /\ writes => /\ flash' = flash \o chunk /\ remaining' = remaining - Len(chunk)
                   /\ outcome' = outcome /\ spoiled' = spoiled
      /\ ~writes => /\ outcome' = "WriteFailed" /\ spoiled' = TRUE
                    /\ remaining' = remaining
  BY DEF Data, Sends, StallsAfterChunk
<1>2. /\ k \in 1 .. remaining /\ k <= n /\ sent + n \in 0 .. Len(Sends)
      /\ chunk \in Seq(Nat) /\ Len(chunk) = k /\ remaining - k \in 0 .. upload.length
      /\ SubSeq(Sends, 1, sent) \o chunk = SubSeq(Sends, 1, sent + k)
  BY <1>1, ChunkTaken DEF UploadInv
<1>3. /\ upload \in Uploads /\ upload.length \in Nat /\ upload.cap \in Nat /\ upload.level \in Nat
      /\ hashed \in Seq(Nat) /\ spoiled \in BOOLEAN /\ remaining \in 0 .. upload.length
      /\ sent \in Nat /\ n \in Nat /\ Len(Sends) \in Nat
  <2>1. /\ upload \in Uploads /\ hashed \in Seq(Nat) /\ spoiled \in BOOLEAN
        /\ remaining \in 0 .. upload.length /\ sent \in 0 .. Len(Sends)
    BY DEF UploadInv, UploadTyped
  <2>2. /\ upload.length \in Nat /\ upload.cap \in Nat /\ upload.level \in Nat
        /\ Sends \in Seq(Nat)
    BY <2>1, RequestTyped DEF Sends
  <2>3. n \in Nat
    BY UploadAssumption
  <2> HIDE DEF Sends
  <2>4. Len(Sends) \in Nat
    BY <2>2, LenProperties
  <2> QED BY <2>1, <2>2, <2>3, <2>4
<1>4. flash = hashed /\ Len(hashed) = upload.length - remaining
  BY <1>1 DEF UploadInv, FlashFollows
<1>5. Sends' = Sends
  BY <1>1 DEF Sends
<1> HIDE DEF k, chunk, Sends
<1>6. hashed' \in Seq(Nat) /\ Len(hashed') = Len(hashed) + k
  BY <1>1, <1>2, <1>3, ConcatProperties
<1>7. UploadTyped'
  <2>1. remaining' \in 0 .. upload'.length /\ spoiled' \in BOOLEAN
    BY <1>1, <1>2, <1>3
  <2>2. sent' \in 0 .. Len(Sends')
    BY <1>1, <1>2, <1>5
  <2> QED BY <1>1, <1>3, <1>6, <2>1, <2>2 DEF UploadTyped
<1>8. FlashFollows'
  <2>1. CASE writes
    <3>1. flash' = hashed'
      BY <1>1, <1>4, <2>1
    <3>2. Len(hashed') = upload.length - remaining'
      <4>1. remaining' = remaining - k /\ k \in Nat /\ remaining \in Nat
        BY <1>1, <1>2, <1>3, <2>1
      <4>2. Len(hashed') = (upload.length - remaining) + k
        BY <1>4, <1>6
      <4> QED BY <1>3, <4>1, <4>2
    <3> QED BY <1>1, <3>1, <3>2 DEF FlashFollows
  <2>2. CASE ~writes
    BY <1>1, <2>2 DEF FlashFollows
  <2> QED BY <2>1, <2>2
<1>9. JudgedOk'
  BY <1>1 DEF JudgedOk
<1>10. RightSoFar'
  <2> SUFFICES ASSUME Right(upload), ~spoiled, writes
               PROVE  /\ outcome' = "receiving" /\ sent' = upload.length - remaining'
                      /\ hashed' = SubSeq(Sends, 1, sent') /\ (upload.level = 1 => buffered' = hashed')
    BY <1>1, <1>5, UploadAssumption DEF RightSoFar, Right
  <2>1. /\ sent = upload.length - remaining /\ hashed = SubSeq(Sends, 1, sent)
        /\ upload.level = 1 => buffered = hashed
    BY <1>1 DEF UploadInv, RightSoFar
  <2>2. upload.length = Len(Sends) /\ (upload.level = 1 => upload.cap >= upload.length)
    BY DEF Right, Sends
  <2>3. k = n
    <3>1. n <= remaining
      BY <1>1, <1>3, <2>1, <2>2
    <3> QED BY <1>3, <3>1 DEF k, Least
  <2>4. hashed' = SubSeq(Sends, 1, sent')
    BY <1>1, <1>2, <2>1, <2>3
  <2>5. ASSUME upload.level = 1 PROVE buffered' = hashed'
    <3>1. Len(buffered) + Len(chunk) <= upload.cap
      BY <1>2, <1>3, <1>4, <2>1, <2>2, <2>5
    <3>2. Kept(chunk) = buffered \o chunk
      BY <1>3, <2>5, <3>1 DEF Kept
    <3> QED BY <1>1, <2>1, <2>5, <3>2
  <2>6. sent' = upload.length - remaining'
    <3>1. remaining' = remaining - n /\ sent' = sent + n
      BY <1>1, <1>2, <2>3
    <3> QED BY <1>3, <2>1, <3>1
  <2> QED BY <1>1, <2>4, <2>5, <2>6
<1> QED BY <1>7, <1>8, <1>9, <1>10 DEF UploadInv

(* The end of the loop judges what was taken.                              *)
LEMMA EndKeepsUpload ==
  ASSUME UploadInv, outcome = "receiving", Ended,
         idle_stalls' \in Nat, waited' \in Nat, spoiled' \in BOOLEAN,
         (Right(upload) /\ ~spoiled') => ~spoiled /\ remaining = 0
  PROVE  UploadInv'
<1>1. /\ outcome' = Judgement(hashed, buffered) /\ upload' = upload /\ sent' = sent
      /\ remaining' = remaining /\ hashed' = hashed /\ flash' = flash
  BY DEF Ended
<1>2. outcome' # "receiving"
  BY <1>1 DEF Judgement
<1>3. UploadTyped'
  BY <1>1 DEF UploadInv, UploadTyped, Sends
<1>4. FlashFollows' /\ JudgedOk'
  BY <1>1, <1>2, OkMeans DEF UploadInv, FlashFollows, JudgedOk
<1>5. RightSoFar'
  <2> SUFFICES ASSUME Right(upload), ~spoiled' PROVE outcome' = "Ok"
    BY <1>1, <1>2 DEF RightSoFar, Right
  <2> QED BY <1>1, RightIsOk DEF UploadInv
<1> QED BY <1>3, <1>4, <1>5 DEF UploadInv

(* Every answer of the socket keeps it.                                    *)
LEMMA ReceiveKeepsUpload ==
  ASSUME UploadInv, [Receive]_uploadVars
  PROVE  UploadInv'
<1>1. ASSUME NEW n \in 1 .. MaxChunk, NEW writes \in BOOLEAN, Data(n, writes) PROVE UploadInv'
  BY <1>1, DataKeepsUpload
<1>2. ASSUME Timeout PROVE UploadInv'
  <2>1. /\ outcome = "receiving" /\ remaining > 0 /\ waited' = Least(waited + 1, MaxStalls)
        /\ spoiled' = (spoiled \/ waited' = MaxStalls) /\ idle_stalls' = idle_stalls + 1
    BY <1>2 DEF Timeout, Stalled
  <2>2. idle_stalls \in Nat /\ waited \in Nat /\ spoiled \in BOOLEAN
    BY DEF UploadInv, UploadTyped
  <2>3. waited' \in Nat /\ spoiled' \in BOOLEAN /\ idle_stalls' \in Nat
    BY <2>1, <2>2, UploadAssumption DEF Least
  <2>4. ASSUME Right(upload), ~spoiled'
        PROVE  /\ ~spoiled /\ idle_stalls' = waited' /\ waited' < MaxStalls
               /\ ~(idle_stalls + 1 >= MaxStalls)
    <3>1. ~spoiled /\ waited' # MaxStalls
      BY <2>1, <2>4
    <3>2. idle_stalls = waited /\ waited < MaxStalls
      BY <2>1, <2>4, <3>1 DEF UploadInv, RightSoFar
    <3> QED BY <2>1, <2>2, <3>1, <3>2, UploadAssumption DEF Least
  <2>5. CASE idle_stalls + 1 >= MaxStalls
    <3>1. Ended
      BY <1>2, <2>5 DEF Timeout, Stalled
    <3> QED BY <2>1, <2>3, <2>4, <2>5, <3>1, EndKeepsUpload
  <2>6. CASE ~(idle_stalls + 1 >= MaxStalls)
    <3>1. UNCHANGED <<upload, sent, remaining, hashed, buffered, flash, outcome, boot>>
      BY <1>2, <2>6 DEF Timeout, Stalled
    <3>2. UploadTyped' /\ FlashFollows' /\ JudgedOk'
      BY <2>3, <3>1 DEF UploadInv, UploadTyped, FlashFollows, JudgedOk, Sends
    <3>3. RightSoFar'
      BY <2>1, <2>4, <3>1 DEF UploadInv, RightSoFar, Right, Sends
    <3> QED BY <3>2, <3>3 DEF UploadInv
  <2> QED BY <2>5, <2>6
<1>3. ASSUME Fatal PROVE UploadInv'
  <2>1. /\ outcome = "receiving" /\ remaining > 0 /\ Ended
        /\ spoiled' = (spoiled \/ sent < Len(Sends)) /\ UNCHANGED <<idle_stalls, waited>>
    BY <1>3 DEF Fatal, Sends
  <2>2. /\ idle_stalls' \in Nat /\ waited' \in Nat /\ spoiled' \in BOOLEAN
        /\ sent \in 0 .. Len(Sends) /\ remaining \in Nat
        /\ upload.length \in Nat /\ Len(Sends) \in Nat
    BY <2>1, RequestTyped DEF UploadInv, UploadTyped, Sends
  <2>3. ~(Right(upload) /\ ~spoiled')
    <3> SUFFICES ASSUME Right(upload), ~spoiled' PROVE FALSE
      OBVIOUS
    <3>1. ~spoiled /\ ~(sent < Len(Sends))
      BY <2>1
    <3>2. sent = upload.length - remaining /\ upload.length = Len(Sends)
      BY <2>1, <3>1 DEF UploadInv, RightSoFar, Right, Sends
    <3> HIDE DEF Sends
    <3> QED BY <2>1, <2>2, <3>1, <3>2
  <2> QED BY <2>1, <2>2, <2>3, EndKeepsUpload
<1>4. ASSUME Complete PROVE UploadInv'
  <2>1. outcome = "receiving" /\ remaining = 0 /\ Ended /\ UNCHANGED <<idle_stalls, waited, spoiled>>
    BY <1>4 DEF Complete
  <2> QED BY <2>1, EndKeepsUpload DEF UploadInv, UploadTyped
<1>5. ASSUME UNCHANGED uploadVars PROVE UploadInv'
  BY <1>5 DEF uploadVars, UploadInv, UploadTyped, FlashFollows, JudgedOk, RightSoFar, Right, Sends
<1> QED BY <1>1, <1>2, <1>3, <1>4, <1>5 DEF Receive

(* Every upload of a board keeps it.                                       *)
LEMMA AlwaysUploadInv == ManagementSpec => []UploadInv
<1>1. ManagementInit => UploadInv
  BY UploadBegins DEF ManagementInit
<1>2. UploadInv /\ [ManagementNext]_managementVars => UploadInv'
  <2> SUFFICES ASSUME UploadInv, [ManagementNext]_managementVars PROVE UploadInv'
    OBVIOUS
  <2>1. [Receive]_uploadVars
    BY DEF ManagementNext, Receives, managementVars
  <2> QED BY <2>1, ReceiveKeepsUpload
<1> QED BY <1>1, <1>2, PTL DEF ManagementSpec

(* ota.rs:121-174: however the socket cuts, stalls and ends the body, an   *)
(* image that is accepted is in the flash as a whole and has the expected  *)
(* hash, for every request, every limit and every size of the buffer.      *)
THEOREM CommittedImagesAreWhole == ManagementSpec => []CommittedIsWhole
<1>1. UploadInv => CommittedIsWhole
  BY RequestTyped DEF UploadInv, UploadTyped, FlashFollows, JudgedOk, CommittedIsWhole
<1> QED BY <1>1, AlwaysUploadInv, PTL

(* ota.rs:121-174: an upload that does everything right is never refused,  *)
(* unless the flash fails, the stream ends early or MaxStalls timeouts     *)
(* come in a row.                                                          *)
THEOREM GoodUploadsAreAccepted == ManagementSpec => []GoodUploadAccepted
<1>1. UploadInv => GoodUploadAccepted
  BY DEF UploadInv, RightSoFar, GoodUploadAccepted
<1> QED BY <1>1, AlwaysUploadInv, PTL

-----------------------------------------------------------------------------
(* The limiter. *)

(* The age of a stamp at a time, as the clock has it.                      *)
Age(stamp, n) == IF n >= stamp THEN n - stamp ELSE ClockTurn + n - stamp

Clock == 0 .. ClockTurn - 1

LimiterTyped ==
  /\ now \in Clock /\ lock_level \in 0 .. 2 /\ quiet \in 0 .. ClockTurn /\ turned \in 0 .. Window
  /\ DOMAIN fail_times \subseteq Places
  /\ \A s \in DOMAIN fail_times : fail_times[s] \in Clock
  /\ DOMAIN failures \subseteq 0 .. MaxFails
  /\ \A i \in DOMAIN failures : failures[i] \in 0 .. Window - 1

(* Until the clock may have turned, a stamp has the age it reads.          *)
StampsReadTrue ==
  ~MayHaveTurned =>
    \A s \in DOMAIN fail_times : Age(fail_times[s], now) \in quiet .. quiet + Window - 1

(* Each failure of the last window has a stamp of its own, of its age ...  *)
Stamped(g, n, times, fails) ==
  /\ g \in Injection(DOMAIN fails, DOMAIN times)
  /\ \A i \in DOMAIN fails : Age(times[g[i]], n) = fails[i]

(* ... and a stamp of no failure is old, or was left by an earlier turn.   *)
OthersOld(g, n, times, fails, left) ==
  \A s \in DOMAIN times :
    (\A i \in DOMAIN fails : g[i] # s) => Age(times[s], n) + left >= Window

FailuresStamped ==
  \E g \in [DOMAIN failures -> DOMAIN fail_times] :
    /\ Stamped(g, now, fail_times, failures)
    /\ ~MayHaveTurned => OthersOld(g, now, fail_times, failures, turned)

LimiterInv == LimiterTyped /\ StampsReadTrue /\ FailuresStamped

(* What is signed rightly verifies: the tags of the requests are true.     *)
RightlyVerifies ==
  /\ \A r \in Requests : r.rightly => Verified[r]
  /\ \A c \in Commands :
       c.rightly => /\ Understood[c].kind = c.kind
                    /\ NeedsAuth(c.kind) => Understood[c].signed

(* An age is a time below a turn, and grows with the clock.                *)
LEMMA AgeBounded ==
  ASSUME NEW n \in Clock, NEW stamp \in Clock
  PROVE  Age(stamp, n) \in Clock
  BY LimiterAssumption DEF Age, Clock

(* What is lost of one term is made up for by the other.                   *)
LEMMA SumKeeps ==
  ASSUME NEW a \in Nat, NEW d \in Nat, NEW t \in Nat, NEW u \in Nat, NEW w \in Nat,
         a + t >= w, u + d >= t
  PROVE  a + d + u >= w
  OBVIOUS

(* An age grows with the clock until a whole turn has gone.                *)
LEMMA AgeGrows ==
  ASSUME NEW n \in Clock, NEW stamp \in Clock, NEW d \in Nat, Age(stamp, n) + d < ClockTurn
  PROVE  Age(stamp, (n + d) % ClockTurn) = Age(stamp, n) + d
<1>1. ClockTurn \in Nat \ {0} /\ n \in Nat /\ stamp \in Nat /\ n < ClockTurn /\ stamp < ClockTurn
  BY LimiterAssumption DEF Clock
<1>2. d \in 0 .. ClockTurn - 1
  BY <1>1, AgeBounded DEF Clock
<1>3. (n + d) % ClockTurn = IF n + d < ClockTurn THEN n + d ELSE n + d - ClockTurn
  BY <1>1, <1>2, ModOfTwo DEF Clock
<1> QED BY <1>1, <1>2, <1>3 DEF Age

(* Of what is forgotten no failure of the window is in need.               *)
LEMMA PruneStamped ==
  ASSUME NEW times, NEW fails, NEW g, NEW left, Stamped(g, now, times, fails),
         \A i \in DOMAIN fails : fails[i] < Window
  PROVE  /\ Stamped(g, now, Recent(times), fails)
         /\ OthersOld(g, now, times, fails, left) =>
              OthersOld(g, now, Recent(times), fails, left)
<1>1. /\ DOMAIN Recent(times) = {u \in DOMAIN times : Age(times[u], now) < Window}
      /\ \A u \in DOMAIN Recent(times) : Recent(times)[u] = times[u]
  BY DEF Recent, Elapsed, Age
<1>2. /\ g \in [DOMAIN fails -> DOMAIN times] /\ IsInjective(g)
      /\ \A i \in DOMAIN fails : Age(times[g[i]], now) = fails[i]
  BY DEF Stamped, Injection
<1>3. \A i \in DOMAIN fails : g[i] \in DOMAIN Recent(times)
  BY <1>1, <1>2
<1>4. g \in [DOMAIN fails -> DOMAIN Recent(times)]
  BY <1>2, <1>3
<1>5. Stamped(g, now, Recent(times), fails)
  BY <1>1, <1>2, <1>3, <1>4 DEF Stamped, Injection
<1> QED BY <1>1, <1>5 DEF OthersOld

(* A function with one more value, at a place p.                           *)
Extends(g, f, p, v) ==
  /\ DOMAIN g = DOMAIN f \cup {p} /\ g[p] = v
  /\ \A u \in DOMAIN f : g[u] = f[u]

(* A new failure is stamped with the time it happened at.                  *)
LEMMA AddStamped ==
  ASSUME NEW n \in Clock, NEW times, NEW fails, NEW g, NEW left, NEW p, NEW q,
         Stamped(g, n, times, fails), p \notin DOMAIN times, q \notin DOMAIN fails,
         NEW more, Extends(more, times, p, n), NEW newer, Extends(newer, fails, q, 0)
  PROVE  \E h : /\ h \in [DOMAIN newer -> DOMAIN more] /\ Stamped(h, n, more, newer)
                /\ OthersOld(g, n, times, fails, left) => OthersOld(h, n, more, newer, left)
<1> DEFINE h == [i \in DOMAIN fails \cup {q} |-> IF i = q THEN p ELSE g[i]]
<1>1. /\ g \in [DOMAIN fails -> DOMAIN times] /\ \A a, b \in DOMAIN fails : g[a] = g[b] => a = b
      /\ \A i \in DOMAIN fails : Age(times[g[i]], n) = fails[i]
  BY DEF Stamped, Injection, IsInjective
<1>2. /\ DOMAIN more = DOMAIN times \cup {p} /\ DOMAIN newer = DOMAIN fails \cup {q}
      /\ more[p] = n /\ \A u \in DOMAIN times : more[u] = times[u]
      /\ newer[q] = 0 /\ \A u \in DOMAIN fails : newer[u] = fails[u]
  BY DEF Extends
<1>3. h[q] = p /\ \A i \in DOMAIN fails : h[i] = g[i] /\ g[i] \in DOMAIN times
  BY <1>1
<1>4. h \in [DOMAIN newer -> DOMAIN more]
  BY <1>1, <1>2
<1>5. Age(n, n) = 0
  BY LimiterAssumption DEF Age, Clock
<1> HIDE DEF h
<1>6. IsInjective(h)
  <2>1. DOMAIN h = DOMAIN fails \cup {q}
    BY <1>2, <1>4
  <2> QED BY <1>1, <1>3, <2>1 DEF IsInjective
<1>7. \A i \in DOMAIN newer : Age(more[h[i]], n) = newer[i]
  BY <1>1, <1>2, <1>3, <1>5
<1>8. Stamped(h, n, more, newer)
  BY <1>4, <1>6, <1>7 DEF Stamped, Injection
<1>9. OthersOld(g, n, times, fails, left) => OthersOld(h, n, more, newer, left)
  BY <1>2, <1>3 DEF OthersOld
<1> QED BY <1>4, <1>8, <1>9

(* With puts the value at a place that was free.                           *)
LEMMA WithTakesFree ==
  ASSUME NEW f, NEW room, NEW v, DOMAIN f \subseteq room, DOMAIN f # room
  PROVE  \E p \in room : p \notin DOMAIN f /\ Extends(With(f, room, v), f, p, v)
<1> DEFINE p == CHOOSE x \in room : x \notin DOMAIN f
<1>1. \E x \in room : x \notin DOMAIN f
  OBVIOUS
<1>2. p \in room /\ p \notin DOMAIN f
  BY <1>1
<1>3. With(f, room, v) = [u \in DOMAIN f \cup {p} |-> IF u = p THEN v ELSE f[u]]
  BY DEF With
<1>4. Extends(With(f, room, v), f, p, v)
  BY <1>2, <1>3 DEF Extends
<1> QED BY <1>2, <1>4

(* The stamps are at least as many as the failures, and no more where no   *)
(* stamp is left of something else.                                        *)
LEMMA StampsCount ==
  ASSUME NEW n, NEW times, NEW fails, NEW g, Stamped(g, n, times, fails), DOMAIN times \subseteq Places
  PROVE  /\ IsFiniteSet(DOMAIN times) /\ IsFiniteSet(DOMAIN fails)
         /\ Cardinality(DOMAIN times) \in Nat /\ Cardinality(DOMAIN fails) \in Nat
         /\ Cardinality(DOMAIN fails) <= Cardinality(DOMAIN times)
         /\ Cardinality(DOMAIN times) <= MaxFails
         /\ (\A s \in DOMAIN times : \E i \in DOMAIN fails : g[i] = s) =>
              Cardinality(DOMAIN times) = Cardinality(DOMAIN fails)
<1>1. g \in Injection(DOMAIN fails, DOMAIN times)
  BY DEF Stamped
<1>2. IsFiniteSet(Places) /\ Cardinality(Places) = MaxFails
  <2>1. MaxFails \in Nat \ {0}
    BY LimiterAssumption
  <2>2. IsFiniteSet(1 .. MaxFails) /\ Cardinality(1 .. MaxFails) = MaxFails - 1 + 1
    BY <2>1, FS_Interval
  <2> QED BY <2>1, <2>2 DEF Places
<1>3. IsFiniteSet(DOMAIN times) /\ Cardinality(DOMAIN times) <= MaxFails
  BY <1>2, FS_Subset
<1>4. /\ IsFiniteSet(DOMAIN fails)
      /\ Cardinality(DOMAIN fails) <= Cardinality(DOMAIN times)
      /\ Cardinality(DOMAIN fails) = Cardinality(DOMAIN times) <=>
           g \in Surjection(DOMAIN fails, DOMAIN times)
  BY <1>1, <1>3, FS_Injection
<1>5. (\A s \in DOMAIN times : \E i \in DOMAIN fails : g[i] = s) =>
        g \in Surjection(DOMAIN fails, DOMAIN times)
  BY <1>1 DEF Injection, Surjection
<1> QED BY <1>3, <1>4, <1>5, FS_CardinalityType

(* The limiter begins with no stamp and no failure.                        *)
LEMMA LimiterBegins ==
  ASSUME SignedInit
  PROVE  LimiterInv
<1>1. /\ now = 0 /\ lock_level \in 0 .. 2 /\ quiet = 0 /\ turned = 0
      /\ DOMAIN fail_times = {} /\ DOMAIN failures = {}
  BY DEF SignedInit
<1>2. LimiterTyped /\ StampsReadTrue
  BY <1>1, LimiterAssumption DEF LimiterTyped, StampsReadTrue, Clock
<1>3. FailuresStamped
  <2> DEFINE g == [i \in {} |-> i]
  <2>1. g \in [DOMAIN failures -> DOMAIN fail_times] /\ IsInjective(g)
    BY <1>1 DEF IsInjective
  <2>2. /\ Stamped(g, now, fail_times, failures)
        /\ OthersOld(g, now, fail_times, failures, turned)
    BY <1>1, <2>1 DEF Stamped, Injection, OthersOld
  <2> QED BY <2>1, <2>2 DEF FailuresStamped
<1> QED BY <1>2, <1>3 DEF LimiterInv

(* What check leaves is the window.                                        *)
LEMMA RecentKept ==
  /\ DOMAIN Recent(fail_times) = {s \in DOMAIN fail_times : Age(fail_times[s], now) < Window}
  /\ \A s \in DOMAIN Recent(fail_times) : Recent(fail_times)[s] = fail_times[s]
  BY DEF Recent, Elapsed, Age

(* Once the window is checked, its stamps are those of the failures, or    *)
(* some that an earlier turn left.                                         *)
LEMMA WindowStamped ==
  ASSUME LimiterInv
  PROVE  LET window == Recent(fail_times)
             left   == IF MayHaveTurned THEN Window ELSE turned
         IN  /\ DOMAIN window \subseteq Places
             /\ \A s \in DOMAIN window :
                  window[s] \in Clock /\ Age(window[s], now) \in 0 .. Window - 1
             /\ \E g : /\ g \in [DOMAIN failures -> DOMAIN window]
                       /\ Stamped(g, now, window, failures)
                       /\ OthersOld(g, now, window, failures, left)
<1> DEFINE window == Recent(fail_times)
           left   == IF MayHaveTurned THEN Window ELSE turned
<1>1. /\ now \in Clock /\ turned \in 0 .. Window /\ DOMAIN fail_times \subseteq Places
      /\ \A s \in DOMAIN fail_times : fail_times[s] \in Clock
      /\ \A i \in DOMAIN failures : failures[i] < Window
  BY LimiterAssumption DEF LimiterInv, LimiterTyped
<1>2. PICK g : /\ g \in [DOMAIN failures -> DOMAIN fail_times]
               /\ Stamped(g, now, fail_times, failures)
               /\ ~MayHaveTurned => OthersOld(g, now, fail_times, failures, turned)
  BY DEF LimiterInv, FailuresStamped
<1>3. \A s \in DOMAIN window :
        /\ s \in DOMAIN fail_times /\ window[s] \in Clock
        /\ Age(window[s], now) \in Nat /\ Age(window[s], now) < Window
  <2> SUFFICES ASSUME NEW s \in DOMAIN window
               PROVE  /\ s \in DOMAIN fail_times /\ window[s] \in Clock
                      /\ Age(window[s], now) \in Nat /\ Age(window[s], now) < Window
    OBVIOUS
  <2>1. s \in DOMAIN fail_times /\ window[s] = fail_times[s] /\ Age(fail_times[s], now) < Window
    BY RecentKept
  <2>2. Age(fail_times[s], now) \in Clock
    BY <1>1, <2>1, AgeBounded
  <2> QED BY <1>1, <2>1, <2>2 DEF Clock
<1>4. \A s \in DOMAIN window : Age(window[s], now) \in 0 .. Window - 1
  BY <1>3, LimiterAssumption
<1>5. Stamped(g, now, window, failures)
  BY <1>1, <1>2, PruneStamped
<1>6. OthersOld(g, now, window, failures, left)
  <2>1. CASE MayHaveTurned
    <3> SUFFICES ASSUME NEW s \in DOMAIN window PROVE Age(window[s], now) + Window >= Window
      BY <2>1 DEF OthersOld
    <3> QED BY <1>3, LimiterAssumption
  <2>2. CASE ~MayHaveTurned
    <3>1. OthersOld(g, now, fail_times, failures, turned)
      BY <1>2, <2>2
    <3>2. OthersOld(g, now, window, failures, turned)
      BY <1>1, <1>2, <3>1, PruneStamped
    <3> QED BY <2>2, <3>2
  <2> QED BY <2>1, <2>2
<1>7. g \in [DOMAIN failures -> DOMAIN window]
  BY <1>5 DEF Stamped, Injection
<1>8. DOMAIN window \subseteq Places
  BY <1>1, <1>3
<1> QED BY <1>3, <1>4, <1>5, <1>6, <1>7, <1>8

(* A request that is checked leaves the limiter as it should be.           *)
LEMMA CheckKeepsLimiter ==
  ASSUME LimiterInv, NEW request \in Requests, SignedAction(request), lock_level # 0
  PROVE  LimiterInv'
<1> DEFINE window == Recent(fail_times)
           left   == IF MayHaveTurned THEN Window ELSE turned
           failed == Decision(request, window) = "InvalidSignature"
<1>1. /\ now \in Clock /\ turned \in 0 .. Window /\ lock_level \in 0 .. 2
      /\ DOMAIN failures \subseteq 0 .. MaxFails
      /\ \A i \in DOMAIN failures : failures[i] \in 0 .. Window - 1
  BY DEF LimiterInv, LimiterTyped
<1>2. /\ fail_times' = IF failed THEN RecordFail(window) ELSE window
      /\ failures' = IF failed THEN With(failures, 0 .. MaxFails, 0) ELSE failures
      /\ quiet' = 0 /\ turned' = left /\ now' = now /\ lock_level' = lock_level
  <2>1. lock_level > 0
    BY <1>1
  <2> QED BY <1>1, <2>1 DEF SignedAction
<1>3. /\ DOMAIN window \subseteq Places
      /\ \A s \in DOMAIN window :
           window[s] \in Clock /\ Age(window[s], now) \in 0 .. Window - 1
  BY WindowStamped
<1>4. PICK g : /\ g \in [DOMAIN failures -> DOMAIN window]
               /\ Stamped(g, now, window, failures)
               /\ OthersOld(g, now, window, failures, left)
  BY WindowStamped
<1>5. left \in 0 .. Window
  BY <1>1, LimiterAssumption
<1>6. ~MayHaveTurned'
  BY <1>2, LimiterAssumption DEF MayHaveTurned
<1> HIDE DEF window, left
<1>7. CASE ~failed
  <2>1. fail_times' = window /\ failures' = failures
    BY <1>2, <1>7
  <2>2. LimiterTyped'
    BY <1>1, <1>2, <1>3, <1>5, <2>1, LimiterAssumption DEF LimiterTyped
  <2>3. StampsReadTrue'
    BY <1>2, <1>3, <2>1, LimiterAssumption DEF StampsReadTrue
  <2>4. FailuresStamped'
    BY <1>2, <1>4, <2>1 DEF FailuresStamped
  <2> QED BY <2>2, <2>3, <2>4 DEF LimiterInv
<1>8. CASE failed
  <2>1. Cardinality(DOMAIN window) < MaxFails
    BY <1>8 DEF Decision, RateOk
  <2>2. fail_times' = With(window, Places, now) /\ failures' = With(failures, 0 .. MaxFails, 0)
    BY <1>2, <1>8, <2>1 DEF RecordFail
  <2>3. MaxFails \in Nat \ {0} /\ Window \in Nat \ {0}
    BY LimiterAssumption
  <2>4. /\ Cardinality(DOMAIN failures) <= Cardinality(DOMAIN window)
        /\ Cardinality(DOMAIN failures) \in Nat /\ Cardinality(DOMAIN window) \in Nat
    BY <1>3, <1>4, StampsCount
  <2>5. DOMAIN window # Places
    <3>1. Cardinality(1 .. MaxFails) = MaxFails - 1 + 1
      BY <2>3, FS_Interval
    <3>2. Cardinality(Places) = MaxFails
      BY <2>3, <3>1 DEF Places
    <3> QED BY <2>1, <2>3, <2>4, <3>2
  <2>6. DOMAIN failures # 0 .. MaxFails
    <3>1. Cardinality(0 .. MaxFails) = MaxFails - 0 + 1
      BY <2>3, FS_Interval
    <3> QED BY <2>1, <2>3, <2>4, <3>1
  <2>7. PICK p \in Places : p \notin DOMAIN window /\ Extends(fail_times', window, p, now)
    BY <1>3, <2>2, <2>5, WithTakesFree
  <2>8. PICK q \in 0 .. MaxFails : q \notin DOMAIN failures /\ Extends(failures', failures, q, 0)
    BY <1>1, <2>2, <2>6, WithTakesFree
  <2>9. /\ DOMAIN fail_times' = DOMAIN window \cup {p} /\ fail_times'[p] = now
        /\ \A u \in DOMAIN window : fail_times'[u] = window[u]
        /\ DOMAIN failures' = DOMAIN failures \cup {q} /\ failures'[q] = 0
        /\ \A u \in DOMAIN failures : failures'[u] = failures[u]
    BY <2>7, <2>8 DEF Extends
  <2>10. Age(now, now) = 0
    BY <1>1, LimiterAssumption DEF Age, Clock
  <2>11. LimiterTyped'
    <3>1. DOMAIN fail_times' \subseteq Places /\ DOMAIN failures' \subseteq 0 .. MaxFails
      BY <1>1, <1>3, <2>9
    <3>2. \A s \in DOMAIN fail_times' : fail_times'[s] \in Clock
      BY <1>1, <1>3, <2>9
    <3>3. \A i \in DOMAIN failures' : failures'[i] \in 0 .. Window - 1
      BY <1>1, <2>3, <2>9
    <3> QED BY <1>1, <1>2, <1>5, <3>1, <3>2, <3>3, LimiterAssumption DEF LimiterTyped
  <2>12. StampsReadTrue'
    <3>1. \A s \in DOMAIN fail_times' : Age(fail_times'[s], now) \in 0 .. Window - 1
      BY <1>3, <2>3, <2>9, <2>10
    <3> QED BY <1>2, <2>3, <3>1 DEF StampsReadTrue
  <2>13. FailuresStamped'
    <3>1. \E h : /\ h \in [DOMAIN failures' -> DOMAIN fail_times']
                 /\ Stamped(h, now, fail_times', failures')
                 /\ OthersOld(g, now, window, failures, left) =>
                      OthersOld(h, now, fail_times', failures', left)
      BY <1>1, <1>4, <2>7, <2>8, AddStamped
    <3> QED BY <1>2, <1>4, <3>1 DEF FailuresStamped
  <2> QED BY <2>11, <2>12, <2>13 DEF LimiterInv
<1> QED BY <1>7, <1>8

(* Time that passes ages stamps and failures alike, until they leave the   *)
(* window.                                                                 *)
LEMMA PassKeepsLimiter ==
  ASSUME LimiterInv, NEW d \in Delays, Pass(d)
  PROVE  LimiterInv'
<1> DEFINE kept == {j \in DOMAIN failures : failures[j] + d < Window}
<1>1. /\ d \in Nat /\ Window \in Nat \ {0} /\ ClockTurn \in Nat \ {0}
      /\ ClockTurn > 2 * Window
  BY LimiterAssumption
<1>2. /\ now \in Clock /\ lock_level \in 0 .. 2 /\ quiet \in 0 .. ClockTurn
      /\ turned \in 0 .. Window /\ DOMAIN fail_times \subseteq Places
      /\ \A s \in DOMAIN fail_times : fail_times[s] \in Clock
      /\ DOMAIN failures \subseteq 0 .. MaxFails
      /\ \A i \in DOMAIN failures : failures[i] \in 0 .. Window - 1
  BY DEF LimiterInv, LimiterTyped
<1>3. /\ now' = (now + d) % ClockTurn /\ quiet' = Least(quiet + d, ClockTurn)
      /\ turned' = IF turned > d THEN turned - d ELSE 0
      /\ fail_times' = fail_times /\ lock_level' = lock_level
      /\ DOMAIN failures' = kept /\ \A i \in kept : failures'[i] = failures[i] + d
  BY DEF Pass
<1>4. /\ now' \in Clock /\ quiet' \in 0 .. ClockTurn /\ turned' \in 0 .. Window
      /\ turned' + d >= turned
  <2>1. now' \in Clock
    BY <1>1, <1>2, <1>3, ModBounded DEF Clock
  <2>2. quiet' \in 0 .. ClockTurn
    BY <1>1, <1>2, <1>3 DEF Least
  <2>3. turned' \in 0 .. Window /\ turned' + d >= turned
    BY <1>1, <1>2, <1>3
  <2> QED BY <2>1, <2>2, <2>3
<1>10. /\ d \in Nat /\ turned \in Nat /\ turned' \in Nat /\ Window \in Nat
       /\ turned' + d >= turned
  <2>1. d \in Nat /\ Window \in Nat
    BY <1>1
  <2>2. turned \in 0 .. Window
    BY <1>2
  <2>3. turned' \in 0 .. Window /\ turned' + d >= turned
    BY <1>4
  <2>4. turned \in Nat
    BY <2>1, <2>2
  <2>5. turned' \in Nat
    BY <2>1, <2>3
  <2> QED BY <2>1, <2>3, <2>4, <2>5, Zenon
<1>5. LimiterTyped'
  <2>1. \A i \in kept : failures[i] + d \in 0 .. Window - 1
    BY <1>1, <1>2
  <2> QED BY <1>2, <1>3, <1>4, <2>1 DEF LimiterTyped
<1>6. \A s \in DOMAIN fail_times :
        /\ Age(fail_times[s], now) \in Nat
        /\ Age(fail_times[s], now) + d < ClockTurn =>
             Age(fail_times[s], now') = Age(fail_times[s], now) + d
  <2> SUFFICES ASSUME NEW s \in DOMAIN fail_times
               PROVE  /\ Age(fail_times[s], now) \in Nat
                      /\ Age(fail_times[s], now) + d < ClockTurn =>
                           Age(fail_times[s], now') = Age(fail_times[s], now) + d
    OBVIOUS
  <2>1. now \in Clock /\ fail_times[s] \in Clock
    BY <1>2
  <2>2. Age(fail_times[s], now) \in Nat
    BY <2>1, AgeBounded DEF Clock
  <2>3. Age(fail_times[s], now) + d < ClockTurn =>
          Age(fail_times[s], (now + d) % ClockTurn) = Age(fail_times[s], now) + d
    BY <1>1, <2>1, AgeGrows
  <2> QED BY <1>3, <2>2, <2>3
<1>7. ~MayHaveTurned' =>
        /\ ~MayHaveTurned
        /\ \A s \in DOMAIN fail_times :
             /\ Age(fail_times[s], now') = Age(fail_times[s], now) + d
             /\ Age(fail_times[s], now') \in quiet' .. quiet' + Window - 1
  <2> SUFFICES ASSUME ~MayHaveTurned'
               PROVE  /\ ~MayHaveTurned
                      /\ \A s \in DOMAIN fail_times :
                           /\ Age(fail_times[s], now') = Age(fail_times[s], now) + d
                           /\ Age(fail_times[s], now') \in quiet' .. quiet' + Window - 1
    OBVIOUS
  <2>1. quiet' <= ClockTurn - Window
    BY <1>1, <1>4 DEF MayHaveTurned
  <2>2. quiet' = quiet + d
    BY <1>1, <1>2, <1>3, <2>1 DEF Least
  <2>3. ~MayHaveTurned
    BY <1>1, <1>2, <2>1, <2>2 DEF MayHaveTurned
  <2>4. ASSUME NEW s \in DOMAIN fail_times
        PROVE  /\ Age(fail_times[s], now') = Age(fail_times[s], now) + d
               /\ Age(fail_times[s], now') \in quiet' .. quiet' + Window - 1
    <3>1. Age(fail_times[s], now) \in quiet .. quiet + Window - 1
      BY <2>3 DEF LimiterInv, StampsReadTrue
    <3>2. Age(fail_times[s], now) + d < ClockTurn
      BY <1>1, <1>2, <2>1, <2>2, <3>1
    <3>3. Age(fail_times[s], now') = Age(fail_times[s], now) + d
      BY <1>6, <3>2
    <3> QED BY <1>1, <1>2, <2>2, <3>1, <3>3
  <2> QED BY <2>3, <2>4
<1>8. StampsReadTrue'
  BY <1>3, <1>7 DEF StampsReadTrue
<1>9. FailuresStamped'
  <2>1. PICK g : /\ g \in [DOMAIN failures -> DOMAIN fail_times]
                 /\ Stamped(g, now, fail_times, failures)
                 /\ ~MayHaveTurned => OthersOld(g, now, fail_times, failures, turned)
    BY DEF LimiterInv, FailuresStamped
  <2>2. /\ \A a, b \in DOMAIN failures : g[a] = g[b] => a = b
        /\ \A i \in DOMAIN failures : Age(fail_times[g[i]], now) = failures[i]
    BY <2>1 DEF Stamped, Injection, IsInjective
  <2> DEFINE h == [i \in kept |-> g[i]]
  <2>3. \A i \in kept : i \in DOMAIN failures /\ h[i] = g[i] /\ g[i] \in DOMAIN fail_times
    BY <2>1
  <2>4. h \in [DOMAIN failures' -> DOMAIN fail_times']
    BY <1>3, <2>3
  <2>5. IsInjective(h)
    <3>1. DOMAIN h = kept
      OBVIOUS
    <3> QED BY <2>2, <2>3, <3>1 DEF IsInjective
  <2> HIDE DEF h
  <2>6. \A i \in kept : Age(fail_times[h[i]], now') = failures'[i]
    <3> SUFFICES ASSUME NEW i \in kept PROVE Age(fail_times[h[i]], now') = failures'[i]
      OBVIOUS
    <3>1. /\ h[i] = g[i] /\ g[i] \in DOMAIN fail_times
          /\ Age(fail_times[g[i]], now) = failures[i]
      BY <2>2, <2>3
    <3>2. failures[i] + d < ClockTurn /\ failures'[i] = failures[i] + d
      BY <1>1, <1>2, <1>3
    <3> QED BY <1>6, <3>1, <3>2
  <2>7. Stamped(h, now', fail_times', failures')
    BY <1>3, <2>4, <2>5, <2>6 DEF Stamped, Injection
  <2>8. ASSUME ~MayHaveTurned' PROVE OthersOld(h, now', fail_times', failures', turned')
    <3> SUFFICES ASSUME NEW s \in DOMAIN fail_times, \A i \in kept : h[i] # s
                 PROVE  Age(fail_times[s], now') + turned' >= Window
      BY <1>3 DEF OthersOld
    <3>1. Age(fail_times[s], now') = Age(fail_times[s], now) + d
      BY <1>7, <2>8
    <3>2. Age(fail_times[s], now) \in Nat
      BY <1>6
    <3>3. CASE \E i \in DOMAIN failures : g[i] = s
      <4>1. PICK i \in DOMAIN failures : g[i] = s
        BY <3>3
      <4>2. i \notin kept
        BY <2>3, <4>1
      <4>3. ~(Age(fail_times[s], now) + d < Window)
        BY <2>2, <4>1, <4>2
      <4> QED BY <1>1, <1>4, <3>1, <3>2, <4>3
    <3>4. CASE \A i \in DOMAIN failures : g[i] # s
      <4>1. Age(fail_times[s], now) + turned >= Window
        BY <1>7, <2>1, <2>8, <3>4 DEF OthersOld
      <4> DEFINE a == Age(fail_times[s], now)
      <4>2. a \in Nat /\ a + turned >= Window /\ Age(fail_times[s], now') = a + d
        BY <3>1, <3>2, <4>1
      <4> HIDE DEF a
      <4>3. a + d + turned' >= Window
        BY <1>10, <4>2, SumKeeps
      <4> QED BY <4>2, <4>3
    <3> QED BY <3>3, <3>4
  <2> QED BY <2>4, <2>7, <2>8 DEF FailuresStamped
<1> QED BY <1>5, <1>8, <1>9 DEF LimiterInv

(* Every step of the requests keeps it.                                    *)
LEMMA SignedKeepsLimiter ==
  ASSUME LimiterInv, [SignedNext]_signedVars
  PROVE  LimiterInv'
<1>1. ASSUME /\ fail_times' = fail_times /\ failures' = failures /\ now' = now
             /\ quiet' = quiet /\ turned' = turned /\ lock_level' \in 0 .. 2
      PROVE  LimiterInv'
  BY <1>1 DEF LimiterInv, LimiterTyped, StampsReadTrue, FailuresStamped, MayHaveTurned
<1>2. lock_level \in 0 .. 2
  BY DEF LimiterInv, LimiterTyped
<1>3. ASSUME NEW r \in Requests, SignedAction(r) PROVE LimiterInv'
  <2>1. CASE lock_level = 0
    <3>1. Decision(r, fail_times) # "InvalidSignature"
      BY <2>1 DEF Decision
    <3>2. /\ fail_times' = fail_times /\ failures' = failures /\ now' = now
          /\ quiet' = quiet /\ turned' = turned /\ lock_level' = lock_level
      BY <1>3, <2>1, <3>1 DEF SignedAction
    <3> QED BY <1>1, <1>2, <3>2
  <2>2. CASE lock_level # 0
    BY <1>3, <2>2, CheckKeepsLimiter
  <2> QED BY <2>1, <2>2
<1>4. ASSUME NEW c \in Commands, Command(c) PROVE LimiterInv'
  BY <1>1, <1>2, <1>4 DEF Command
<1>5. ASSUME NEW level \in 0 .. 2, Lock(level) PROVE LimiterInv'
  BY <1>1, <1>5 DEF Lock
<1>6. ASSUME NEW d \in Delays, Pass(d) PROVE LimiterInv'
  BY <1>6, PassKeepsLimiter
<1>7. ASSUME UNCHANGED signedVars PROVE LimiterInv'
  BY <1>1, <1>2, <1>7 DEF signedVars
<1> QED BY <1>3, <1>4, <1>5, <1>6, <1>7 DEF SignedNext

(* A step of the board is one of the requests, or none of them sees it.    *)
LEMMA RequestsStep ==
  ASSUME [ManagementNext]_managementVars
  PROVE  [SignedNext]_signedVars
  BY DEF ManagementNext, Receives, managementVars

(* The stamps match the failures in every state of the three desks.        *)
LEMMA AlwaysLimiterInv == ManagementSpec => []LimiterInv
<1>1. ManagementInit => LimiterInv
  BY LimiterBegins DEF ManagementInit
<1>2. LimiterInv /\ [ManagementNext]_managementVars => LimiterInv'
  BY RequestsStep, SignedKeepsLimiter
<1> QED BY <1>1, <1>2, PTL DEF ManagementSpec

(* web.rs:35-53, web_config.rs:40-54: whatever the limit, the window and   *)
(* the turn of the clock (as long as it is more than two windows), no      *)
(* window holds more than MaxFails failed verifications of writes.         *)
THEOREM NoWindowHoldsMore == ManagementSpec => []AtMostMaxFails
<1>1. LimiterInv => AtMostMaxFails
  <2> SUFFICES ASSUME LimiterInv PROVE AtMostMaxFails
    OBVIOUS
  <2>1. PICK g : Stamped(g, now, fail_times, failures)
    BY DEF LimiterInv, FailuresStamped
  <2>2. /\ Cardinality(DOMAIN failures) <= Cardinality(DOMAIN fail_times)
        /\ Cardinality(DOMAIN fail_times) <= MaxFails
        /\ Cardinality(DOMAIN failures) \in Nat /\ Cardinality(DOMAIN fail_times) \in Nat
    BY <2>1, StampsCount DEF LimiterInv, LimiterTyped
  <2>3. MaxFails \in Nat
    BY LimiterAssumption
  <2> QED BY <2>2, <2>3 DEF AtMostMaxFails
<1> QED BY <1>1, AlwaysLimiterInv, PTL

(* Who signs rightly is not refused while the window has room.             *)
LEMMA DeservedIsOk ==
  ASSUME RightlyVerifies, LimiterInv, NEW request \in Requests, Deserved(request), lock_level # 0
  PROVE  Decision(request, Recent(fail_times)) = "Ok"
<1> DEFINE window == Recent(fail_times)
<1>1. request.rightly /\ Cardinality(DOMAIN failures) < MaxFails /\ turned = 0 /\ ~MayHaveTurned
  BY DEF Deserved
<1>2. /\ DOMAIN window \subseteq Places
      /\ \A s \in DOMAIN window : Age(window[s], now) \in 0 .. Window - 1
  BY WindowStamped
<1>3. PICK g : Stamped(g, now, window, failures) /\ OthersOld(g, now, window, failures, 0)
  BY <1>1, WindowStamped
<1>4. \A s \in DOMAIN window : \E i \in DOMAIN failures : g[i] = s
  <2> SUFFICES ASSUME NEW s \in DOMAIN window, \A i \in DOMAIN failures : g[i] # s
               PROVE  FALSE
    OBVIOUS
  <2>1. Age(window[s], now) + 0 >= Window
    BY <1>3 DEF OthersOld
  <2> HIDE DEF window
  <2> QED BY <1>2, <2>1, LimiterAssumption
<1>5. Cardinality(DOMAIN window) = Cardinality(DOMAIN failures)
  BY <1>2, <1>3, <1>4, StampsCount
<1> QED BY <1>1, <1>5 DEF Decision, RateOk, RightlyVerifies

(* web.rs:35-45, web_config.rs:40-54, :117-132, security.rs:163-194: for   *)
(* every key, scheme, limit, window and clock, a request that is signed    *)
(* rightly is carried out, unless MaxFails verifications failed within the *)
(* last window or the limiter was not asked for a turn of the clock.       *)
THEOREM RightlySignedAlwaysPasses ==
  RightlyVerifies => (ManagementSpec => []RightlySignedPasses)
<1> SUFFICES ASSUME RightlyVerifies PROVE ManagementSpec => []RightlySignedPasses
  OBVIOUS
<1>1. ManagementInit => RightlySignedPasses
  BY DEF ManagementInit, SignedInit, RightlySignedPasses
<1>2. LimiterInv /\ RightlySignedPasses /\ [ManagementNext]_managementVars => RightlySignedPasses'
  <2> SUFFICES ASSUME LimiterInv, RightlySignedPasses, [SignedNext]_signedVars
               PROVE  RightlySignedPasses'
    BY RequestsStep
  <2>1. ASSUME NEW r \in Requests, SignedAction(r) PROVE RightlySignedPasses'
    <3>1. CASE lock_level = 0
      BY <2>1, <3>1 DEF SignedAction, Decision, RightlySignedPasses
    <3>2. CASE lock_level # 0
      <4>1. wronged' = (Deserved(r) /\ Decision(r, Recent(fail_times)) # "Ok")
        BY <2>1, <3>2 DEF SignedAction
      <4> QED BY <3>2, <4>1, DeservedIsOk DEF RightlySignedPasses
    <3> QED BY <3>1, <3>2
  <2>2. ASSUME NEW c \in Commands, Command(c) PROVE RightlySignedPasses'
    <3>1. /\ answer' = IF lock_level >= 1 /\ NeedsAuth(Understood[c].kind) /\ ~Understood[c].signed
                       THEN "InvalidSignature" ELSE Understood[c].kind
          /\ wronged' = (c.rightly /\ answer' # c.kind)
      BY <2>2 DEF Command
    <3>2. c.rightly => answer' = c.kind
      BY <3>1 DEF RightlyVerifies
    <3> QED BY <3>1, <3>2 DEF RightlySignedPasses
  <2>3. ASSUME NEW level \in 0 .. 2, Lock(level) PROVE RightlySignedPasses'
    BY <2>3 DEF Lock, RightlySignedPasses
  <2>4. ASSUME NEW d \in Delays, Pass(d) PROVE RightlySignedPasses'
    BY <2>4 DEF Pass, RightlySignedPasses
  <2>5. ASSUME UNCHANGED signedVars PROVE RightlySignedPasses'
    BY <2>5 DEF signedVars, RightlySignedPasses
  <2> QED BY <2>1, <2>2, <2>3, <2>4, <2>5 DEF SignedNext
<1> QED BY <1>1, <1>2, AlwaysLimiterInv, PTL DEF ManagementSpec

-----------------------------------------------------------------------------
(* The signer. *)

(* How much of a signature a page carries.                                 *)
Room(p) == IF p = 0 THEN PageZeroSize ELSE PageSize

(* The first m pages, put together.                                        *)
Assembled(pages, m) ==
  FoldLeft(LAMBDA text, p :
                   text \o SubSeq(pages[p].auth_data, 1, Room(p)),
                 <<>>, [i \in 1 .. m |-> i - 1])

(* What putting m pages together works out, page after page.               *)
LEMMA AssembledStepwise ==
  ASSUME NEW pages, NEW m \in Nat,
         \A p \in 0 .. m - 1 : pages[p].auth_data \in Seq(Nat) /\ Len(pages[p].auth_data) = PageSize + 1
  PROVE  \E f : /\ f[0] = <<>> /\ f[m] = Assembled(pages, m)
                /\ \A k \in 0 .. m - 1 :
                     f[k + 1] = f[k] \o SubSeq(pages[k].auth_data, 1, Room(k))
<1> DEFINE part(k) == SubSeq(pages[k].auth_data, 1, Room(k))
           A == Seq(Nat)
           seq == [i \in 1 .. m |-> i - 1]
           step == [x \in (1 .. m) \X A |-> x[2] \o part(seq[x[1]])]
           Next(g) == [s \in SUBSET (1 .. m) |->
                          IF s = {} THEN <<>> ELSE g[s \ {Max(s)}] \o part(seq[Max(s)])]
           iter == CHOOSE g : g = Next(g)
<1>1. Assembled(pages, m) = iter[1 .. m]
  BY DEF Assembled, FoldLeft, MapThenFoldSet, Next, iter, seq, Room
<1> HIDE DEF part
<1>2. \A k \in 1 .. m : part(seq[k]) \in A
  <2> SUFFICES ASSUME NEW j \in 1 .. m PROVE part(seq[j]) \in A
    OBVIOUS
  <2> DEFINE k == seq[j]
             d == pages[k].auth_data
             w == Room(k)
  <2>1. k \in 0 .. m - 1
    OBVIOUS
  <2>2. /\ d \in Seq(Nat) /\ w \in Nat /\ Len(d) = PageSize + 1 /\ PageSize \in Nat
        /\ w <= PageSize
    BY <2>1, PageAssumption DEF Room
  <2> HIDE DEF d, w
  <2>3. SubSeq(d, 1, w) \in Seq(Nat)
    <3>1. \A i \in 1 .. w : d[i] \in Nat
      BY <2>2, ElementOfSeq
    <3> QED BY <2>2, <3>1, SubSeqProperties
  <2> QED BY <2>3 DEF d, w, part
<1> HIDE DEF seq
<1>3. step \in [(1 .. m) \X A -> A]
  BY <1>2, ConcatProperties
<1>4. \A k \in 1 .. m : \A a \in A : step[<<k, a>>] = a \o part(seq[k])
  OBVIOUS
<1>5. <<>> \in A
  BY EmptySeq
<1> HIDE DEF step, A
<1>6. PICK g : Unfolds(m, A, <<>>, step, g)
  BY <1>3, <1>5, FoldExists
<1>7. g = Next(g)
  <2>1. g \in [SUBSET (1 .. m) -> A]
    BY <1>6 DEF Unfolds
  <2>2. ASSUME NEW s \in SUBSET (1 .. m)
        PROVE  g[s] = IF s = {} THEN <<>> ELSE g[s \ {Max(s)}] \o part(seq[Max(s)])
    BY <1>4, <1>6 DEF Unfolds
  <2> QED BY <2>1, <2>2
<1> HIDE DEF Next
<1>8. iter = Next(iter)
  BY <1>7
<1> HIDE DEF iter
<1>9. iter = [s \in SUBSET (1 .. m) |->
                IF s = {} THEN <<>> ELSE iter[s \ {Max(s)}] \o part(seq[Max(s)])]
  BY <1>8 DEF Next
<1> DEFINE f == [k \in 0 .. m |-> iter[1 .. k]]
<1>10. f[0] = <<>>
  <2>1. 1 .. 0 = {} /\ {} \in SUBSET (1 .. m) /\ 0 \in 0 .. m
    OBVIOUS
  <2> QED BY <1>9, <2>1
<1>11. ASSUME NEW k \in 0 .. m - 1
       PROVE  f[k + 1] = f[k] \o part(k)
  <2>1. seq[k + 1] = k
    BY MaxOfFirst DEF seq
  <2> DEFINE s == 1 .. k + 1
  <2>2. /\ s \in SUBSET (1 .. m) /\ s # {} /\ Max(s) = k + 1 /\ s \ {k + 1} = 1 .. k
        /\ k \in 0 .. m /\ k + 1 \in 0 .. m
    BY MaxOfFirst
  <2> HIDE DEF s
  <2>3. iter[s] = iter[s \ {k + 1}] \o part(seq[k + 1])
    BY <1>9, <2>2
  <2> QED BY <2>1, <2>2, <2>3 DEF s
<1>12. f[m] = Assembled(pages, m)
  BY <1>1
<1> HIDE DEF f
<1> QED BY <1>10, <1>11, <1>12 DEF part

(* The pages of a signature.                                               *)
PackOf(sig) == [p \in 0 .. PagesFor(Len(sig)) - 1 |-> Page(sig, p)]

(* A page carries the piece of the signature that begins at its offset,    *)
(* and zeros after the signature's end (auth.rs:66-102).                   *)
LEMMA PageHolds ==
  ASSUME NEW sig \in Seq(Nat), NEW k \in Nat, Offset(k) \in Nat
  PROVE  LET data == Page(sig, k).auth_data
         IN  /\ data \in Seq(Nat) /\ Len(data) = PageSize + 1
             /\ \A i \in 1 .. Room(k) :
                  data[i] = IF Offset(k) + i <= Len(sig) THEN sig[Offset(k) + i] ELSE 0
<1> DEFINE n == Len(sig)
           a == Offset(k)
           w == Room(k)
           b == Least(a + w, n)
           chunk == SubSeq(sig, a + 1, b)
           data == [i \in 1 .. PageSize + 1 |-> IF i <= Len(chunk) THEN chunk[i] ELSE 0]
<1>1. Page(sig, k).auth_data = data
  BY DEF Page, Room
<1>2. n \in Nat /\ a \in Nat /\ w \in Nat /\ PageSize \in Nat /\ w <= PageSize
  BY PageAssumption, LenProperties DEF Room
<1> HIDE DEF n, a, w
<1>3. /\ b \in Nat /\ b <= n /\ b <= a + w
      /\ a + w <= n => b = a + w
      /\ ~(a + w <= n) => b = n
  BY <1>2 DEF Least
<1> HIDE DEF b
<1>4. /\ chunk \in Seq(Nat) /\ Len(chunk) \in Nat
      /\ a <= b => Len(chunk) = b - a /\ \A i \in 1 .. b - a : chunk[i] = sig[a + i]
      /\ ~(a <= b) => Len(chunk) = 0
  <2>1. CASE a <= b
    <3>1. a + 1 \in 1 .. n + 1 /\ b \in (a + 1) - 1 .. n
      BY <1>2, <1>3, <2>1
    <3> DEFINE l == a + 1
    <3>2. l \in Int /\ b \in Int /\ l \in Nat /\ 1 <= l
      BY <1>2, <1>3
    <3> HIDE DEF l
    <3>3. \A i \in l .. b : sig[i] \in Nat
      <4>1. \A i \in l .. b : i \in 1 .. n
        BY <1>2, <1>3, <3>2
      <4> QED BY <4>1, ElementOfSeq DEF n
    <3> DEFINE c == SubSeq(sig, l, b)
    <3>4. /\ c \in Seq(Nat) /\ Len(c) = IF l <= b THEN b - l + 1 ELSE 0
          /\ \A i \in 1 .. b - l + 1 : c[i] = sig[l + i - 1]
      BY <3>2, <3>3, SubSeqProperties
    <3>5. chunk = c
      BY DEF l
    <3> HIDE DEF chunk, c
    <3>6. /\ b - l + 1 = b - a /\ b - a \in Nat
          /\ ~(l <= b) => b - a = 0
          /\ \A i \in Nat : l + i - 1 = a + i
      BY <1>2, <1>3, <2>1 DEF l
    <3>7. Len(c) = b - a
      BY <3>4, <3>6
    <3>8. \A i \in 1 .. b - a : c[i] = sig[a + i]
      <4> SUFFICES ASSUME NEW i \in 1 .. b - a PROVE c[i] = sig[a + i]
        OBVIOUS
      <4>1. i \in 1 .. b - l + 1 /\ l + i - 1 = a + i
        BY <3>6
      <4>2. c[i] = sig[l + i - 1]
        BY <3>4, <4>1
      <4> QED BY <4>1, <4>2
    <3> QED BY <2>1, <3>4, <3>5, <3>6, <3>7, <3>8
  <2>2. CASE ~(a <= b)
    <3>1. chunk = <<>>
      BY <1>2, <1>3, <2>2, SubSeqEmpty
    <3> QED BY <2>2, <3>1, EmptySeq
  <2> QED BY <2>1, <2>2
<1> HIDE DEF chunk
<1>5. data \in Seq(Nat) /\ Len(data) = PageSize + 1
  <2>1. data \in [1 .. PageSize + 1 -> Nat] /\ PageSize + 1 \in Nat
    <3>1. ASSUME NEW i \in 1 .. PageSize + 1
          PROVE  (IF i <= Len(chunk) THEN chunk[i] ELSE 0) \in Nat
      BY <1>2, <1>4, ElementOfSeq
    <3> QED BY <1>2, <3>1
  <2> HIDE DEF data
  <2> QED BY <2>1
<1>6. ASSUME NEW i \in 1 .. w
      PROVE  data[i] = IF a + i <= n THEN sig[a + i] ELSE 0
  <2>1. i \in 1 .. PageSize + 1 /\ data[i] = IF i <= Len(chunk) THEN chunk[i] ELSE 0
    BY <1>2
  <2> HIDE DEF data
  <2>2. CASE a + i <= n
    <3>1. a <= b /\ i \in 1 .. b - a
      BY <1>2, <1>3, <2>2
    <3> QED BY <1>4, <2>1, <2>2, <3>1
  <2>3. CASE ~(a + i <= n)
    <3>1. ~(i <= Len(chunk))
      BY <1>2, <1>3, <1>4, <2>3
    <3> QED BY <2>1, <2>3, <3>1
  <2> QED BY <2>2, <2>3
<1> HIDE DEF data
<1> QED BY <1>1, <1>5, <1>6 DEF n, a, w

(* A page begins where the one before it ends.                             *)
LEMMA OffsetNext ==
  ASSUME NEW k \in Nat
  PROVE  Offset(k) \in Nat /\ Offset(k + 1) = Offset(k) + Room(k) /\ Room(k) \in Nat
<1>0. PageZeroSize \in Nat /\ PageSize \in Nat
  BY PageAssumption
<1>1. CASE k = 0
  <2>1. /\ Offset(0) = 0 /\ Room(0) = PageZeroSize
        /\ Offset(0 + 1) = PageZeroSize + ((0 + 1) - 1) * PageSize
    BY DEF Offset, Room
  <2> QED BY <1>0, <1>1, <2>1
<1>2. CASE k # 0
  <2>1. k - 1 \in Nat /\ (k + 1) - 1 = k /\ k + 1 # 0
    BY <1>2
  <2>2. /\ Offset(k) = PageZeroSize + (k - 1) * PageSize /\ Room(k) = PageSize
        /\ Offset(k + 1) = PageZeroSize + k * PageSize
    BY <1>2, <2>1 DEF Offset, Room
  <2>3. (k - 1) * PageSize \in Nat /\ k * PageSize = (k - 1) * PageSize + PageSize
    BY <1>0, <2>1
  <2> QED BY <1>0, <2>2, <2>3
<1> QED BY <1>1, <1>2

(* The pages that are made for a signature have room for all of it.        *)
LEMMA PagesReach ==
  ASSUME NEW n \in Nat
  PROVE  PagesFor(n) \in Nat \ {0} /\ n <= Offset(PagesFor(n))
<1>0. PageZeroSize \in Nat /\ PageSize \in Nat \ {0}
  BY PageAssumption
<1>1. CASE n > PageZeroSize
  <2> DEFINE a == n - PageZeroSize + PageSize - 1
             q == a \div PageSize
             r == a % PageSize
  <2>1. a \in Nat
    BY <1>0, <1>1
  <2>2. q \in Nat /\ r \in 0 .. PageSize - 1 /\ a = q * PageSize + r
    <3> HIDE DEF a
    <3> QED BY <1>0, <2>1, DivMod
  <2>3. PagesFor(n) = 1 + q
    BY <1>1 DEF PagesFor
  <2> HIDE DEF q, r
  <2> DEFINE x == q * PageSize
  <2>4. x \in Nat /\ a = x + r
    BY <1>0, <2>2
  <2>5. Offset(1 + q) = PageZeroSize + x
    <3>1. 1 + q # 0 /\ (1 + q) - 1 = q
      BY <2>2
    <3> QED BY <3>1 DEF Offset
  <2> HIDE DEF x
  <2>6. n <= PageZeroSize + x
    BY <1>0, <2>2, <2>4
  <2> QED BY <2>2, <2>3, <2>5, <2>6
<1>2. CASE ~(n > PageZeroSize)
  <2>1. PagesFor(n) = 1
    BY <1>2 DEF PagesFor
  <2>2. Offset(1) = PageZeroSize + 0 * PageSize
    BY DEF Offset
  <2> QED BY <1>0, <1>2, <2>1, <2>2
<1> QED BY <1>1, <1>2

(* A text is the signature as far as the first k pages carry it.           *)
Put(sig, k, text) ==
  /\ text \in Seq(Nat) /\ Len(text) = Offset(k)
  /\ \A i \in 1 .. Offset(k) : text[i] = IF i <= Len(sig) THEN sig[i] ELSE 0

(* When the first k pages give back the signature up to where page k       *)
(* begins, then with page k they give it back up to where the next begins. *)
LEMMA OnePageMore ==
  ASSUME NEW sig \in Seq(Nat), NEW k \in Nat, NEW text, Put(sig, k, text)
  PROVE  Put(sig, k + 1, text \o SubSeq(Page(sig, k).auth_data, 1, Room(k)))
<1> DEFINE n == Len(sig)
           a == Offset(k)
           w == Room(k)
           d == Page(sig, k).auth_data
           part == SubSeq(d, 1, w)
           all == text \o part
<1>1. /\ n \in Nat /\ a \in Nat /\ w \in Nat /\ PageSize \in Nat /\ w <= PageSize
      /\ Offset(k + 1) = a + w
  <2>1. PageSize \in Nat /\ w <= PageSize
    BY PageAssumption DEF Room
  <2> QED BY <2>1, OffsetNext, LenProperties
<1>2. /\ d \in Seq(Nat) /\ Len(d) = PageSize + 1
      /\ \A i \in 1 .. w : d[i] = IF a + i <= n THEN sig[a + i] ELSE 0
  BY <1>1, PageHolds
<1>3. text \in Seq(Nat) /\ Len(text) = a /\ \A i \in 1 .. a : text[i] = IF i <= n THEN sig[i] ELSE 0
  BY DEF Put
<1> HIDE DEF n, a, w, d
<1>4. part \in Seq(Nat) /\ Len(part) = w /\ \A i \in 1 .. w : part[i] = d[i]
  <2>1. \A i \in 1 .. w : d[i] \in Nat
    <3> SUFFICES ASSUME NEW i \in 1 .. w PROVE d[i] \in Nat
      OBVIOUS
    <3>1. i \in 1 .. Len(d)
      BY <1>1, <1>2
    <3> QED BY <1>2, <3>1, ElementOfSeq
  <2>2. /\ part \in Seq(Nat) /\ Len(part) = IF 1 <= w THEN w - 1 + 1 ELSE 0
        /\ \A i \in 1 .. w - 1 + 1 : part[i] = d[1 + i - 1]
    BY <1>1, <2>1, SubSeqProperties
  <2>3. w - 1 + 1 = w /\ \A i \in 1 .. w : 1 + i - 1 = i
    BY <1>1
  <2> HIDE DEF part
  <2> QED BY <1>1, <2>2, <2>3
<1> HIDE DEF part
<1>5. /\ all \in Seq(Nat) /\ Len(all) = a + w
      /\ \A i \in 1 .. a + w : all[i] = IF i <= a THEN text[i] ELSE part[i - a]
  BY <1>3, <1>4, ConcatProperties
<1> HIDE DEF all
<1>6. ASSUME NEW i \in 1 .. a + w
      PROVE  all[i] = IF i <= n THEN sig[i] ELSE 0
  <2>1. CASE i <= a
    <3>1. i \in 1 .. a
      BY <1>1, <2>1
    <3> QED BY <1>3, <1>5, <2>1, <3>1
  <2>2. CASE ~(i <= a)
    <3>1. i - a \in 1 .. w /\ a + (i - a) = i
      BY <1>1, <2>2
    <3>2. part[i - a] = IF i <= n THEN sig[i] ELSE 0
      BY <1>2, <1>4, <3>1
    <3> QED BY <1>5, <2>2, <3>2
  <2> QED BY <2>1, <2>2
<1>7. Put(sig, k + 1, all)
  BY <1>1, <1>5, <1>6 DEF Put, n
<1> QED BY <1>7 DEF all, part, d, w

(* The pages of a signature, put together, are the signature.              *)
LEMMA PagesTogether ==
  ASSUME NEW sig \in Seq(Nat), Len(sig) < ByteMod, NEW pages, pages = PackOf(sig)
  PROVE  PutTogether(pages) = sig
<1> DEFINE n == Len(sig)
           m == PagesFor(n)
<1>1. n \in Nat /\ m \in Nat \ {0} /\ n <= Offset(m)
  BY LenProperties, PagesReach
<1>2. \A k \in 0 .. m - 1 : pages[k] = Page(sig, k)
  BY DEF PackOf
<1>3. pages[0].last_page_index + 1 = m /\ pages[0].length = n
  <2>1. 0 \in 0 .. m - 1 /\ (m - 1) + 1 = m
    <3> HIDE DEF m
    <3> QED BY <1>1
  <2>2. pages[0].last_page_index = m - 1 /\ pages[0].length = n
    <3>1. pages[0] = Page(sig, 0)
      BY <1>2, <2>1
    <3>2. /\ Page(sig, 0).last_page_index = PagesFor(Len(sig)) - 1
          /\ Page(sig, 0).length = Len(sig) % ByteMod
      BY DEF Page
    <3>3. Len(sig) % ByteMod = Len(sig)
      <4>1. ByteMod \in Nat \ {0} /\ Len(sig) \in 0 .. ByteMod - 1
        BY <1>1, WidthAssumption
      <4> QED BY <4>1, ModSmall
    <3> QED BY <3>1, <3>2, <3>3
  <2> HIDE DEF m
  <2> QED BY <2>1, <2>2
<1> HIDE DEF n, m
<1>4. PutTogether(pages) = Slice(Assembled(pages, m), n)
  BY <1>3 DEF PutTogether, Assembled, Room
<1>5. \A k \in 0 .. m - 1 :
        pages[k].auth_data \in Seq(Nat) /\ Len(pages[k].auth_data) = PageSize + 1
  <2> SUFFICES ASSUME NEW k \in 0 .. m - 1
               PROVE  pages[k].auth_data \in Seq(Nat) /\ Len(pages[k].auth_data) = PageSize + 1
    OBVIOUS
  <2>1. k \in Nat /\ Offset(k) \in Nat
    BY OffsetNext
  <2>2. Page(sig, k).auth_data \in Seq(Nat) /\ Len(Page(sig, k).auth_data) = PageSize + 1
    BY <2>1, PageHolds
  <2> QED BY <1>2, <2>2
<1>6. PICK f : /\ f[0] = <<>> /\ f[m] = Assembled(pages, m)
               /\ \A k \in 0 .. m - 1 : f[k + 1] = f[k] \o SubSeq(pages[k].auth_data, 1, Room(k))
  BY <1>1, <1>5, AssembledStepwise
<1> DEFINE T == {k \in Nat : k <= m => Put(sig, k, f[k])}
<1>7. 0 \in T
  <2>1. Offset(0) = 0 /\ <<>> \in Seq(Nat) /\ Len(<<>>) = 0
    BY EmptySeq DEF Offset
  <2>2. Put(sig, 0, <<>>)
    <3>1. \A i \in 1 .. Offset(0) : FALSE
      BY <2>1
    <3> QED BY <2>1, <3>1 DEF Put
  <2> QED BY <1>6, <2>2
<1>8. ASSUME NEW k \in Nat, k \in T
      PROVE  k + 1 \in T
  <2> SUFFICES ASSUME k + 1 <= m PROVE Put(sig, k + 1, f[k + 1])
    OBVIOUS
  <2>1. k \in 0 .. m - 1 /\ k <= m
    BY <1>1
  <2>2. Put(sig, k, f[k])
    BY <1>8, <2>1
  <2>3. f[k + 1] = f[k] \o SubSeq(Page(sig, k).auth_data, 1, Room(k))
    BY <1>2, <1>6, <2>1
  <2> QED BY <2>2, <2>3, OnePageMore
<1>9. Put(sig, m, f[m])
  <2>1. Nat \subseteq T
    <3> HIDE DEF T
    <3> QED BY <1>7, <1>8, SetInduction
  <2> QED BY <1>1, <2>1
<1> DEFINE text == Assembled(pages, m)
           o == Offset(m)
<1>10. /\ text \in Seq(Nat) /\ Len(text) = o /\ o \in Nat
       /\ \A i \in 1 .. o : text[i] = IF i <= n THEN sig[i] ELSE 0
  BY <1>1, <1>6, <1>9, OffsetNext DEF Put, n
<1> HIDE DEF text, o
<1>11. Least(n, Len(text)) = n
  BY <1>1, <1>10 DEF Least, o
<1>12. /\ SubSeq(text, 1, n) \in Seq(Nat) /\ Len(SubSeq(text, 1, n)) = n
       /\ \A i \in 1 .. n : SubSeq(text, 1, n)[i] = sig[i]
  <2>1. \A i \in 1 .. n : i \in 1 .. o /\ text[i] = sig[i]
    BY <1>1, <1>10 DEF o
  <2>2. \A i \in 1 .. n : text[i] \in Nat
    BY <2>1, <1>10, ElementOfSeq
  <2>3. /\ SubSeq(text, 1, n) \in Seq(Nat) /\ Len(SubSeq(text, 1, n)) = IF 1 <= n THEN n - 1 + 1 ELSE 0
        /\ \A i \in 1 .. n - 1 + 1 : SubSeq(text, 1, n)[i] = text[1 + i - 1]
    BY <1>1, <2>2, SubSeqProperties
  <2>4. n - 1 + 1 = n /\ \A i \in 1 .. n : 1 + i - 1 = i
    BY <1>1
  <2> DEFINE s == SubSeq(text, 1, n)
  <2>5. s \in Seq(Nat) /\ Len(s) = n /\ \A i \in 1 .. n : s[i] = text[i]
    <3>1. /\ s \in Seq(Nat) /\ Len(s) = IF 1 <= n THEN n - 1 + 1 ELSE 0
          /\ \A i \in 1 .. n - 1 + 1 : s[i] = text[1 + i - 1]
      BY <2>3
    <3> HIDE DEF s
    <3> QED BY <1>1, <2>4, <3>1
  <2> QED BY <2>1, <2>5
<1>13. SubSeq(text, 1, n) = sig
  BY <1>12, SeqEqual DEF n
<1> QED BY <1>4, <1>11, <1>13 DEF text, Slice

(* The key came from a text that was parsed, and the pack from a           *)
(* signature.                                                              *)
PackMade ==
  /\ signing_key # None => \E pem \in DOMAIN KeyOf : signing_key = Some(KeyOf[pem])
  /\ pack # None => /\ sig_of_pack \in Seq(Nat) /\ Len(sig_of_pack) < ByteMod
                    /\ pack = Some(PackOf(sig_of_pack))

(* A step keeps the pack the pages of a signature, and the key one that    *)
(* was parsed.                                                             *)
LEMMA PackMadeStep ==
  ASSUME PackMade, SignerNext
  PROVE  PackMade'
<1>1. ASSUME NEW pem \in PemTexts, SetKey(pem)
      PROVE  PackMade'
  BY <1>1 DEF SetKey, PackMade
<1>2. ASSUME NEW id \in SignedIds, SignIdentity(id)
      PROVE  PackMade'
  <2>1. CASE Signable(id)
    <3>1. PICK pem \in DOMAIN KeyOf : signing_key = Some(KeyOf[pem])
      BY <2>1 DEF PackMade, Signable
    <3> DEFINE sig == Sign(signing_key.some, id)
    <3>2. sig \in Seq(Nat) /\ Len(sig) < ByteMod
      <4>1. /\ sig = Sign(KeyOf[pem], id) /\ id # <<>> /\ id[1] # Nul
            /\ PagesFor(Len(sig)) <= MaxPages
        BY <2>1, <3>1 DEF Signable, Some
      <4>2. sig \in Seq(Nat)
        BY <4>1, PageAssumption
      <4>3. Len(sig) < ByteMod \/ PagesFor(Len(sig)) > MaxPages
        BY <4>1, LengthAssumption
      <4>4. ~(PagesFor(Len(sig)) > MaxPages)
        <5>1. PagesFor(Len(sig)) \in Nat /\ MaxPages \in Nat
          BY <4>2, PagesReach, LenProperties, PageAssumption
        <5> HIDE DEF sig
        <5> QED BY <4>1, <5>1
      <4> QED BY <4>2, <4>3, <4>4
    <3>3. pack' = Some(PackOf(sig)) /\ sig_of_pack' = sig /\ signing_key' = signing_key
      BY <1>2, <2>1 DEF SignIdentity, PackOf
    <3> HIDE DEF sig
    <3> QED BY <3>1, <3>2, <3>3 DEF PackMade
  <2>2. CASE ~Signable(id)
    BY <1>2, <2>2 DEF SignIdentity, PackMade
  <2> QED BY <2>1, <2>2
<1> QED BY <1>1, <1>2 DEF SignerNext

(* Whatever key, signature and size of page, the pages that are broadcast  *)
(* make the signature again, and none of them is missing or left over      *)
(* (auth.rs:66-102).                                                       *)
THEOREM SignaturesComeTogether == ManagementSpec => []PagesMakeSignature
<1>1. ManagementInit => PackMade
  BY DEF ManagementInit, SignerInit, PackMade
<1>2. PackMade /\ [ManagementNext]_managementVars => PackMade'
  <2> SUFFICES ASSUME PackMade, [ManagementNext]_managementVars PROVE PackMade'
    OBVIOUS
  <2>1. CASE SignerNext
    BY <2>1, PackMadeStep
  <2>2. CASE UNCHANGED signerVars
    BY <2>2 DEF signerVars, PackMade
  <2> QED BY <2>1, <2>2 DEF ManagementNext, managementVars, Receives
<1>3. PackMade => PagesMakeSignature
  <2> SUFFICES ASSUME PackMade, pack # None PROVE PagesMakeSignature
    BY DEF PagesMakeSignature
  <2> DEFINE sig == sig_of_pack
  <2>1. sig \in Seq(Nat) /\ Len(sig) < ByteMod /\ pack.some = PackOf(sig)
    BY DEF PackMade, Some
  <2>2. PutTogether(pack.some) = sig
    BY <2>1, PagesTogether
  <2>3. DOMAIN pack.some = 0 .. pack.some[0].last_page_index
    <3>1. PagesFor(Len(sig)) \in Nat \ {0}
      BY <2>1, LenProperties, PagesReach
    <3> DEFINE m == PagesFor(Len(sig))
    <3> HIDE DEF m
    <3>2. 0 \in 0 .. m - 1
      BY <3>1 DEF m
    <3>3. pack.some[0] = Page(sig, 0)
      BY <2>1, <3>2 DEF PackOf, m
    <3>4. pack.some[0].last_page_index = m - 1
      BY <3>3 DEF Page, m
    <3>5. DOMAIN pack.some = 0 .. m - 1
      BY <2>1 DEF PackOf, m
    <3> QED BY <3>4, <3>5
  <2> QED BY <2>2, <2>3 DEF PagesMakeSignature
<1> QED BY <1>1, <1>2, <1>3, PTL DEF ManagementSpec

-----------------------------------------------------------------------------
(* The log. *)

(* The first n elements, or all when there are not so many.                *)
LEMMA SliceHolds ==
  ASSUME NEW s \in Seq(Nat), NEW n \in Nat
  PROVE  /\ Slice(s, n) \in Seq(Nat) /\ Len(Slice(s, n)) = Least(n, Len(s))
         /\ \A i \in 1 .. Least(n, Len(s)) : Slice(s, n)[i] = s[i]
<1> DEFINE l == Least(n, Len(s))
           c == SubSeq(s, 1, l)
<1>1. Len(s) \in Nat /\ l \in Nat /\ l <= Len(s)
  BY LenProperties DEF Least
<1>2. Slice(s, n) = c
  BY DEF Slice
<1> HIDE DEF l
<1>3. \A i \in 1 .. l : s[i] \in Nat
  BY <1>1, ElementOfSeq
<1>4. /\ c \in Seq(Nat) /\ Len(c) = IF 1 <= l THEN l - 1 + 1 ELSE 0
      /\ \A i \in 1 .. l - 1 + 1 : c[i] = s[1 + i - 1]
  BY <1>1, <1>3, SubSeqProperties
<1>5. l - 1 + 1 = l /\ \A i \in 1 .. l : 1 + i - 1 = i
  BY <1>1
<1> HIDE DEF c
<1>6. Len(c) = l /\ \A i \in 1 .. l : c[i] = s[i]
  BY <1>1, <1>4, <1>5
<1> QED BY <1>2, <1>4, <1>6 DEF l

(* A text that is not too long is not cut.                                 *)
LEMMA WholeSlice ==
  ASSUME NEW s \in Seq(Nat), NEW n \in Nat, Len(s) <= n
  PROVE  Slice(s, n) = s
<1>1. Len(s) \in Nat /\ Least(n, Len(s)) = Len(s)
  BY LenProperties DEF Least
<1>2. /\ Slice(s, n) \in Seq(Nat) /\ Len(Slice(s, n)) = Len(s)
      /\ \A i \in 1 .. Len(s) : Slice(s, n)[i] = s[i]
  BY <1>1, SliceHolds
<1> QED BY <1>2, SeqEqual

(* The text of a buffer is no longer than the buffer and has no NUL.       *)
LEMMA CTextOf ==
  ASSUME NEW s \in Seq(Nat)
  PROVE  /\ CText(s) \in Seq(Nat) /\ Len(CText(s)) <= Len(s)
         /\ Nul \notin ToSet(CText(s))
<1>0. Len(s) \in Nat
  BY LenProperties
<1>1. CASE Nul \in ToSet(s)
  <2> DEFINE I == {i \in 1 .. Len(s) : s[i] = Nul}
  <2>1. I # {} /\ I \in SUBSET Nat
    BY <1>1 DEF ToSet
  <2>2. PICK first \in I : \A j \in I : first <= j
    BY <2>1, LeastOf
  <2>3. Min(I) \in I /\ \A j \in I : Min(I) <= j
    BY <2>2 DEF Min
  <2>4. UpToNul(s) = Min(I) - 1
    BY <2>1 DEF UpToNul, SelectInSeq
  <2> DEFINE n == Min(I) - 1
             c == Slice(s, n)
  <2>5. n \in Nat /\ n <= Len(s) /\ \A i \in 1 .. n : s[i] # Nul
    <3>1. Min(I) \in 1 .. Len(s)
      BY <2>3
    <3>2. ASSUME NEW i \in 1 .. n PROVE s[i] # Nul
      <4>1. i \in 1 .. Len(s) /\ ~(Min(I) <= i)
        BY <1>0, <3>1
      <4> QED BY <2>3, <4>1
    <3> QED BY <1>0, <3>1, <3>2
  <2>6. CText(s) = c
    BY <1>1, <2>4 DEF CText
  <2> HIDE DEF n, I
  <2>7. Least(n, Len(s)) = n
    BY <1>0, <2>5 DEF Least
  <2>8. c \in Seq(Nat) /\ Len(c) = n /\ \A i \in 1 .. n : c[i] = s[i]
    BY <2>5, <2>7, SliceHolds
  <2> HIDE DEF c
  <2>9. Nul \notin ToSet(c)
    BY <2>5, <2>8 DEF ToSet
  <2> QED BY <2>5, <2>6, <2>8, <2>9
<1>2. CASE ~(Nul \in ToSet(s))
  BY <1>0, <1>2 DEF CText
<1> QED BY <1>1, <1>2

(* A text that was escaped is a sequence of bytes (web.rs:106).            *)
LEMMA EscapedIsText ==
  ASSUME NEW msg \in Seq(Nat)
  PROVE  JsonEscape(msg) \in Seq(Nat)
<1> DEFINE A == Seq(Nat)
           m == Len(msg)
           add(out, c) == IF Len(out) >= 2 * MsgMax - 4 THEN out
                          ELSE IF c \in Escaped THEN out \o <<Backslash, c>>
                          ELSE IF c = Control THEN out ELSE Append(out, c)
           step == [x \in (1 .. m) \X A |-> add(x[2], msg[x[1]])]
           Next(g) == [s \in SUBSET (1 .. m) |->
                          IF s = {} THEN <<>> ELSE add(g[s \ {Max(s)}], msg[Max(s)])]
           iter == CHOOSE g : g = Next(g)
<1>0. m \in Nat /\ DOMAIN msg = 1 .. m
  BY LenProperties
<1>1. JsonEscape(msg) = iter[1 .. m]
  BY <1>0 DEF JsonEscape, FoldLeft, MapThenFoldSet, Next, iter, add
<1>2. ASSUME NEW out \in A, NEW c \in Nat
      PROVE  add(out, c) \in A
  <2>1. <<Backslash, c>> \in A /\ Append(out, c) \in A
    BY AppendProperties DEF Backslash
  <2>2. out \o <<Backslash, c>> \in A
    BY <2>1, ConcatProperties
  <2> QED BY <2>1, <2>2
<1>3. \A k \in 1 .. m : msg[k] \in Nat
  BY ElementOfSeq
<1> HIDE DEF add, m, A
<1>4. step \in [(1 .. m) \X A -> A]
  BY <1>2, <1>3
<1>5. \A k \in 1 .. m : \A a \in A : step[<<k, a>>] = add(a, msg[k])
  OBVIOUS
<1>6. <<>> \in A
  BY EmptySeq DEF A
<1> HIDE DEF step
<1>7. PICK g : Unfolds(m, A, <<>>, step, g)
  BY <1>0, <1>4, <1>6, FoldExists
<1>8. g = Next(g)
  <2>1. g \in [SUBSET (1 .. m) -> A]
    BY <1>7 DEF Unfolds
  <2>2. ASSUME NEW s \in SUBSET (1 .. m)
        PROVE  g[s] = IF s = {} THEN <<>> ELSE add(g[s \ {Max(s)}], msg[Max(s)])
    BY <1>5, <1>7 DEF Unfolds
  <2> QED BY <2>1, <2>2
<1> HIDE DEF Next
<1>9. iter = Next(iter)
  BY <1>8
<1> HIDE DEF iter
<1>10. iter = [s \in SUBSET (1 .. m) |->
                 IF s = {} THEN <<>> ELSE add(iter[s \ {Max(s)}], msg[Max(s)])]
  BY <1>9 DEF Next
<1> DEFINE T == {k \in Nat : k <= m => iter[1 .. k] \in A}
<1>11. 0 \in T
  <2>1. 1 .. 0 = {} /\ {} \in SUBSET (1 .. m)
    OBVIOUS
  <2> QED BY <1>6, <1>10, <2>1
<1>12. ASSUME NEW k \in Nat, k \in T
       PROVE  k + 1 \in T
  <2> SUFFICES ASSUME k + 1 <= m PROVE iter[1 .. k + 1] \in A
    OBVIOUS
  <2> DEFINE s == 1 .. k + 1
  <2>0. k \in 0 .. m - 1 /\ k <= m /\ k + 1 \in 1 .. m
    BY <1>0
  <2>1. s \in SUBSET (1 .. m) /\ s # {} /\ Max(s) = k + 1 /\ s \ {k + 1} = 1 .. k
    BY <1>0, <2>0, MaxOfFirst
  <2>2. iter[1 .. k] \in A
    BY <1>12, <2>0
  <2> HIDE DEF s
  <2>3. iter[s] = add(iter[s \ {k + 1}], msg[k + 1])
    BY <1>10, <2>1
  <2> QED BY <1>2, <1>3, <2>0, <2>1, <2>2, <2>3 DEF s
<1>13. Nat \subseteq T
  <2> HIDE DEF T
  <2> QED BY <1>11, <1>12, SetInduction
<1> QED BY <1>0, <1>1, <1>13 DEF A

(* So is a record of the log as it is written into the answer.             *)
LEMMA RenderedIsText ==
  ASSUME NEW line \in Seq(Nat), NEW t \in Nat
  PROVE  Rendered([time |-> t, level |-> LevelFromLine(line), msg |-> CopyTrunc(line)]) \in Seq(Nat)
<1> DEFINE e == [time |-> t, level |-> LevelFromLine(line), msg |-> CopyTrunc(line)]
<1>1. CopyTrunc(line) \in Seq(Nat)
  <2>0. MsgMax - 1 \in Nat
    BY RingAssumption
  <2>1. CText(line) \in Seq(Nat)
    BY CTextOf
  <2> QED BY <2>0, <2>1, SliceHolds DEF CopyTrunc
<1>2. LevelFromLine(line) \in Nat
  BY DEF LevelFromLine, LevelLetters, Info
<1>3. JsonEscape(e.msg) \in Seq(Nat)
  BY <1>1, EscapedIsText
<1>4. e.time = t /\ e.level = LevelFromLine(line)
  OBVIOUS
<1> HIDE DEF e
<1>5. <<Opening, e.time, Middle, e.level, Middle>> \in Seq(Nat) /\ <<Closing>> \in Seq(Nat)
  BY <1>2, <1>4 DEF Opening, Middle, Closing
<1>6. (<<Opening, e.time, Middle, e.level, Middle>> \o JsonEscape(e.msg)) \o <<Closing>> \in Seq(Nat)
  BY <1>3, <1>5, ConcatProperties
<1> QED BY <1>6 DEF Rendered, e

(* The record of a line that was logged.                                   *)
Recorded(x) == [time |-> x[2], level |-> LevelFromLine(x[1]), msg |-> CopyTrunc(x[1])]

(* What it adds to the list: a comma before it unless it is the first.     *)
Piece(i) == (IF i > 1 THEN <<Comma>> ELSE <<>>) \o Rendered(Recorded(logged[i]))

(* Where render_log_json begins to read.                                   *)
Start == IF count < RingMax THEN 0 ELSE head

(* The ring holds the last lines that were logged, the oldest at head.     *)
RingInv ==
  /\ logged \in Seq(Lines \X Nat) /\ uptime \in Nat
  /\ count = Len(logged) /\ count <= RingMax
  /\ head \in 0 .. RingMax - 1 /\ (count < RingMax => head = 0)
  /\ DOMAIN ring = 0 .. RingMax - 1
  /\ \A i \in 1 .. count : ring[(head + i - 1) % RingMax] = Recorded(logged[i])

(* Where the list is cut, to leave room for its end.                       *)
Limit == BufSize - Reserve

(* One step of the fold of render_log_json, and of the whole list.         *)
Shorter(buf, i) ==
  IF Len(buf) >= Limit /\ i > 1 THEN buf
  ELSE PushBytes(buf, (IF i > 1 THEN <<Comma>> ELSE <<>>)
                      \o Rendered(ring[(Start + i - 1) % RingMax]))

Longer(out, i) ==
  IF i = 1 THEN out \o Rendered(Recorded(logged[i])) ELSE out \o <<Comma>> \o Rendered(Recorded(logged[i]))

(* What its loop writes, and the buffer it begins with.                    *)
Body ==
  FoldLeft(LAMBDA buf, i : Shorter(buf, i), PushBytes(<<>>, <<ListBegin>>),
           [i \in 1 .. count |-> i])

(* What is rendered is the list, cut at the limit, and the mark of its     *)
(* end.                                                                    *)
LEMMA BodyOfRender ==
  RenderLogJson = PushBytes(IF count > 0 THEN Slice(Body, Limit) ELSE Body, <<ListEnd>>)
  BY DEF RenderLogJson, Body, Shorter, Start, Limit

(* The record of a line that is kept is written as a sequence of bytes.    *)
LEMMA RecordedIsText ==
  ASSUME RingInv, NEW i \in 1 .. count
  PROVE  Rendered(Recorded(logged[i])) \in Seq(Nat)
<1>1. logged[i] \in Lines \X Nat
  BY ElementOfSeq DEF RingInv
<1> DEFINE line == logged[i][1]
           t == logged[i][2]
<1>2. line \in Seq(Nat) /\ t \in Nat
  BY <1>1, RingAssumption
<1>3. Recorded(logged[i]) = [time |-> t, level |-> LevelFromLine(line), msg |-> CopyTrunc(line)]
  BY DEF Recorded
<1> HIDE DEF line, t
<1> QED BY <1>2, <1>3, RenderedIsText

(* So is what it adds to the list, with its comma.                         *)
LEMMA PieceIsText ==
  ASSUME RingInv, NEW i \in 1 .. count
  PROVE  Piece(i) \in Seq(Nat)
<1>1. Rendered(Recorded(logged[i])) \in Seq(Nat)
  BY RecordedIsText
<1>2. <<Comma>> \in Seq(Nat) /\ <<>> \in Seq(Nat)
  BY EmptySeq DEF Comma
<1> QED BY <1>1, <1>2, ConcatProperties DEF Piece

(* The whole list grows by the piece of each line.                         *)
LEMMA LongerAdds ==
  ASSUME RingInv, NEW i \in 1 .. count, NEW out \in Seq(Nat)
  PROVE  Longer(out, i) = out \o Piece(i) /\ Longer(out, i) \in Seq(Nat)
<1> DEFINE e == Rendered(Recorded(logged[i]))
<1>1. e \in Seq(Nat) /\ <<Comma>> \in Seq(Nat)
  BY RecordedIsText DEF Comma
<1> HIDE DEF e
<1>2. i > 1 <=> i # 1
  BY DEF RingInv
<1>3. CASE i = 1
  <2>1. Longer(out, i) = out \o e /\ Piece(i) = <<>> \o e
    BY <1>2, <1>3 DEF Longer, Piece, e
  <2> QED BY <1>1, <2>1, ConcatEmptySeq, ConcatProperties
<1>4. CASE i # 1
  <2>1. Longer(out, i) = out \o <<Comma>> \o e /\ Piece(i) = <<Comma>> \o e
    BY <1>2, <1>4 DEF Longer, Piece, e
  <2> QED BY <1>1, <2>1, ConcatAssociative, ConcatProperties
<1> QED BY <1>3, <1>4

(* The rendered one grows by the same piece, as far as the buffer goes, or *)
(* does not grow any more when it is long enough.                          *)
LEMMA ShorterAdds ==
  ASSUME RingInv, NEW i \in 1 .. count, NEW buf \in Seq(Nat)
  PROVE  /\ Shorter(buf, i) = IF Len(buf) >= Limit /\ i > 1 THEN buf
                              ELSE Slice(buf \o Piece(i), BufSize)
         /\ Shorter(buf, i) \in Seq(Nat)
<1>1. Start = head
  BY DEF Start, RingInv
<1>2. ring[(Start + i - 1) % RingMax] = Recorded(logged[i])
  BY <1>1 DEF RingInv
<1>3. Shorter(buf, i) = IF Len(buf) >= Limit /\ i > 1 THEN buf
                        ELSE Slice(buf \o Piece(i), BufSize)
  BY <1>2 DEF Shorter, Piece, PushBytes
<1>4. buf \o Piece(i) \in Seq(Nat) /\ BufSize \in Nat
  BY PieceIsText, ConcatProperties, RingAssumption
<1> QED BY <1>3, <1>4, SliceHolds

(* A list begins with its mark, for which the buffer has room.             *)
LEMMA BeginIsText ==
  /\ <<ListBegin>> \in Seq(Nat) /\ PushBytes(<<>>, <<ListBegin>>) = <<ListBegin>>
  /\ PushBytes(<<>>, <<ListBegin>>) \in Seq(Nat)
<1>1. <<ListBegin>> \in Seq(Nat) /\ Len(<<ListBegin>>) = 1
  BY DEF ListBegin
<1> DEFINE b == <<ListBegin>>
<1>2. <<>> \o b = b
  BY <1>1, ConcatEmptySeq
<1> HIDE DEF b
<1>3. BufSize \in Nat /\ Least(BufSize, Len(b)) = 1
  BY <1>1, RingAssumption DEF Least, b
<1>4. /\ Slice(b, BufSize) \in Seq(Nat) /\ Len(Slice(b, BufSize)) = 1
      /\ \A i \in 1 .. 1 : Slice(b, BufSize)[i] = b[i]
  BY <1>1, <1>3, SliceHolds DEF b
<1>5. Slice(b, BufSize) = b
  BY <1>1, <1>4, SeqEqual DEF b
<1> QED BY <1>1, <1>2, <1>5 DEF PushBytes, b

(* What the loop of render_log_json works out, record after record.        *)
LEMMA BodyStepwise ==
  ASSUME RingInv
  PROVE  \E f : /\ f[0] = PushBytes(<<>>, <<ListBegin>>) /\ f[count] = Body
                /\ \A k \in 0 .. count : f[k] \in Seq(Nat)
                /\ \A k \in 0 .. count - 1 : f[k + 1] = Shorter(f[k], k + 1)
<1> DEFINE A == Seq(Nat)
           m == count
           base == PushBytes(<<>>, <<ListBegin>>)
           seq == [i \in 1 .. count |-> i]
           step == [x \in (1 .. m) \X A |-> Shorter(x[2], seq[x[1]])]
           Next(g) == [s \in SUBSET (1 .. m) |->
                          IF s = {} THEN base ELSE Shorter(g[s \ {Max(s)}], seq[Max(s)])]
           iter == CHOOSE g : g = Next(g)
<1>0. m \in Nat /\ DOMAIN logged = 1 .. m
  BY LenProperties DEF RingInv
<1>1. Body = iter[1 .. m]
  BY <1>0 DEF Body, FoldLeft, MapThenFoldSet
<1>2. \A k \in 1 .. m : seq[k] = k
  BY <1>0
<1>3. \A k \in 1 .. m : \A a \in A : Shorter(a, k) \in A
  BY ShorterAdds
<1>4. base \in A
  BY BeginIsText
<1> HIDE DEF m, A, base, seq
<1>5. step \in [(1 .. m) \X A -> A]
  BY <1>2, <1>3
<1>6. \A k \in 1 .. m : \A a \in A : step[<<k, a>>] = Shorter(a, seq[k])
  OBVIOUS
<1> HIDE DEF step
<1>7. PICK g : Unfolds(m, A, base, step, g)
  BY <1>0, <1>4, <1>5, FoldExists
<1>8. g = Next(g)
  <2>1. g \in [SUBSET (1 .. m) -> A]
    BY <1>7 DEF Unfolds
  <2>2. ASSUME NEW s \in SUBSET (1 .. m)
        PROVE  g[s] = IF s = {} THEN base ELSE Shorter(g[s \ {Max(s)}], seq[Max(s)])
    BY <1>6, <1>7 DEF Unfolds
  <2> QED BY <2>1, <2>2
<1> HIDE DEF Next
<1>9. iter = Next(iter)
  BY <1>8
<1> HIDE DEF iter
<1>10. iter = [s \in SUBSET (1 .. m) |->
                 IF s = {} THEN base ELSE Shorter(iter[s \ {Max(s)}], seq[Max(s)])]
  BY <1>9 DEF Next
<1> DEFINE f == [k \in 0 .. m |-> iter[1 .. k]]
<1>11. f[0] = base
  <2>1. 1 .. 0 = {} /\ {} \in SUBSET (1 .. m) /\ 0 \in 0 .. m
    BY <1>0
  <2> QED BY <1>10, <2>1
<1>12. ASSUME NEW k \in 0 .. m - 1
       PROVE  f[k + 1] = Shorter(f[k], k + 1)
  <2> DEFINE s == 1 .. k + 1
  <2>1. /\ s \in SUBSET (1 .. m) /\ s # {} /\ Max(s) = k + 1 /\ s \ {k + 1} = 1 .. k
        /\ k \in 0 .. m /\ k + 1 \in 0 .. m /\ k + 1 \in 1 .. m
    BY <1>0, MaxOfFirst
  <2> HIDE DEF s
  <2>2. iter[s] = Shorter(iter[s \ {k + 1}], seq[k + 1])
    BY <1>10, <2>1
  <2> QED BY <1>2, <2>1, <2>2 DEF s
<1>13. f[m] = Body
  BY <1>0, <1>1
<1> HIDE DEF f
<1> DEFINE T == {k \in Nat : k <= m => f[k] \in A}
<1>14. 0 \in T
  BY <1>4, <1>11
<1>15. ASSUME NEW k \in Nat, k \in T
       PROVE  k + 1 \in T
  <2> SUFFICES ASSUME k + 1 <= m PROVE f[k + 1] \in A
    OBVIOUS
  <2>1. k \in 0 .. m - 1 /\ k <= m /\ k + 1 \in 1 .. m
    BY <1>0
  <2> QED BY <1>3, <1>12, <1>15, <2>1
<1>16. \A k \in 0 .. m : f[k] \in A
  <2>1. Nat \subseteq T
    <3> HIDE DEF T
    <3> QED BY <1>14, <1>15, SetInduction
  <2> QED BY <1>0, <2>1
<1> QED BY <1>11, <1>12, <1>13, <1>16 DEF m, A, base

(* The same for the list of all that the ring should hold.                 *)
LEMMA ListStepwise ==
  ASSUME RingInv
  PROVE  \E f : /\ f[0] = <<ListBegin>> /\ f[count] = WholeList
                /\ \A k \in 0 .. count : f[k] \in Seq(Nat)
                /\ \A k \in 0 .. count - 1 : f[k + 1] = Longer(f[k], k + 1)
<1> DEFINE A == Seq(Nat)
           m == count
           base == <<ListBegin>>
           seq == [i \in DOMAIN logged |-> i]
           step == [x \in (1 .. m) \X A |-> Longer(x[2], seq[x[1]])]
           Next(g) == [s \in SUBSET (1 .. m) |->
                          IF s = {} THEN base ELSE Longer(g[s \ {Max(s)}], seq[Max(s)])]
           iter == CHOOSE g : g = Next(g)
<1>0. m \in Nat /\ DOMAIN logged = 1 .. m
  BY LenProperties DEF RingInv
<1>1. WholeList = iter[1 .. m]
  BY <1>0 DEF WholeList, FoldLeft, MapThenFoldSet, Longer, Recorded
<1>2. \A k \in 1 .. m : seq[k] = k
  BY <1>0
<1>3. \A k \in 1 .. m : \A a \in A : Longer(a, k) \in A
  BY LongerAdds
<1>4. base \in A
  BY BeginIsText
<1> HIDE DEF m, A, base, seq
<1>5. step \in [(1 .. m) \X A -> A]
  BY <1>2, <1>3
<1>6. \A k \in 1 .. m : \A a \in A : step[<<k, a>>] = Longer(a, seq[k])
  OBVIOUS
<1> HIDE DEF step
<1>7. PICK g : Unfolds(m, A, base, step, g)
  BY <1>0, <1>4, <1>5, FoldExists
<1>8. g = Next(g)
  <2>1. g \in [SUBSET (1 .. m) -> A]
    BY <1>7 DEF Unfolds
  <2>2. ASSUME NEW s \in SUBSET (1 .. m)
        PROVE  g[s] = IF s = {} THEN base ELSE Longer(g[s \ {Max(s)}], seq[Max(s)])
    BY <1>6, <1>7 DEF Unfolds
  <2> QED BY <2>1, <2>2
<1> HIDE DEF Next
<1>9. iter = Next(iter)
  BY <1>8
<1> HIDE DEF iter
<1>10. iter = [s \in SUBSET (1 .. m) |->
                 IF s = {} THEN base ELSE Longer(iter[s \ {Max(s)}], seq[Max(s)])]
  BY <1>9 DEF Next
<1> DEFINE f == [k \in 0 .. m |-> iter[1 .. k]]
<1>11. f[0] = base
  <2>1. 1 .. 0 = {} /\ {} \in SUBSET (1 .. m) /\ 0 \in 0 .. m
    BY <1>0
  <2> QED BY <1>10, <2>1
<1>12. ASSUME NEW k \in 0 .. m - 1
       PROVE  f[k + 1] = Longer(f[k], k + 1)
  <2> DEFINE s == 1 .. k + 1
  <2>1. /\ s \in SUBSET (1 .. m) /\ s # {} /\ Max(s) = k + 1 /\ s \ {k + 1} = 1 .. k
        /\ k \in 0 .. m /\ k + 1 \in 0 .. m /\ k + 1 \in 1 .. m
    BY <1>0, MaxOfFirst
  <2> HIDE DEF s
  <2>2. iter[s] = Longer(iter[s \ {k + 1}], seq[k + 1])
    BY <1>10, <2>1
  <2> QED BY <1>2, <2>1, <2>2 DEF s
<1>13. f[m] = WholeList
  BY <1>0, <1>1
<1> HIDE DEF f
<1> DEFINE T == {k \in Nat : k <= m => f[k] \in A}
<1>14. 0 \in T
  BY <1>4, <1>11
<1>15. ASSUME NEW k \in Nat, k \in T
       PROVE  k + 1 \in T
  <2> SUFFICES ASSUME k + 1 <= m PROVE f[k + 1] \in A
    OBVIOUS
  <2>1. k \in 0 .. m - 1 /\ k <= m /\ k + 1 \in 1 .. m
    BY <1>0
  <2> QED BY <1>3, <1>12, <1>15, <2>1
<1>16. \A k \in 0 .. m : f[k] \in A
  <2>1. Nat \subseteq T
    <3> HIDE DEF T
    <3> QED BY <1>14, <1>15, SetInduction
  <2> QED BY <1>0, <2>1
<1> QED BY <1>11, <1>12, <1>13, <1>16 DEF m, A, base

(* The two lists are the same, or the same as far as the limit.            *)
Same(b, w) ==
  /\ b \in Seq(Nat) /\ w \in Seq(Nat)
  /\ \/ b = w
     \/ /\ Limit <= Len(b) /\ Limit <= Len(w)
        /\ \A i \in 1 .. Limit : b[i] = w[i]

(* Two lists that are the same stay the same when both get a piece more.   *)
LEMMA SameOnward ==
  ASSUME NEW b, NEW w, Same(b, w), NEW p \in Seq(Nat), NEW k \in Nat
  PROVE  Same(IF Len(b) >= Limit /\ k > 1 THEN b ELSE Slice(b \o p, BufSize), w \o p)
<1> DEFINE x == w \o p
           y == b \o p
           z == Slice(y, BufSize)
<1>1. /\ b \in Seq(Nat) /\ w \in Seq(Nat) /\ Len(b) \in Nat /\ Len(w) \in Nat /\ Len(p) \in Nat
      /\ Limit \in Nat /\ BufSize \in Nat /\ Limit < BufSize
  BY LenProperties, RingAssumption DEF Same, Limit
<1>2. x \in Seq(Nat) /\ Len(x) = Len(w) + Len(p) /\ \A i \in 1 .. Len(w) : x[i] = w[i]
  BY <1>1, ConcatProperties
<1>3. y \in Seq(Nat) /\ Len(y) = Len(b) + Len(p) /\ \A i \in 1 .. Len(b) : y[i] = b[i]
  BY <1>1, ConcatProperties
<1>4. b = w => x = y
  OBVIOUS
<1> HIDE DEF x, y
<1>5. /\ z \in Seq(Nat) /\ Len(z) = Least(BufSize, Len(y))
      /\ \A i \in 1 .. Least(BufSize, Len(y)) : z[i] = y[i]
  BY <1>1, <1>3, SliceHolds
<1> HIDE DEF z
<1>6. CASE Len(b) >= Limit
  <2>1. Limit <= Len(b) /\ Limit <= Len(w) /\ \A i \in 1 .. Limit : b[i] = w[i]
    BY <1>1, <1>6 DEF Same
  <2>2. Limit <= Len(x) /\ Limit <= Len(y) /\ \A i \in 1 .. Limit : b[i] = x[i] /\ y[i] = x[i]
    <3>1. Limit <= Len(x) /\ Limit <= Len(y)
      BY <1>1, <1>2, <1>3, <2>1
    <3>2. ASSUME NEW i \in 1 .. Limit
          PROVE  b[i] = x[i] /\ y[i] = x[i]
      <4>1. i \in 1 .. Len(b) /\ i \in 1 .. Len(w)
        BY <1>1, <2>1
      <4> QED BY <1>2, <1>3, <2>1, <4>1
    <3> QED BY <3>1, <3>2
  <2>3. Same(b, x)
    BY <1>1, <1>2, <2>1, <2>2 DEF Same
  <2>4. Same(z, x)
    <3>1. Limit <= Len(z)
      BY <1>1, <1>3, <1>5, <2>2 DEF Least
    <3>2. \A i \in 1 .. Limit : z[i] = y[i]
      BY <1>1, <1>3, <1>5, <2>2 DEF Least
    <3> QED BY <1>2, <1>5, <2>2, <3>1, <3>2 DEF Same
  <2> QED BY <2>3, <2>4 DEF x, y, z
<1>7. CASE ~(Len(b) >= Limit)
  <2>1. x = y
    BY <1>1, <1>4, <1>7 DEF Same
  <2>2. CASE Len(y) <= BufSize
    <3>1. Len(z) = Len(y) /\ \A i \in 1 .. Len(z) : z[i] = y[i]
      BY <1>1, <1>3, <1>5, <2>2 DEF Least
    <3>2. z = y
      BY <1>3, <1>5, <3>1, SeqEqual
    <3> QED BY <1>2, <1>5, <1>7, <2>1, <3>2 DEF Same, x, y, z
  <2>3. CASE ~(Len(y) <= BufSize)
    <3>1. Limit <= Len(z) /\ Limit <= Len(x) /\ \A i \in 1 .. Limit : z[i] = x[i]
      BY <1>1, <1>3, <1>5, <2>1, <2>3 DEF Least
    <3>2. Same(z, x)
      BY <1>2, <1>5, <3>1 DEF Same
    <3> QED BY <1>7, <3>2 DEF x, y, z
  <2> QED BY <2>2, <2>3
<1> QED BY <1>6, <1>7

(* So what the loop writes and the list of what was logged are the same as *)
(* far as the limit.                                                       *)
LEMMA BodyIsList ==
  ASSUME RingInv
  PROVE  Same(Body, WholeList)
<1>1. PICK f : /\ f[0] = PushBytes(<<>>, <<ListBegin>>) /\ f[count] = Body
               /\ \A k \in 0 .. count : f[k] \in Seq(Nat)
               /\ \A k \in 0 .. count - 1 : f[k + 1] = Shorter(f[k], k + 1)
  BY BodyStepwise
<1>2. PICK g : /\ g[0] = <<ListBegin>> /\ g[count] = WholeList
               /\ \A k \in 0 .. count : g[k] \in Seq(Nat)
               /\ \A k \in 0 .. count - 1 : g[k + 1] = Longer(g[k], k + 1)
  BY ListStepwise
<1>0. count \in Nat
  BY LenProperties DEF RingInv
<1> DEFINE T == {k \in Nat : k <= count => Same(f[k], g[k])}
<1>3. 0 \in T
  BY <1>1, <1>2, BeginIsText DEF Same
<1>4. ASSUME NEW k \in Nat, k \in T
      PROVE  k + 1 \in T
  <2> SUFFICES ASSUME k + 1 <= count PROVE Same(f[k + 1], g[k + 1])
    OBVIOUS
  <2>1. k \in 0 .. count - 1 /\ k \in 0 .. count /\ k + 1 \in 1 .. count /\ k <= count
    BY <1>0
  <2>2. Same(f[k], g[k]) /\ f[k] \in Seq(Nat) /\ g[k] \in Seq(Nat)
    BY <1>1, <1>2, <1>4, <2>1
  <2>3. f[k + 1] = IF Len(f[k]) >= Limit /\ k + 1 > 1 THEN f[k]
                   ELSE Slice(f[k] \o Piece(k + 1), BufSize)
    BY <1>1, <2>1, <2>2, ShorterAdds
  <2>4. g[k + 1] = g[k] \o Piece(k + 1)
    BY <1>2, <2>1, <2>2, LongerAdds
  <2>5. Piece(k + 1) \in Seq(Nat)
    BY <2>1, PieceIsText
  <2> DEFINE b == f[k]
             w == g[k]
             p == Piece(k + 1)
             j == k + 1
  <2>6. Same(b, w) /\ p \in Seq(Nat) /\ j \in Nat
    BY <2>2, <2>5
  <2>7. Same(IF Len(b) >= Limit /\ j > 1 THEN b ELSE Slice(b \o p, BufSize), w \o p)
    <3> HIDE DEF b, w, p, j
    <3> QED BY <2>6, SameOnward
  <2> QED BY <2>3, <2>4, <2>7
<1>5. Same(f[count], g[count])
  <2>1. Nat \subseteq T
    <3> HIDE DEF T
    <3> QED BY <1>3, <1>4, SetInduction
  <2> QED BY <1>0, <2>1
<1> QED BY <1>1, <1>2, <1>5

(* Whatever was written, the mark at the end is not part of the front.     *)
LEMMA FrontOfEnd ==
  ASSUME NEW s \in Seq(Nat), Len(s) < BufSize
  PROVE  Front(PushBytes(s, <<ListEnd>>)) = s
<1> DEFINE e == <<ListEnd>>
           t == s \o e
<1>0. Len(s) \in Nat /\ BufSize \in Nat
  BY LenProperties, RingAssumption
<1>1. e \in Seq(Nat) /\ Len(e) = 1
  BY DEF ListEnd
<1> HIDE DEF e
<1>2. t \in Seq(Nat) /\ Len(t) = Len(s) + 1 /\ \A i \in 1 .. Len(s) : t[i] = s[i]
  <2>1. /\ t \in Seq(Nat) /\ Len(t) = Len(s) + Len(e)
        /\ \A i \in 1 .. Len(s) + Len(e) : t[i] = IF i <= Len(s) THEN s[i] ELSE e[i - Len(s)]
    BY <1>1, ConcatProperties
  <2>2. \A i \in 1 .. Len(s) : i \in 1 .. Len(s) + Len(e) /\ i <= Len(s)
    BY <1>0, <1>1
  <2> HIDE DEF t
  <2> QED BY <1>1, <2>1, <2>2
<1> HIDE DEF t
<1> DEFINE u == Slice(t, BufSize)
<1>3. /\ u \in Seq(Nat) /\ Len(u) = Least(BufSize, Len(t))
      /\ \A i \in 1 .. Least(BufSize, Len(t)) : u[i] = t[i]
  BY <1>0, <1>2, SliceHolds
<1>4. Least(BufSize, Len(t)) = Len(s) + 1
  BY <1>0, <1>2 DEF Least
<1> HIDE DEF u
<1>5. Len(u) = Len(s) + 1 /\ \A i \in 1 .. Len(s) : u[i] = s[i]
  BY <1>0, <1>2, <1>3, <1>4
<1> DEFINE v == SubSeq(u, 1, Len(u) - 1)
<1>6. Len(u) - 1 = Len(s)
  BY <1>0, <1>5
<1>7. \A i \in 1 .. Len(s) : u[i] \in Nat
  BY <1>5, ElementOfSeq
<1> DEFINE l == Len(s)
<1>8. /\ SubSeq(u, 1, l) \in Seq(Nat) /\ Len(SubSeq(u, 1, l)) = IF 1 <= l THEN l - 1 + 1 ELSE 0
      /\ \A i \in 1 .. l - 1 + 1 : SubSeq(u, 1, l)[i] = u[1 + i - 1]
  <2>1. l \in Nat /\ 1 \in Int /\ l \in Int /\ \A i \in 1 .. l : u[i] \in Nat
    BY <1>0, <1>7
  <2> HIDE DEF l
  <2> QED BY <2>1, SubSeqProperties
<1>9. v = SubSeq(u, 1, l)
  BY <1>6
<1> HIDE DEF v
<1>10. l \in Nat /\ l - 1 + 1 = l /\ \A i \in 1 .. l : 1 + i - 1 = i
  BY <1>0
<1> DEFINE r == SubSeq(u, 1, l)
<1>11. r \in Seq(Nat) /\ Len(r) = l /\ \A i \in 1 .. l : r[i] = u[i]
  <2>1. /\ r \in Seq(Nat) /\ Len(r) = IF 1 <= l THEN l - 1 + 1 ELSE 0
        /\ \A i \in 1 .. l - 1 + 1 : r[i] = u[1 + i - 1]
    BY <1>8
  <2> HIDE DEF r, l
  <2> QED BY <1>10, <2>1
<1> HIDE DEF r
<1>12. r = s
  BY <1>5, <1>11, SeqEqual
<1> QED BY <1>9, <1>12 DEF Front, PushBytes, u, t, e, v, r

(* When the ring holds the lines in their order, the answer shows them so. *)
LEMMA RenderedInOrder ==
  ASSUME RingInv
  PROVE  LogInOrder
<1>0. /\ Limit \in Nat /\ Limit < BufSize /\ BufSize \in Nat /\ 1 < BufSize
      /\ logged = <<>> <=> count = 0
  BY RingAssumption, EmptySeq DEF Limit, RingInv
<1>1. Same(Body, WholeList)
  BY BodyIsList
<1>2. CASE count > 0
  <2> DEFINE s == Slice(Body, Limit)
             w == Slice(WholeList, Limit)
  <2>0. /\ Body \in Seq(Nat) /\ WholeList \in Seq(Nat) /\ Len(Body) \in Nat
        /\ Len(WholeList) \in Nat
    BY <1>1, LenProperties DEF Same
  <2>1. /\ s \in Seq(Nat) /\ Len(s) = Least(Limit, Len(Body))
        /\ \A i \in 1 .. Least(Limit, Len(Body)) : s[i] = Body[i]
    BY <1>0, <2>0, SliceHolds
  <2>2. /\ w \in Seq(Nat) /\ Len(w) = Least(Limit, Len(WholeList))
        /\ \A i \in 1 .. Least(Limit, Len(WholeList)) : w[i] = WholeList[i]
    BY <1>0, <2>0, SliceHolds
  <2>3. s = w
    <3>1. CASE Body = WholeList
      BY <3>1
    <3>2. CASE Limit <= Len(Body) /\ Limit <= Len(WholeList) /\ \A i \in 1 .. Limit : Body[i] = WholeList[i]
      <4> HIDE DEF s, w
      <4>1. Least(Limit, Len(Body)) = Limit /\ Least(Limit, Len(WholeList)) = Limit
        BY <1>0, <2>0, <3>2 DEF Least
      <4> QED BY <2>1, <2>2, <3>2, <4>1, SeqEqual
    <3> QED BY <1>1, <3>1, <3>2 DEF Same
  <2>4. Len(s) < BufSize
    <3> HIDE DEF s
    <3> QED BY <1>0, <2>0, <2>1 DEF Least
  <2>5. Front(PushBytes(s, <<ListEnd>>)) = s
    <3> HIDE DEF s
    <3> QED BY <2>1, <2>4, FrontOfEnd
  <2>6. RenderLogJson = PushBytes(s, <<ListEnd>>)
    BY <1>2, BodyOfRender
  <2>7. ~(logged = <<>>)
    BY <1>0, <1>2
  <2> QED BY <2>3, <2>5, <2>6, <2>7 DEF LogInOrder, Limit
<1>3. CASE ~(count > 0)
  <2>1. count = 0
    BY <1>3, LenProperties DEF RingInv
  <2>2. Body = <<ListBegin>> /\ WholeList = <<ListBegin>>
    BY <2>1, BodyStepwise, ListStepwise, BeginIsText
  <2> DEFINE b == <<ListBegin>>
  <2>3. b \in Seq(Nat) /\ Len(b) = 1
    BY DEF ListBegin
  <2> HIDE DEF b
  <2>4. Front(PushBytes(b, <<ListEnd>>)) = b
    BY <1>0, <2>3, FrontOfEnd
  <2>5. Slice(b, 1) = b
    <3>1. Least(1, Len(b)) = 1
      BY <2>3 DEF Least
    <3>2. /\ Slice(b, 1) \in Seq(Nat) /\ Len(Slice(b, 1)) = Len(b)
          /\ \A i \in 1 .. Len(b) : Slice(b, 1)[i] = b[i]
      BY <2>3, <3>1, SliceHolds
    <3> QED BY <2>3, <3>2, SeqEqual
  <2>6. RenderLogJson = PushBytes(b, <<ListEnd>>)
    BY <1>3, <2>2, BodyOfRender DEF b
  <2> QED BY <1>0, <2>1, <2>2, <2>4, <2>5, <2>6 DEF LogInOrder, b
<1> QED BY <1>2, <1>3

(* A line that is logged takes the place of the oldest, and the ring holds *)
(* the last lines in their order.                                          *)
LEMMA RingStep ==
  ASSUME RingInv, LogNext
  PROVE  RingInv'
<1>0. RingMax \in Nat \ {0} /\ count \in Nat /\ Lines \subseteq Seq(Nat)
  BY LenProperties, RingAssumption DEF RingInv
<1>1. PICK line \in Lines : Log(line)
  BY DEF LogNext
<1> DEFINE at == (head + count) % RingMax
           new == <<line, uptime>>
           all == Append(logged, new)
           e == Recorded(new)
<1>2. /\ ring' = [ring EXCEPT ![at] = e] /\ uptime' = uptime + 1
      /\ logged' = SubSeq(all, Len(all) - Least(Len(all), RingMax) + 1, Len(all))
      /\ count < RingMax => count' = count + 1 /\ head' = head
      /\ ~(count < RingMax) => head' = (head + 1) % RingMax /\ count' = count
  BY <1>1 DEF Log, Push, Recorded
<1>3. /\ all \in Seq(Lines \X Nat) /\ Len(all) = count + 1
      /\ \A i \in 1 .. count : all[i] = logged[i]
      /\ all[count + 1] = new
  <2>1. new \in Lines \X Nat /\ logged \in Seq(Lines \X Nat) /\ count = Len(logged)
    BY DEF RingInv
  <2> HIDE DEF new
  <2> QED BY <2>1, AppendProperties
<1>4. /\ head \in 0 .. RingMax - 1 /\ (count < RingMax => head = 0) /\ count <= RingMax
      /\ DOMAIN ring = 0 .. RingMax - 1 /\ uptime' \in Nat
      /\ \A i \in 1 .. count : ring[(head + i - 1) % RingMax] = Recorded(logged[i])
  <2>1. uptime' \in Nat
    BY <1>2 DEF RingInv
  <2> HIDE DEF at, new, e
  <2> QED BY <2>1 DEF RingInv
<1> HIDE DEF all
<1>5. ASSUME NEW i \in 1 .. count + 1 PROVE all[i] \in Lines \X Nat
  BY <1>3, ElementOfSeq
<1>6. CASE count < RingMax
  <2>1. at = count
    <3>1. head + count = count /\ count \in 0 .. RingMax - 1
      BY <1>0, <1>4, <1>6
    <3> QED BY <1>0, <3>1, ModSmall
  <2>2. logged' = SubSeq(all, 1, count + 1)
    <3>1. Len(all) - Least(Len(all), RingMax) + 1 = 1
      BY <1>0, <1>3, <1>6 DEF Least
    <3> QED BY <1>2, <1>3, <3>1
  <2>3. /\ logged' \in Seq(Lines \X Nat) /\ Len(logged') = count + 1
        /\ \A i \in 1 .. count + 1 : logged'[i] = all[i]
    <3> DEFINE n == count + 1
               r == SubSeq(all, 1, n)
    <3>1. n \in Nat /\ 1 <= n /\ n - 1 + 1 = n /\ \A i \in 1 .. n : 1 + i - 1 = i
      BY <1>0
    <3>2. \A i \in 1 .. n : all[i] \in Lines \X Nat
      BY <1>5
    <3> HIDE DEF n
    <3>3. /\ r \in Seq(Lines \X Nat) /\ Len(r) = IF 1 <= n THEN n - 1 + 1 ELSE 0
          /\ \A i \in 1 .. n - 1 + 1 : r[i] = all[1 + i - 1]
      BY <3>1, <3>2, SubSeqProperties
    <3> HIDE DEF r
    <3>4. Len(r) = n /\ \A i \in 1 .. n : r[i] = all[i]
      BY <3>1, <3>3
    <3> QED BY <2>2, <3>3, <3>4 DEF n, r
  <2>4. ASSUME NEW i \in 1 .. count + 1
        PROVE  ring'[(head + i - 1) % RingMax] = Recorded(logged'[i])
    <3>1. i - 1 \in 0 .. RingMax - 1 /\ head + i - 1 = i - 1
      BY <1>0, <1>4, <1>6
    <3>2. (head + i - 1) % RingMax = i - 1
      BY <1>0, <3>1, ModSmall
    <3>3. CASE i = count + 1
      <4>1. i - 1 = count /\ at \in DOMAIN ring
        BY <1>0, <1>4, <1>6, <2>1, <3>3
      <4>2. ring'[at] = e
        BY <1>2, <4>1
      <4> QED BY <1>3, <2>1, <2>3, <3>2, <3>3, <4>1, <4>2
    <3>4. CASE i # count + 1
      <4>1. i \in 1 .. count /\ i - 1 # count /\ i - 1 \in DOMAIN ring
        BY <1>0, <1>4, <3>1, <3>4
      <4>2. ring'[i - 1] = ring[i - 1]
        BY <1>2, <2>1, <4>1
      <4> QED BY <1>3, <1>4, <2>3, <3>2, <4>1, <4>2
    <3> QED BY <3>3, <3>4
  <2>5. count' = count + 1 /\ head' = head /\ count + 1 <= RingMax
    BY <1>0, <1>2, <1>6
  <2>6. head = 0 /\ DOMAIN ring' = 0 .. RingMax - 1
    BY <1>2, <1>4, <1>6
  <2> QED BY <1>0, <1>4, <2>3, <2>4, <2>5, <2>6 DEF RingInv
<1>7. CASE ~(count < RingMax)
  <2>0. count = RingMax
    BY <1>0, <1>4, <1>7
  <2> DEFINE next == (head + 1) % RingMax
  <2>1. at = head
    <3>1. 1 * RingMax + head = head + RingMax /\ 1 \in Nat
      BY <1>0, <1>4
    <3>2. (1 * RingMax + head) % RingMax = head
      BY <1>0, <1>4, ModUnique
    <3> QED BY <2>0, <3>1, <3>2
  <2>2. logged' = SubSeq(all, 2, count + 1)
    <3>1. Len(all) - Least(Len(all), RingMax) + 1 = 2
      BY <1>0, <1>3, <2>0 DEF Least
    <3> QED BY <1>2, <1>3, <3>1
  <2>3. /\ logged' \in Seq(Lines \X Nat) /\ Len(logged') = count
        /\ \A i \in 1 .. count : logged'[i] = all[i + 1]
    <3> DEFINE n == count + 1
               r == SubSeq(all, 2, n)
    <3>1. n \in Nat /\ 2 <= n /\ n - 2 + 1 = count /\ \A i \in 1 .. count : 2 + i - 1 = i + 1
      BY <1>0, <2>0
    <3>2. \A i \in 2 .. n : all[i] \in Lines \X Nat
      BY <1>0, <1>5
    <3> HIDE DEF n
    <3>3. /\ r \in Seq(Lines \X Nat) /\ Len(r) = IF 2 <= n THEN n - 2 + 1 ELSE 0
          /\ \A i \in 1 .. n - 2 + 1 : r[i] = all[2 + i - 1]
      BY <3>1, <3>2, SubSeqProperties
    <3> HIDE DEF r
    <3>4. Len(r) = count /\ \A i \in 1 .. count : r[i] = all[i + 1]
      BY <3>1, <3>3
    <3> QED BY <2>2, <3>3, <3>4 DEF n, r
  <2>4. ASSUME NEW i \in 1 .. count
        PROVE  ring'[(next + i - 1) % RingMax] = Recorded(logged'[i])
    <3>1. (next + i - 1) % RingMax = (head + i) % RingMax
      <4>1. i - 1 \in Nat /\ head + 1 \in Nat /\ (head + 1) + (i - 1) = head + i
        BY <1>0, <1>4
      <4>2. ((head + 1) + (i - 1)) % RingMax = (((head + 1) % RingMax) + (i - 1)) % RingMax
        BY <1>0, <4>1, ModAdd
      <4>3. next \in Nat
        BY <1>0, <4>1, ModBounded
      <4> HIDE DEF next
      <4>4. next + i - 1 = next + (i - 1)
        BY <4>1, <4>3
      <4> QED BY <4>1, <4>2, <4>4 DEF next
    <3>2. CASE i = RingMax
      <4>1. ring'[head] = e
        BY <1>2, <1>4, <2>1
      <4>2. logged'[i] = new
        BY <1>3, <2>0, <2>3, <3>2
      <4> QED BY <2>0, <2>1, <3>1, <3>2, <4>1, <4>2
    <3>3. CASE i # RingMax
      <4> DEFINE x == (head + i) % RingMax
      <4>1. x # head /\ x \in 0 .. RingMax - 1
        <5>1. CASE head + i < RingMax
          <6>1. head + i \in 0 .. RingMax - 1 /\ head + i # head
            BY <1>0, <1>4, <5>1
          <6> QED BY <1>0, <6>1, ModSmall
        <5>2. CASE ~(head + i < RingMax)
          <6> DEFINE y == head + i - RingMax
          <6>1. y \in 0 .. RingMax - 1 /\ 1 * RingMax + y = head + i /\ y # head /\ 1 \in Nat
            BY <1>0, <1>4, <2>0, <3>3, <5>2
          <6> HIDE DEF y
          <6>2. (1 * RingMax + y) % RingMax = y
            BY <1>0, <6>1, ModUnique
          <6> QED BY <6>1, <6>2
        <5> QED BY <5>1, <5>2
      <4>2. i + 1 \in 1 .. count /\ head + (i + 1) - 1 = head + i
        BY <1>0, <1>4, <2>0, <3>3
      <4>3. ring[x] = Recorded(logged[i + 1])
        BY <1>4, <4>2
      <4> HIDE DEF x
      <4>4. ring'[x] = ring[x]
        BY <1>2, <1>4, <2>1, <4>1
      <4> QED BY <1>3, <2>3, <3>1, <4>2, <4>3, <4>4 DEF x
    <3> QED BY <3>2, <3>3
  <2>5. count' = count /\ head' = next /\ next \in 0 .. RingMax - 1
    <3>1. head + 1 \in Nat
      BY <1>4
    <3> QED BY <1>0, <1>2, <1>7, <3>1, ModBounded
  <2>6. DOMAIN ring' = 0 .. RingMax - 1
    BY <1>2, <1>4
  <2> HIDE DEF next
  <2> QED BY <1>4, <1>7, <2>3, <2>4, <2>5, <2>6 DEF RingInv
<1> QED BY <1>6, <1>7

(* For every size of ring and buffer, and whatever was logged, the answer  *)
(* is the list of the last lines in the order they were logged, up to      *)
(* where it is cut (web.rs:106-157).                                       *)
THEOREM LogIsInOrder == ManagementSpec => []LogInOrder
<1>1. ManagementInit => RingInv
  <2> SUFFICES ASSUME ManagementInit PROVE RingInv
    OBVIOUS
  <2>1. /\ ring = [i \in 0 .. RingMax - 1 |-> [time |-> 0, level |-> 0, msg |-> <<>>]]
        /\ head = 0 /\ count = 0 /\ uptime = 0 /\ logged = <<>>
    BY DEF ManagementInit, LogInit
  <2>2. logged \in Seq(Lines \X Nat) /\ Len(logged) = 0 /\ RingMax \in Nat \ {0}
    BY <2>1, EmptySeq, RingAssumption
  <2> QED BY <2>1, <2>2 DEF RingInv
<1>2. RingInv /\ [ManagementNext]_managementVars => RingInv'
  <2> SUFFICES ASSUME RingInv, [ManagementNext]_managementVars PROVE RingInv'
    OBVIOUS
  <2>1. CASE LogNext
    BY <2>1, RingStep
  <2>2. CASE UNCHANGED logVars
    BY <2>2 DEF logVars, RingInv
  <2> QED BY <2>1, <2>2 DEF ManagementNext, managementVars, Receives
<1>3. RingInv => LogInOrder
  BY RenderedInOrder
<1> QED BY <1>1, <1>2, <1>3, PTL DEF ManagementSpec

-----------------------------------------------------------------------------
(* The configuration. *)

(* Reading a text that was read makes no difference.                       *)
LEMMA CstrOf ==
  ASSUME NEW s \in Seq(Nat)
  PROVE  Cstr(s) \in Seq(Nat) /\ Len(Cstr(s)) <= Len(s) /\ Cstr(Cstr(s)) = Cstr(s)
<1> DEFINE c == CText(s)
<1>1. c \in Seq(Nat) /\ Len(c) <= Len(s) /\ Nul \notin ToSet(c)
  BY CTextOf
<1>2. CText(c) = c
  BY <1>1 DEF CText
<1>3. Len(s) \in Nat
  BY LenProperties
<1>4. CASE Malformed(c)
  <2>1. Cstr(s) = <<>>
    BY <1>4 DEF Cstr
  <2>2. <<>> \in Seq(Nat) /\ Len(<<>>) = 0 /\ DOMAIN <<>> = {}
    BY EmptySeq
  <2>3. CText(<<>>) = <<>>
    <3>1. Nul \notin ToSet(<<>>)
      BY <2>2 DEF ToSet
    <3> QED BY <3>1 DEF CText
  <2>4. ~Malformed(<<>>)
    BY <2>2 DEF Malformed
  <2>5. Cstr(<<>>) = <<>>
    BY <2>3, <2>4 DEF Cstr
  <2> QED BY <1>3, <2>1, <2>2, <2>5
<1>5. CASE ~Malformed(c)
  <2>1. Cstr(s) = c
    BY <1>5 DEF Cstr
  <2> HIDE DEF c
  <2>2. Cstr(c) = c
    BY <1>2, <1>5 DEF Cstr
  <2> QED BY <1>1, <2>1, <2>2
<1> QED BY <1>4, <1>5

(* The whole numbers that are no wider than an i64.                        *)
InWhole(n) == n \in Int /\ -(LongMod \div 2) <= n /\ n < LongMod \div 2

(* What lies between the ends of a narrower field does.                    *)
LEMMA NarrowInWhole ==
  ASSUME NEW n \in Int, NEW w \in Int, 2 * w <= LongMod, -w <= n, n < w
  PROVE  InWhole(n)
<1>1. LongMod \in Nat
  BY WidthAssumption
<1>2. w <= LongMod \div 2
  BY <1>1, SMT
<1> DEFINE h == LongMod \div 2
<1>3. h \in Int
  BY <1>1, SMT
<1> HIDE DEF h
<1>4. w <= h
  BY <1>2 DEF h
<1>5. -h <= n /\ n < h
  BY <1>3, <1>4, SMT
<1> QED BY <1>5 DEF InWhole, h

(* A whole number is read as it was written.                               *)
LEMMA WholeBack ==
  ASSUME NEW n, InWhole(n)
  PROVE  Whole(n * Thousand) = n
<1> DEFINE h == LongMod \div 2
           v == n * Thousand
           cut == IF v >= 0 THEN v \div Thousand ELSE -((-v) \div Thousand)
<1>1. h \in Int /\ n \in Int /\ -h <= n /\ n < h
  <2>1. LongMod \in Nat
    BY WidthAssumption
  <2>2. h \in Int
    BY <2>1, SMT
  <2> QED BY <2>2 DEF InWhole
<1>2. cut = n
  BY <1>1, SMT DEF Thousand
<1>3. Whole(v) = IF cut >= h THEN h - 1 ELSE IF cut < -h THEN -h ELSE cut
  BY DEF Whole
<1> HIDE DEF h, v, cut
<1>4. Whole(v) = n
  BY <1>1, <1>2, <1>3, SMT
<1> QED BY <1>4 DEF v

(* Rounding what is rounded makes no difference.                           *)
LEMMA NearestTwice ==
  ASSUME NEW v \in Int
  PROVE  /\ Nearest(v, 100) \in Int /\ Nearest(Nearest(v, 100), 100) = Nearest(v, 100)
         /\ Nearest(v, 10) \in Int /\ Nearest(Nearest(v, 10), 10) = Nearest(v, 10)
  BY SMT DEF Nearest

(* Rounding to tenths does not leave a range of whole tenths.              *)
LEMMA NearestInRange ==
  ASSUME NEW a \in Int, NEW b \in Int, NEW v \in a * 100 .. b * 100
  PROVE  Nearest(v, 100) \in a * 100 .. b * 100
  BY SMT DEF Nearest

(* What was read with a sign is read as the same with a sign.              *)
LEMMA SignedBack ==
  ASSUME NEW n \in Int, NEW w \in Nat \ {0}
  PROVE  /\ Signed(n, w) \in Int
         /\ Signed(Signed(n, w), w) = Signed(n, w)
<1> DEFINE r == n % w
           h == w \div 2
<1>1. r \in 0 .. w - 1 /\ h \in Nat
  BY SMT
<1>2. Signed(n, w) = IF r < h THEN r ELSE r - w
  BY DEF Signed
<1> HIDE DEF r, h
<1>3. r % w = r
  BY <1>1, ModSmall
<1>4. (r - w) % w = r
  BY <1>1, SMTT(30)
<1>5. \A x \in Int : Signed(x, w) = IF x % w < h THEN x % w ELSE (x % w) - w
  BY DEF Signed, h
<1> QED BY <1>1, <1>2, <1>3, <1>4, <1>5

(* A number with a sign is less than its width on either side.             *)
LEMMA SignedBetween ==
  ASSUME NEW n \in Int, NEW w \in Nat \ {0}, Signed(n, w) = n
  PROVE  -w <= n /\ n < w
<1> DEFINE r == n % w
           h == w \div 2
<1>1. r \in 0 .. w - 1 /\ h \in Nat
  BY SMT
<1>2. n = IF r < h THEN r ELSE r - w
  BY DEF Signed
<1> HIDE DEF r, h
<1> QED BY <1>1, <1>2

(* A number that was made a float is a float, as are the numbers between   *)
(* the largest ones.                                                       *)
LEMMA AsF32Back ==
  /\ AsF32(0) = 0
  /\ \A n \in Int : AsF32(n) \in Int /\ AsF32(AsF32(n)) = AsF32(n)
  /\ \A n \in Int : ~Infinite(n) => AsF32(n) = n
<1>1. F32Max \in Nat
  BY JsonAssumption
<1> QED BY <1>1 DEF AsF32, Infinite

(* Rounding to tenths makes nothing infinite: the largest float is whole.  *)
LEMMA NearestIsFinite ==
  ASSUME NEW v \in Int, ~Infinite(v)
  PROVE  ~Infinite(Nearest(v, 100))
<1> DEFINE k == F32Max \div 1000
<1>1. F32Max \in Nat /\ F32Max % 1000 = 0
  BY JsonAssumption
<1>2. k \in Nat /\ F32Max = 1000 * k
  BY <1>1, SMT
<1> DEFINE a == -(10 * k)
           b == 10 * k
<1>3. a \in Int /\ b \in Int /\ a * 100 = -F32Max /\ b * 100 = F32Max
  BY <1>2
<1> HIDE DEF k, a, b
<1>4. v \in a * 100 .. b * 100
  BY <1>1, <1>3 DEF Infinite
<1>5. Nearest(v, 100) \in a * 100 .. b * 100
  BY <1>3, <1>4, NearestInRange
<1> DEFINE y == Nearest(v, 100)
<1> HIDE DEF y
<1>6. y \in Int /\ -F32Max <= y /\ y <= F32Max
  BY <1>1, <1>3, <1>5 DEF y
<1> QED BY <1>1, <1>6 DEF Infinite, y

(* The values that a document may have and a parser reads.                 *)
ValuesOfJson == [number : Int] \cup [text : Seq(Nat)] \cup [truth : BOOLEAN]

(* The texts that are not longer than a buffer.                            *)
TextsUpTo(n) == {s \in Seq(Nat) : Len(s) <= n}

(* The fields that take a whole number.                                    *)
IntFields ==
  ByteKeys \cup PinKeys \cup HalfKeys \cup RateKeys
    \cup {"protocol", "region", "wifi_channel", "lock_level", "mavlink_usb_enable"}

(* What a field may hold.                                                  *)
Allowed(f) ==
  CASE f \in TextKeys -> TextsUpTo(StrLen)
    [] f = "public_key_1" -> TextsUpTo(KeyChars)
    [] f = "auth_private_key" -> TextsUpTo(SecretChars)
    [] f \in ByteKeys -> 0 .. ByteMod - 1
    [] f \in PinKeys -> {n \in Int : Signed(n, ByteMod) = n}
    [] f = "lighting_phase_0" -> {n \in Int : Signed(n, HalfMod) = n}
    [] f = "options" -> 0 .. HalfMod - 1
    [] f \in RateKeys -> 0 .. WordMod - 1
    [] f \in {"wifi_power_dbm", "ble4_rate_hz"} -> Lowest(f) .. Highest(f)
    [] f = "operator_alt" -> {n \in Int : AsF32(n) = n}
    [] f = "operator_lat" -> Int
    [] f = "protocol" -> (1 .. 4) \cup {255}
    [] f = "region" -> DOMAIN RegionTexts
    [] f = "wifi_channel" -> 1 .. 13
    [] f = "lock_level" -> 0 .. 2
    [] f = "mavlink_usb_enable" -> 0 .. 1

(* The same, field by field.                                               *)
LEMMA AllowedAre ==
  /\ \A f \in TextKeys : Allowed(f) = TextsUpTo(StrLen)
  /\ Allowed("public_key_1") = TextsUpTo(KeyChars)
  /\ Allowed("auth_private_key") = TextsUpTo(SecretChars)
  /\ \A f \in ByteKeys : Allowed(f) = 0 .. ByteMod - 1
  /\ \A f \in PinKeys : Allowed(f) = {n \in Int : Signed(n, ByteMod) = n}
  /\ Allowed("lighting_phase_0") = {n \in Int : Signed(n, HalfMod) = n}
  /\ Allowed("options") = 0 .. HalfMod - 1
  /\ \A f \in RateKeys : Allowed(f) = 0 .. WordMod - 1
  /\ \A f \in {"wifi_power_dbm", "ble4_rate_hz"} : Allowed(f) = Lowest(f) .. Highest(f)
  /\ Allowed("operator_alt") = {n \in Int : AsF32(n) = n}
  /\ Allowed("operator_lat") = Int
  /\ Allowed("protocol") = (1 .. 4) \cup {255}
  /\ Allowed("region") = DOMAIN RegionTexts
  /\ Allowed("wifi_channel") = 1 .. 13
  /\ Allowed("lock_level") = 0 .. 2
  /\ Allowed("mavlink_usb_enable") = 0 .. 1
  BY DEF Allowed, TextKeys, ByteKeys, PinKeys, RateKeys

(* What the field has on a new board.                                      *)
Factory(f) ==
     CASE f = "uas_id" -> <<1>> [] f = "wifi_ssid" -> DefaultSsid
       [] f \in {"public_key_1", "auth_private_key"} -> <<>>
       [] f = "id_type" -> 1 [] f = "tx_modes" -> 1
       [] f \in PinKeys -> -1 [] f \in HalfKeys -> 0
       [] f \in RateKeys -> DefaultRate
       [] f = "wifi_power_dbm" -> 20000 [] f = "ble4_rate_hz" -> 1000
       [] f = "protocol" -> 255 [] f = "wifi_channel" -> 6
       [] OTHER -> 0

(* The same, field by field.                                               *)
LEMMA FactoryIs ==
  /\ FactoryConfig = [f \in JsonFields |-> Factory(f)]
  /\ Factory("uas_id") = <<1>> /\ Factory("wifi_ssid") = DefaultSsid
  /\ Factory("public_key_1") = <<>> /\ Factory("auth_private_key") = <<>>
  /\ \A f \in ByteKeys : Factory(f) = 1
  /\ \A f \in PinKeys : Factory(f) = -1
  /\ \A f \in HalfKeys : Factory(f) = 0
  /\ \A f \in RateKeys : Factory(f) = DefaultRate
  /\ Factory("wifi_power_dbm") = 20000 /\ Factory("ble4_rate_hz") = 1000
  /\ Factory("protocol") = 255 /\ Factory("wifi_channel") = 6
  /\ \A f \in {"operator_alt", "operator_lat", "region", "lock_level", "mavlink_usb_enable"} :
       Factory(f) = 0
<1>1. FactoryConfig = [f \in JsonFields |-> Factory(f)]
  BY DEF FactoryConfig, Factory
<1>2. /\ Factory("uas_id") = <<1>> /\ Factory("wifi_ssid") = DefaultSsid
  /\ Factory("public_key_1") = <<>> /\ Factory("auth_private_key") = <<>>
  BY DEF Factory, ByteKeys, PinKeys, HalfKeys, RateKeys
<1>3. /\ \A f \in ByteKeys : Factory(f) = 1
  /\ \A f \in PinKeys : Factory(f) = -1
  BY DEF Factory, ByteKeys, PinKeys, HalfKeys, RateKeys
<1>4. /\ \A f \in HalfKeys : Factory(f) = 0
  /\ \A f \in RateKeys : Factory(f) = DefaultRate
  BY DEF Factory, ByteKeys, PinKeys, HalfKeys, RateKeys
<1>5. /\ Factory("wifi_power_dbm") = 20000 /\ Factory("ble4_rate_hz") = 1000
  /\ Factory("protocol") = 255 /\ Factory("wifi_channel") = 6
  BY DEF Factory, ByteKeys, PinKeys, HalfKeys, RateKeys
<1>6. \A f \in {"operator_alt", "operator_lat", "region", "lock_level", "mavlink_usb_enable"} :
       Factory(f) = 0
  BY DEF Factory, ByteKeys, PinKeys, HalfKeys, RateKeys
<1> QED BY <1>1, <1>2, <1>3, <1>4, <1>5, <1>6

(* What a field makes of a value, kind by kind (json.rs:42-300).           *)
LEMMA TakenIs ==
  ASSUME NEW f \in JsonFields, NEW v \in ValuesOfJson, NEW old
  PROVE  /\ f \in TextKeys \cup {"public_key_1", "auth_private_key"} =>
              Taken(f, v, old) = IF IsText(v) THEN Slice(v.text, Capacity(f)) ELSE old
         /\ f \in {"wifi_power_dbm", "ble4_rate_hz"} =>
              Taken(f, v, old) = IF IsNumber(v) /\ v.number \in Lowest(f) .. Highest(f)
                                 THEN v.number ELSE old
         /\ f = "operator_lat" =>
              Taken(f, v, old) = IF IsNumber(v) THEN v.number ELSE old
         /\ f = "operator_alt" =>
              Taken(f, v, old) = IF IsNumber(v) THEN AsF32(v.number) ELSE old
         /\ f \in IntFields \ {"region"} =>
              Taken(f, v, old) = IF IsNumber(v) THEN IntTaken(f, Whole(v.number), old) ELSE old
         /\ f = "region" =>
              Taken(f, v, old) = IF IsNumber(v) THEN IntTaken(f, Whole(v.number), old)
                                 ELSE IF IsText(v) /\ NamedRegions(v.text) # {}
                                 THEN CHOOSE r \in NamedRegions(v.text) : TRUE ELSE old
<1>0. ~(IsText(v) /\ IsNumber(v))
  BY DEF IsText, IsNumber, ValuesOfJson
<1>1. ASSUME f \in TextKeys \cup {"public_key_1", "auth_private_key"}
      PROVE  Taken(f, v, old) = IF IsText(v) THEN Slice(v.text, Capacity(f)) ELSE old
  BY <1>1, <1>0 DEF Taken, TextKeys, TenthKeys
<1>2. ASSUME f \in {"wifi_power_dbm", "ble4_rate_hz"}
      PROVE  Taken(f, v, old) = IF IsNumber(v) /\ v.number \in Lowest(f) .. Highest(f)
                                 THEN v.number ELSE old
  BY <1>2, <1>0 DEF Taken, TextKeys, TenthKeys
<1>3. ASSUME f = "operator_lat"
      PROVE  Taken(f, v, old) = IF IsNumber(v) THEN v.number ELSE old
  BY <1>3, <1>0 DEF Taken, TextKeys, TenthKeys
<1>6. ASSUME f = "operator_alt"
      PROVE  Taken(f, v, old) = IF IsNumber(v) THEN AsF32(v.number) ELSE old
  BY <1>6, <1>0 DEF Taken, TextKeys, TenthKeys
<1>4. ASSUME f \in IntFields \ {"region"}
      PROVE  Taken(f, v, old) = IF IsNumber(v) THEN IntTaken(f, Whole(v.number), old) ELSE old
  BY <1>4, <1>0 DEF Taken, TextKeys, TenthKeys, IntFields, ByteKeys, PinKeys, HalfKeys, RateKeys
<1>5. ASSUME f = "region"
      PROVE  Taken(f, v, old) = IF IsNumber(v) THEN IntTaken(f, Whole(v.number), old)
                                 ELSE IF IsText(v) /\ NamedRegions(v.text) # {}
                                 THEN CHOOSE r \in NamedRegions(v.text) : TRUE ELSE old
  BY <1>5, <1>0 DEF Taken, TextKeys, TenthKeys
<1> QED BY <1>1, <1>2, <1>3, <1>4, <1>5, <1>6

(* The value that is written for a field that holds x.                     *)
Written(f, x) ==
  CASE f \in TextKeys \cup {"public_key_1"} -> Text(Cstr(x))
       [] f = "region"             -> Text(RegionTexts[x])
       [] f \in TenthKeys             -> Num1(x)
       [] f = "operator_lat"       -> Num6(x)
       [] f = "mavlink_usb_enable" -> Truth(x = 1)
       [] OTHER                    -> Number(x * Thousand)

(* The same, kind by kind (json.rs:300-366).                               *)
LEMMA WrittenIs ==
  /\ \A c : Exported(c) = [f \in JsonFields \ {"auth_private_key"} |-> Written(f, c[f])]
  /\ \A x : \A f \in TextKeys \cup {"public_key_1"} : Written(f, x) = Text(Cstr(x))
  /\ \A x : Written("region", x) = Text(RegionTexts[x])
  /\ \A x : \A f \in TenthKeys : Written(f, x) = Num1(x)
  /\ \A x : Written("operator_lat", x) = Num6(x)
  /\ \A x : \A f \in IntFields \ {"region", "mavlink_usb_enable"} : Written(f, x) = Number(x * Thousand)
<1>1. \A c : Exported(c) = [f \in JsonFields \ {"auth_private_key"} |-> Written(f, c[f])]
  BY DEF Exported, Written
<1>2. /\ \A x : \A f \in TextKeys \cup {"public_key_1"} : Written(f, x) = Text(Cstr(x))
      /\ \A x : Written("region", x) = Text(RegionTexts[x])
  BY DEF Written, TextKeys, TenthKeys
<1>3. /\ \A x : \A f \in TenthKeys : Written(f, x) = Num1(x)
      /\ \A x : Written("operator_lat", x) = Num6(x)
  BY DEF Written, TextKeys, TenthKeys
<1>4. \A x : \A f \in IntFields \ {"region", "mavlink_usb_enable"} : Written(f, x) = Number(x * Thousand)
  BY DEF Written, TextKeys, TenthKeys, IntFields, ByteKeys, PinKeys, HalfKeys, RateKeys
<1> QED BY <1>1, <1>2, <1>3, <1>4

(* What a field makes of a whole number, kind by kind.                     *)
LEMMA IntTakenIs ==
  ASSUME NEW n, NEW old
  PROVE  /\ \A f \in ByteKeys : IntTaken(f, n, old) = n % ByteMod
         /\ \A f \in PinKeys : IntTaken(f, n, old) = Signed(n, ByteMod)
         /\ IntTaken("lighting_phase_0", n, old) = Signed(n, HalfMod)
         /\ IntTaken("options", n, old) = n % HalfMod
         /\ IntTaken("baud_rate", n, old) = IF n > 0 THEN n % WordMod ELSE old
         /\ IntTaken("start_delay_ms", n, old) = IF n >= 0 THEN n % WordMod ELSE old
         /\ IntTaken("wifi_channel", n, old) = IF n \in 1 .. 13 THEN n ELSE old
         /\ IntTaken("protocol", n, old) = IF n \in 1 .. 4 THEN n ELSE 255
         /\ IntTaken("region", n, old) = IF n \in DOMAIN RegionTexts THEN n ELSE old
         /\ IntTaken("lock_level", n, old) = IF n >= 2 THEN 2 ELSE IF n >= 1 THEN n ELSE 0
         /\ IntTaken("mavlink_usb_enable", n, old) = IF n # 0 THEN 1 ELSE 0
<1>1. /\ \A f \in ByteKeys : IntTaken(f, n, old) = n % ByteMod
      /\ \A f \in PinKeys : IntTaken(f, n, old) = Signed(n, ByteMod)
  BY DEF IntTaken, ByteKeys, PinKeys, Pin
<1>2. /\ IntTaken("lighting_phase_0", n, old) = Signed(n, HalfMod)
      /\ IntTaken("options", n, old) = n % HalfMod
      /\ IntTaken("baud_rate", n, old) = IF n > 0 THEN n % WordMod ELSE old
      /\ IntTaken("start_delay_ms", n, old) = IF n >= 0 THEN n % WordMod ELSE old
  BY DEF IntTaken, ByteKeys, PinKeys
<1>3. /\ IntTaken("wifi_channel", n, old) = IF n \in 1 .. 13 THEN n ELSE old
      /\ IntTaken("protocol", n, old) = IF n \in 1 .. 4 THEN n ELSE 255
      /\ IntTaken("region", n, old) = IF n \in DOMAIN RegionTexts THEN n ELSE old
  BY DEF IntTaken, ByteKeys, PinKeys
<1>4. /\ IntTaken("lock_level", n, old) = IF n >= 2 THEN 2 ELSE IF n >= 1 THEN n ELSE 0
      /\ IntTaken("mavlink_usb_enable", n, old) = IF n # 0 THEN 1 ELSE 0
  BY DEF IntTaken, ByteKeys, PinKeys
<1> QED BY <1>1, <1>2, <1>3, <1>4

(* A number is cut to the width of its field, if it does not fit it.       *)
LEMMA WidthsOfFields ==
  /\ ByteMod \in Nat \ {0, 1} /\ HalfMod \in Nat \ {0, 1} /\ WordMod \in Nat \ {0}
  /\ \A n \in Int : /\ n % ByteMod \in 0 .. ByteMod - 1 /\ n % HalfMod \in 0 .. HalfMod - 1
                    /\ n % WordMod \in 0 .. WordMod - 1
  /\ \A n \in 0 .. ByteMod - 1 : n % ByteMod = n
  /\ \A n \in 0 .. HalfMod - 1 : n % HalfMod = n
  /\ \A n \in 0 .. WordMod - 1 : n % WordMod = n
<1>1. ByteMod \in Nat \ {0, 1} /\ HalfMod \in Nat \ {0, 1} /\ WordMod \in Nat \ {0}
  BY JsonAssumption, WidthAssumption
<1>2. ASSUME NEW n \in Int, NEW w \in Nat \ {0}
      PROVE  n % w \in 0 .. w - 1
  BY SMT
<1>3. ASSUME NEW w \in Nat \ {0}, NEW n \in 0 .. w - 1
      PROVE  n % w = n
  BY ModSmall
<1>4. /\ \A n \in 0 .. ByteMod - 1 : n % ByteMod = n
      /\ \A n \in 0 .. HalfMod - 1 : n % HalfMod = n
      /\ \A n \in 0 .. WordMod - 1 : n % WordMod = n
  BY <1>1, <1>3
<1>5. ASSUME NEW n \in Int
      PROVE  /\ n % ByteMod \in 0 .. ByteMod - 1 /\ n % HalfMod \in 0 .. HalfMod - 1
             /\ n % WordMod \in 0 .. WordMod - 1
  BY <1>1, <1>2
<1> QED BY <1>1, <1>4, <1>5

(* Whatever the number, the field holds what it may hold.                  *)
LEMMA IntFits ==
  ASSUME NEW f \in IntFields, NEW n \in Int, NEW old \in Allowed(f)
  PROVE  IntTaken(f, n, old) \in Allowed(f)
<1>1. CASE f \in ByteKeys
  <2>1. Allowed(f) = 0 .. ByteMod - 1
    BY <1>1, AllowedAre
  <2>2. IntTaken(f, n, old) = n % ByteMod
    BY <1>1, IntTakenIs
  <2> QED BY <2>1, <2>2, WidthsOfFields
<1>2. CASE f \in PinKeys
  <2>1. Allowed(f) = {k \in Int : Signed(k, ByteMod) = k}
    BY <1>2, AllowedAre
  <2>2. IntTaken(f, n, old) = Signed(n, ByteMod)
    BY <1>2, IntTakenIs
  <2> QED BY <2>1, <2>2, SignedBack, WidthsOfFields
<1>3. CASE f = "lighting_phase_0"
  <2>1. Allowed(f) = {k \in Int : Signed(k, HalfMod) = k}
    BY <1>3, AllowedAre
  <2>2. IntTaken(f, n, old) = Signed(n, HalfMod)
    BY <1>3, IntTakenIs
  <2> QED BY <2>1, <2>2, SignedBack, WidthsOfFields
<1>4. CASE f = "options"
  <2>1. Allowed(f) = 0 .. HalfMod - 1
    BY <1>4, AllowedAre
  <2>2. IntTaken(f, n, old) = n % HalfMod
    BY <1>4, IntTakenIs
  <2> QED BY <2>1, <2>2, WidthsOfFields
<1>5. CASE f = "baud_rate"
  <2>1. Allowed(f) = 0 .. WordMod - 1
    BY <1>5, AllowedAre DEF RateKeys
  <2>2. IntTaken(f, n, old) = IF n > 0 THEN n % WordMod ELSE old
    BY <1>5, IntTakenIs
  <2> QED BY <2>1, <2>2, WidthsOfFields
<1>6. CASE f = "start_delay_ms"
  <2>1. Allowed(f) = 0 .. WordMod - 1
    BY <1>6, AllowedAre DEF RateKeys
  <2>2. IntTaken(f, n, old) = IF n >= 0 THEN n % WordMod ELSE old
    BY <1>6, IntTakenIs
  <2> QED BY <2>1, <2>2, WidthsOfFields
<1>7. CASE f = "wifi_channel"
  <2>1. Allowed(f) = 1 .. 13
    BY <1>7, AllowedAre
  <2>2. IntTaken(f, n, old) = IF n \in 1 .. 13 THEN n ELSE old
    BY <1>7, IntTakenIs
  <2> QED BY <2>1, <2>2
<1>8. CASE f = "protocol"
  <2>1. Allowed(f) = (1 .. 4) \cup {255}
    BY <1>8, AllowedAre
  <2>2. IntTaken(f, n, old) = IF n \in 1 .. 4 THEN n ELSE 255
    BY <1>8, IntTakenIs
  <2> QED BY <2>1, <2>2
<1>9. CASE f = "lock_level"
  <2>1. Allowed(f) = 0 .. 2
    BY <1>9, AllowedAre
  <2>2. IntTaken(f, n, old) = IF n >= 2 THEN 2 ELSE IF n >= 1 THEN n ELSE 0
    BY <1>9, IntTakenIs
  <2> QED BY <2>1, <2>2
<1>10. CASE f = "region"
  <2>1. Allowed(f) = DOMAIN RegionTexts
    BY <1>10, AllowedAre
  <2>2. IntTaken(f, n, old) = IF n \in DOMAIN RegionTexts THEN n ELSE old
    BY <1>10, IntTakenIs
  <2> QED BY <2>1, <2>2
<1>11. CASE f = "mavlink_usb_enable"
  <2>1. Allowed(f) = 0 .. 1
    BY <1>11, AllowedAre
  <2>2. IntTaken(f, n, old) = IF n # 0 THEN 1 ELSE 0
    BY <1>11, IntTakenIs
  <2> QED BY <2>1, <2>2
<1> QED BY <1>1, <1>2, <1>3, <1>4, <1>5, <1>6, <1>7, <1>8, <1>9, <1>10, <1>11
       DEF IntFields, HalfKeys, RateKeys

(* What a field may hold, it takes as it is.                               *)
LEMMA IntBack ==
  ASSUME NEW f \in IntFields \ {"region", "mavlink_usb_enable"}, NEW x \in Allowed(f),
         f = "baud_rate" => x # 0, NEW old
  PROVE  InWhole(x) /\ IntTaken(f, x, old) = x
<1>0. 2 * 256 <= LongMod /\ 2 * ByteMod <= LongMod /\ 2 * HalfMod <= LongMod
      /\ 2 * WordMod <= LongMod
  BY JsonAssumption
<1>1. CASE f \in ByteKeys
  <2>1. x \in 0 .. ByteMod - 1
    BY <1>1, AllowedAre
  <2>2. IntTaken(f, x, old) = x % ByteMod
    BY <1>1, IntTakenIs
  <2>3. InWhole(x)
    BY <1>0, <2>1, WidthsOfFields, NarrowInWhole
  <2> QED BY <2>1, <2>2, <2>3, WidthsOfFields
<1>2. CASE f \in PinKeys
  <2>1. x \in {k \in Int : Signed(k, ByteMod) = k}
    BY <1>2, AllowedAre
  <2>2. IntTaken(f, x, old) = Signed(x, ByteMod)
    BY <1>2, IntTakenIs
  <2>3. InWhole(x)
    <3>1. -ByteMod <= x /\ x < ByteMod
      BY <2>1, WidthsOfFields, SignedBetween
    <3> QED BY <1>0, <2>1, <3>1, WidthsOfFields, NarrowInWhole
  <2> QED BY <2>1, <2>2, <2>3
<1>3. CASE f = "lighting_phase_0"
  <2>1. x \in {k \in Int : Signed(k, HalfMod) = k}
    BY <1>3, AllowedAre
  <2>2. IntTaken(f, x, old) = Signed(x, HalfMod)
    BY <1>3, IntTakenIs
  <2>3. InWhole(x)
    <3>1. -HalfMod <= x /\ x < HalfMod
      BY <2>1, WidthsOfFields, SignedBetween
    <3> QED BY <1>0, <2>1, <3>1, WidthsOfFields, NarrowInWhole
  <2> QED BY <2>1, <2>2, <2>3
<1>4. CASE f = "options"
  <2>1. x \in 0 .. HalfMod - 1
    BY <1>4, AllowedAre
  <2>2. IntTaken(f, x, old) = x % HalfMod
    BY <1>4, IntTakenIs
  <2>3. InWhole(x)
    BY <1>0, <2>1, WidthsOfFields, NarrowInWhole
  <2> QED BY <2>1, <2>2, <2>3, WidthsOfFields
<1>5. CASE f = "baud_rate"
  <2>1. x \in 0 .. WordMod - 1
    BY <1>5, AllowedAre DEF RateKeys
  <2>2. IntTaken(f, x, old) = IF x > 0 THEN x % WordMod ELSE old
    BY <1>5, IntTakenIs
  <2>3. InWhole(x)
    BY <1>0, <2>1, WidthsOfFields, NarrowInWhole
  <2> QED BY <1>5, <2>1, <2>2, <2>3, WidthsOfFields
<1>6. CASE f = "start_delay_ms"
  <2>1. x \in 0 .. WordMod - 1
    BY <1>6, AllowedAre DEF RateKeys
  <2>2. IntTaken(f, x, old) = IF x >= 0 THEN x % WordMod ELSE old
    BY <1>6, IntTakenIs
  <2>3. InWhole(x)
    BY <1>0, <2>1, WidthsOfFields, NarrowInWhole
  <2> QED BY <2>1, <2>2, <2>3, WidthsOfFields
<1>7. CASE f = "wifi_channel"
  <2>1. x \in 1 .. 13
    BY <1>7, AllowedAre
  <2>2. IntTaken(f, x, old) = IF x \in 1 .. 13 THEN x ELSE old
    BY <1>7, IntTakenIs
  <2>3. InWhole(x)
    <3>1. x \in Int /\ -256 <= x /\ x < 256
      BY <2>1
    <3> QED BY <1>0, <3>1, NarrowInWhole
  <2> QED BY <2>1, <2>2, <2>3
<1>8. CASE f = "protocol"
  <2>1. x \in (1 .. 4) \cup {255}
    BY <1>8, AllowedAre
  <2>2. IntTaken(f, x, old) = IF x \in 1 .. 4 THEN x ELSE 255
    BY <1>8, IntTakenIs
  <2>3. InWhole(x)
    <3>1. x \in Int /\ -256 <= x /\ x < 256
      BY <2>1
    <3> QED BY <1>0, <3>1, NarrowInWhole
  <2> QED BY <2>1, <2>2, <2>3
<1>9. CASE f = "lock_level"
  <2>1. x \in 0 .. 2
    BY <1>9, AllowedAre
  <2>2. IntTaken(f, x, old) = IF x >= 2 THEN 2 ELSE IF x >= 1 THEN x ELSE 0
    BY <1>9, IntTakenIs
  <2>3. InWhole(x)
    <3>1. x \in Int /\ -256 <= x /\ x < 256
      BY <2>1
    <3> QED BY <1>0, <3>1, NarrowInWhole
  <2> QED BY <2>1, <2>2, <2>3
<1> QED BY <1>1, <1>2, <1>3, <1>4, <1>5, <1>6, <1>7, <1>8, <1>9 DEF IntFields, HalfKeys, RateKeys

(* On a new board every field holds what it may hold.                      *)
LEMMA FactoryFits ==
  ASSUME NEW f \in JsonFields
  PROVE  FactoryConfig[f] \in Allowed(f)
<1>0. FactoryConfig[f] = Factory(f)
  BY FactoryIs
<1>1. CASE f = "uas_id"
  <2>3. <<1>> \in TextsUpTo(StrLen)
    <3>1. <<1>> \in Seq(Nat) /\ Len(<<1>>) = 1 /\ 1 <= StrLen
      BY JsonAssumption
    <3> QED BY <3>1 DEF TextsUpTo
  <2>1. FactoryConfig[f] = <<1>>
    BY <1>0, <1>1, FactoryIs DEF TextKeys
  <2>2. Allowed(f) = TextsUpTo(StrLen)
    BY <1>1, AllowedAre DEF TextKeys
  <2> QED BY <2>1, <2>2, <2>3
<1>2. CASE f = "wifi_ssid"
  <2>1. FactoryConfig[f] = DefaultSsid
    BY <1>0, <1>2, FactoryIs DEF TextKeys
  <2>2. Allowed(f) = TextsUpTo(StrLen)
    BY <1>2, AllowedAre DEF TextKeys
  <2> QED BY <2>1, <2>2, JsonAssumption DEF TextsUpTo
<1>3. CASE f = "public_key_1"
  <2>1. FactoryConfig[f] = <<>>
    BY <1>0, <1>3, FactoryIs
  <2>2. Allowed(f) = TextsUpTo(KeyChars)
    BY <1>3, AllowedAre
  <2> QED BY <2>1, <2>2, EmptySeq, JsonAssumption DEF TextsUpTo
<1>4. CASE f = "auth_private_key"
  <2>1. FactoryConfig[f] = <<>>
    BY <1>0, <1>4, FactoryIs
  <2>2. Allowed(f) = TextsUpTo(SecretChars)
    BY <1>4, AllowedAre
  <2> QED BY <2>1, <2>2, EmptySeq, JsonAssumption DEF TextsUpTo
<1>5. CASE f \in ByteKeys
  <2>1. FactoryConfig[f] = 1
    BY <1>0, <1>5, FactoryIs
  <2>2. Allowed(f) = 0 .. ByteMod - 1
    BY <1>5, AllowedAre
  <2> QED BY <2>1, <2>2, WidthsOfFields
<1>6. CASE f \in PinKeys
  <2>3. Signed(-1, ByteMod) = -1
    <3>1. ByteMod \in Nat \ {0, 1}
      BY JsonAssumption
    <3>2. (-1) % ByteMod = ByteMod - 1
      BY <3>1, SMTT(30)
    <3>3. ~(ByteMod - 1 < ByteMod \div 2)
      BY <3>1, SMTT(30)
    <3> QED BY <3>1, <3>2, <3>3 DEF Signed
  <2>1. FactoryConfig[f] = -1
    BY <1>0, <1>6, FactoryIs
  <2>2. Allowed(f) = {n \in Int : Signed(n, ByteMod) = n}
    BY <1>6, AllowedAre
  <2> QED BY <2>1, <2>2, <2>3
<1>7. CASE f = "lighting_phase_0"
  <2>3. Signed(0, HalfMod) = 0
    <3>1. HalfMod \in Nat \ {0, 1}
      BY JsonAssumption
    <3>2. 0 % HalfMod = 0 /\ 0 < HalfMod \div 2
      BY <3>1, SMTT(30)
    <3> QED BY <3>1, <3>2 DEF Signed
  <2>1. FactoryConfig[f] = 0
    BY <1>0, <1>7, FactoryIs DEF HalfKeys
  <2>2. Allowed(f) = {n \in Int : Signed(n, HalfMod) = n}
    BY <1>7, AllowedAre DEF HalfKeys
  <2> QED BY <2>1, <2>2, <2>3
<1>8. CASE f = "options"
  <2>1. FactoryConfig[f] = 0
    BY <1>0, <1>8, FactoryIs DEF HalfKeys
  <2>2. Allowed(f) = 0 .. HalfMod - 1
    BY <1>8, AllowedAre DEF HalfKeys
  <2> QED BY <2>1, <2>2, WidthsOfFields
<1>9. CASE f \in RateKeys
  <2>1. FactoryConfig[f] = DefaultRate
    BY <1>0, <1>9, FactoryIs
  <2>2. Allowed(f) = 0 .. WordMod - 1
    BY <1>9, AllowedAre
  <2> QED BY <2>1, <2>2, JsonAssumption
<1>10. CASE f = "wifi_power_dbm"
  <2>1. FactoryConfig[f] = 20000
    BY <1>0, <1>10, FactoryIs
  <2>2. Allowed(f) = Lowest(f) .. Highest(f)
    BY <1>10, AllowedAre
  <2>3. Lowest(f) = 2000 /\ Highest(f) = 20000
    BY <1>10 DEF Lowest, Highest
  <2> QED BY <2>1, <2>2, <2>3
<1>11. CASE f = "ble4_rate_hz"
  <2>1. FactoryConfig[f] = 1000
    BY <1>0, <1>11, FactoryIs
  <2>2. Allowed(f) = Lowest(f) .. Highest(f)
    BY <1>11, AllowedAre
  <2>3. Lowest(f) = 0 /\ Highest(f) = 5000
    BY <1>11 DEF Lowest, Highest
  <2> QED BY <2>1, <2>2, <2>3
<1>12. CASE f = "protocol"
  <2>1. FactoryConfig[f] = 255
    BY <1>0, <1>12, FactoryIs
  <2>2. Allowed(f) = (1 .. 4) \cup {255}
    BY <1>12, AllowedAre
  <2> QED BY <2>1, <2>2
<1>13. CASE f = "wifi_channel"
  <2>1. FactoryConfig[f] = 6
    BY <1>0, <1>13, FactoryIs
  <2>2. Allowed(f) = 1 .. 13
    BY <1>13, AllowedAre
  <2> QED BY <2>1, <2>2
<1>14. CASE f = "lock_level"
  <2>1. FactoryConfig[f] = 0
    BY <1>0, <1>14, FactoryIs
  <2>2. Allowed(f) = 0 .. 2
    BY <1>14, AllowedAre
  <2> QED BY <2>1, <2>2
<1>15. CASE f = "mavlink_usb_enable"
  <2>1. FactoryConfig[f] = 0
    BY <1>0, <1>15, FactoryIs
  <2>2. Allowed(f) = 0 .. 1
    BY <1>15, AllowedAre
  <2> QED BY <2>1, <2>2
<1>16. CASE f \in {"operator_alt", "operator_lat"}
  <2>1. FactoryConfig[f] = 0
    BY <1>0, <1>16, FactoryIs
  <2>2. Allowed(f) = Int \/ Allowed(f) = {n \in Int : AsF32(n) = n}
    BY <1>16, AllowedAre
  <2> QED BY <2>1, <2>2, AsF32Back
<1>17. CASE f = "region"
  <2>1. FactoryConfig[f] = 0
    BY <1>0, <1>17, FactoryIs
  <2>2. Allowed(f) = DOMAIN RegionTexts
    BY <1>17, AllowedAre
  <2> QED BY <2>1, <2>2, JsonAssumption
<1> QED BY <1>1, <1>2, <1>3, <1>4, <1>5, <1>6, <1>7, <1>8, <1>9,
          <1>10, <1>11, <1>12, <1>13, <1>14, <1>15, <1>16, <1>17
       DEF JsonFields, TextKeys, HalfKeys, TenthKeys

(* A number, whole or not, has a whole part.                               *)
LEMMA NumberValue ==
  ASSUME NEW v \in ValuesOfJson, IsNumber(v)
  PROVE  v.number \in Int /\ Whole(v.number) \in Int
<1>1. v \in [number : Int]
  BY DEF ValuesOfJson, IsNumber
<1>2. v.number \in Int
  BY <1>1
<1> DEFINE n == v.number
<1>3. Whole(n) \in Int
  <2>1. n \in Int /\ LongMod \in Nat
    BY <1>2, WidthAssumption
  <2> HIDE DEF n
  <2> DEFINE h == LongMod \div 2
             cut == IF n >= 0 THEN n \div Thousand ELSE -((-n) \div Thousand)
  <2>2. h \in Int
    BY <2>1, SMT
  <2>3. cut \in Int
    BY <2>1, SMT DEF Thousand
  <2>4. Whole(n) = IF cut >= h THEN h - 1 ELSE IF cut < -h THEN -h ELSE cut
    BY DEF Whole
  <2> HIDE DEF h, cut
  <2> QED BY <2>2, <2>3, <2>4
<1> QED BY <1>2, <1>3

(* A text is a sequence of characters.                                     *)
LEMMA TextValue ==
  ASSUME NEW v \in ValuesOfJson, IsText(v)
  PROVE  v.text \in Seq(Nat)
  BY DEF ValuesOfJson, IsText

(* A text that was cut to a buffer fits it.                                *)
LEMMA SliceFits ==
  ASSUME NEW s \in Seq(Nat), NEW n \in Nat
  PROVE  Slice(s, n) \in TextsUpTo(n)
<1>1. Len(s) \in Nat
  BY LenProperties
<1>2. Slice(s, n) \in Seq(Nat) /\ Len(Slice(s, n)) = Least(n, Len(s))
  BY SliceHolds
<1> DEFINE c == Slice(s, n)
<1> HIDE DEF c
<1>3. c \in Seq(Nat) /\ Len(c) <= n
  BY <1>1, <1>2 DEF c, Least
<1> QED BY <1>3 DEF TextsUpTo, c

(* The fields that take a text.                                            *)
TextFields == TextKeys \cup {"public_key_1", "auth_private_key"}

(* The text fits the buffer that its field has.                            *)
LEMMA RoomForText ==
  ASSUME NEW f \in TextFields
  PROVE  Capacity(f) \in Nat /\ Allowed(f) = TextsUpTo(Capacity(f))
<1>1. CASE f \in TextKeys
  BY <1>1, AllowedAre, JsonAssumption DEF Capacity
<1>2. CASE f = "public_key_1"
  BY <1>2, AllowedAre, JsonAssumption DEF Capacity, TextKeys
<1>3. CASE f = "auth_private_key"
  BY <1>3, AllowedAre, JsonAssumption DEF Capacity, TextKeys
<1> QED BY <1>1, <1>2, <1>3 DEF TextFields

(* The limits of the power and of the rate are whole tenths.               *)
LEMMA RangeOfField ==
  ASSUME NEW f \in {"wifi_power_dbm", "ble4_rate_hz"}
  PROVE  \E a \in Int, b \in Int : Lowest(f) = a * 100 /\ Highest(f) = b * 100
<1>1. CASE f = "wifi_power_dbm"
  <2>1. Lowest(f) = 20 * 100 /\ Highest(f) = 200 * 100
    BY <1>1 DEF Lowest, Highest
  <2> QED BY <2>1
<1>2. CASE f = "ble4_rate_hz"
  <2>1. Lowest(f) = 0 * 100 /\ Highest(f) = 50 * 100
    BY <1>2 DEF Lowest, Highest
  <2> QED BY <2>1
<1> QED BY <1>1, <1>2

(* Whatever the value, the field holds what it may hold.                   *)
LEMMA TakenFits ==
  ASSUME NEW f \in JsonFields, NEW v \in ValuesOfJson, NEW old \in Allowed(f)
  PROVE  Taken(f, v, old) \in Allowed(f)
<1>1. CASE f \in TextFields
  <2>1. Taken(f, v, old) = IF IsText(v) THEN Slice(v.text, Capacity(f)) ELSE old
    BY <1>1, TakenIs DEF TextFields
  <2>2. IsText(v) => Slice(v.text, Capacity(f)) \in TextsUpTo(Capacity(f))
    BY <1>1, TextValue, RoomForText, SliceFits
  <2> QED BY <1>1, <2>1, <2>2, RoomForText
<1>2. CASE f \in {"wifi_power_dbm", "ble4_rate_hz"}
  <2>1. Taken(f, v, old) \in Lowest(f) .. Highest(f) \/ Taken(f, v, old) = old
    BY <1>2, TakenIs
  <2>2. Lowest(f) .. Highest(f) = Allowed(f)
    BY <1>2, AllowedAre
  <2> QED BY <2>1, <2>2
<1>3. CASE f = "operator_lat"
  <2>1. Taken(f, v, old) = IF IsNumber(v) THEN v.number ELSE old
    BY <1>3, TakenIs
  <2>2. Allowed(f) = Int
    BY <1>3, AllowedAre
  <2> QED BY <2>1, <2>2, NumberValue
<1>6. CASE f = "operator_alt"
  <2>1. Taken(f, v, old) = IF IsNumber(v) THEN AsF32(v.number) ELSE old
    BY <1>6, TakenIs
  <2>2. Allowed(f) = {n \in Int : AsF32(n) = n}
    BY <1>6, AllowedAre
  <2>3. IsNumber(v) => v.number \in Int
    BY NumberValue
  <2>4. IsNumber(v) => AsF32(v.number) \in {n \in Int : AsF32(n) = n}
    BY <2>3, AsF32Back
  <2> QED BY <2>1, <2>2, <2>4
<1>4. CASE f \in IntFields \ {"region"}
  <2>1. Taken(f, v, old) = IF IsNumber(v) THEN IntTaken(f, Whole(v.number), old) ELSE old
    BY <1>4, TakenIs
  <2> QED BY <1>4, <2>1, NumberValue, IntFits
<1>5. CASE f = "region"
  <2>1. f \in IntFields
    BY <1>5 DEF IntFields
  <2>2. CASE IsNumber(v)
    <3>1. Taken(f, v, old) = IntTaken(f, Whole(v.number), old)
      BY <1>5, <2>2, TakenIs
    <3> QED BY <2>1, <2>2, <3>1, NumberValue, IntFits
  <2>3. CASE ~IsNumber(v) /\ IsText(v) /\ NamedRegions(v.text) # {}
    <3> DEFINE r == CHOOSE r \in NamedRegions(v.text) : TRUE
    <3>1. Taken(f, v, old) = r
      BY <1>5, <2>3, TakenIs
    <3>2. r \in NamedRegions(v.text)
      <4> DEFINE S == NamedRegions(v.text)
      <4>1. S # {}
        BY <2>3
      <4> HIDE DEF S
      <4>2. (CHOOSE x \in S : TRUE) \in S
        BY <4>1
      <4> QED BY <4>2 DEF S
    <3>3. r \in DOMAIN RegionTexts
      BY <3>2 DEF NamedRegions
    <3> QED BY <1>5, <3>1, <3>3, AllowedAre
  <2>4. CASE ~IsNumber(v) /\ ~(IsText(v) /\ NamedRegions(v.text) # {})
    BY <1>5, <2>4, TakenIs
  <2> QED BY <2>2, <2>3, <2>4
<1> QED BY <1>1, <1>2, <1>3, <1>4, <1>5, <1>6
       DEF JsonFields, TextFields, TenthKeys, IntFields

(* The fields that ExportRestores is about.                                *)
RestoredFields == JsonFields \ {"auth_private_key", "mavlink_usb_enable"}

(* A value that is a number is no text ...                                 *)
LEMMA NumberBack ==
  ASSUME NEW n
  PROVE  IsNumber(Number(n)) /\ Number(n).number = n
  BY DEF IsNumber, Number

(* ... and one that is a text is no number.                                *)
LEMMA TextBack ==
  ASSUME NEW t
  PROVE  IsText(Text(t)) /\ Text(t).text = t /\ ~IsNumber(Text(t))
  BY DEF IsNumber, IsText, Text

(* A board that takes what another has written for a field writes the same *)
(* for it, whatever it held before.                                        *)
LEMMA WrittenBack ==
  ASSUME NEW f \in RestoredFields, NEW x \in Allowed(f), NEW old \in Allowed(f),
         f = "baud_rate" => x # 0, f = "operator_alt" => ~Infinite(x)
  PROVE  Written(f, Taken(f, Written(f, x), old)) = Written(f, x)
<1>0. f \in JsonFields
  BY DEF RestoredFields
<1>1. CASE f \in TextKeys \cup {"public_key_1"}
  <2>1. f \in TextFields
    BY <1>1 DEF TextFields
  <2> DEFINE t == Cstr(x)
  <2>2. x \in Seq(Nat) /\ Len(x) <= Capacity(f) /\ Capacity(f) \in Nat
    BY <2>1, RoomForText DEF TextsUpTo
  <2>3. t \in Seq(Nat) /\ Len(t) <= Len(x) /\ Cstr(t) = t
    BY <2>2, CstrOf
  <2>4. Len(t) <= Capacity(f)
    <3>1. Len(t) \in Nat /\ Len(x) \in Nat
      BY <2>2, <2>3, LenProperties
    <3> HIDE DEF t
    <3> QED BY <2>2, <2>3, <3>1
  <2>5. Written(f, x) = Text(t) /\ Written(f, t) = Text(Cstr(t))
    BY <1>1, WrittenIs
  <2> HIDE DEF t
  <2>6. Text(t) \in ValuesOfJson /\ IsText(Text(t)) /\ Text(t).text = t
    BY <2>3 DEF ValuesOfJson, IsText, Text
  <2>7. Taken(f, Text(t), old) = Slice(Text(t).text, Capacity(f))
    BY <1>0, <1>1, <2>6, TakenIs
  <2>8. Taken(f, Text(t), old) = t
    BY <2>2, <2>3, <2>4, <2>6, <2>7, WholeSlice
  <2> QED BY <2>3, <2>5, <2>8
<1>2. CASE f \in {"wifi_power_dbm", "ble4_rate_hz"}
  <2> DEFINE y == Nearest(x, 100)
  <2>1. x \in Lowest(f) .. Highest(f) /\ x \in Int /\ y \in Lowest(f) .. Highest(f) /\ y \in Int
    <3>1. x \in Lowest(f) .. Highest(f)
      BY <1>2, AllowedAre
    <3>2. PICK a \in Int, b \in Int : Lowest(f) = a * 100 /\ Highest(f) = b * 100
      BY <1>2, RangeOfField
    <3>3. y \in a * 100 .. b * 100
      BY <3>1, <3>2, NearestInRange
    <3> HIDE DEF y
    <3> QED BY <3>1, <3>2, <3>3
  <2>2. Nearest(y, 100) = y
    BY <2>1, NearestTwice
  <2>6. ~Infinite(x) /\ ~Infinite(y)
    <3>1. 0 <= Lowest(f) /\ Highest(f) <= 20000 /\ Lowest(f) \in Int /\ Highest(f) \in Int
      BY <1>2 DEF Lowest, Highest
    <3>2. F32Max \in Nat /\ 20000 <= F32Max
      BY JsonAssumption
    <3> HIDE DEF y
    <3> QED BY <2>1, <3>1, <3>2 DEF Infinite
  <2>3. Written(f, x) = Number(y) /\ Written(f, y) = Number(Nearest(y, 100))
    <3>1. f \in TenthKeys
      BY <1>2 DEF TenthKeys
    <3>2. Written(f, x) = Num1(x) /\ Written(f, y) = Num1(y)
      BY <3>1, WrittenIs
    <3> QED BY <2>6, <3>2 DEF Num1, Thousand
  <2> HIDE DEF y
  <2>4. Number(y) \in ValuesOfJson
    BY <2>1 DEF ValuesOfJson, Number
  <2>5. Taken(f, Number(y), old) = y
    <3>1. IsNumber(Number(y)) /\ Number(y).number = y
      BY NumberBack
    <3> DEFINE v == Number(y)
    <3>2. Taken(f, v, old) = IF IsNumber(v) /\ v.number \in Lowest(f) .. Highest(f)
                             THEN v.number ELSE old
      BY <1>0, <1>2, <2>4, TakenIs
    <3> QED BY <2>1, <3>1, <3>2
  <2> QED BY <2>2, <2>3, <2>5
<1>3. CASE f = "operator_alt"
  <2> DEFINE y == Nearest(x, 100)
  <2>1. x \in Int
    BY <1>3, AllowedAre
  <2>2. y \in Int /\ Nearest(y, 100) = y
    BY <2>1, NearestTwice
  <2>6. ~Infinite(x) /\ ~Infinite(y)
    BY <1>3, <2>1, NearestIsFinite
  <2>3. Written(f, x) = Number(y) /\ Written(f, y) = Number(Nearest(y, 100))
    <3>1. f \in TenthKeys
      BY <1>3 DEF TenthKeys
    <3>2. Written(f, x) = Num1(x) /\ Written(f, y) = Num1(y)
      BY <3>1, WrittenIs
    <3> QED BY <2>6, <3>2 DEF Num1, Thousand
  <2> HIDE DEF y
  <2>4. Number(y) \in ValuesOfJson
    BY <2>2 DEF ValuesOfJson, Number
  <2>5. Taken(f, Number(y), old) = y
    <3> DEFINE v == Number(y)
    <3>1. Taken(f, v, old) = IF IsNumber(v) THEN AsF32(v.number) ELSE old
      BY <1>0, <1>3, <2>4, TakenIs
    <3>2. AsF32(y) = y
      BY <2>2, <2>6, AsF32Back
    <3> QED BY <3>1, <3>2, NumberBack
  <2> QED BY <2>2, <2>3, <2>5
<1>4. CASE f = "operator_lat"
  <2> DEFINE y == Nearest(x, 10)
  <2>1. x \in Int
    BY <1>4, AllowedAre
  <2>2. y \in Int /\ Nearest(y, 10) = y
    BY <2>1, NearestTwice
  <2>3. Written(f, x) = Number(y) /\ Written(f, y) = Number(Nearest(y, 10))
    <3>1. Written(f, x) = Num6(x) /\ Written(f, y) = Num6(y)
      BY <1>4, WrittenIs
    <3> QED BY <3>1 DEF Num6, Thousand
  <2> HIDE DEF y
  <2>4. Number(y) \in ValuesOfJson
    BY <2>2 DEF ValuesOfJson, Number
  <2>5. Taken(f, Number(y), old) = y
    <3> DEFINE v == Number(y)
    <3>1. Taken(f, v, old) = IF IsNumber(v) THEN v.number ELSE old
      BY <1>0, <1>4, <2>4, TakenIs
    <3> QED BY <3>1, NumberBack
  <2> QED BY <2>2, <2>3, <2>5
<1>5. CASE f \in IntFields \ {"region", "mavlink_usb_enable"}
  <2>1. InWhole(x) /\ x \in Int /\ IntTaken(f, x, old) = x
    BY <1>5, IntBack DEF InWhole
  <2>2. Written(f, x) = Number(x * Thousand)
    BY <1>5, WrittenIs
  <2> DEFINE v == Number(x * Thousand)
  <2>3. v \in ValuesOfJson /\ IsNumber(v) /\ v.number = x * Thousand
    <3>1. x * Thousand \in Int
      BY <2>1 DEF Thousand
    <3> QED BY <3>1, NumberBack DEF ValuesOfJson, Number
  <2>4. Whole(v.number) = x
    BY <2>1, <2>3, WholeBack
  <2>5. Taken(f, v, old) = IF IsNumber(v) THEN IntTaken(f, Whole(v.number), old) ELSE old
    BY <1>0, <1>5, <2>3, TakenIs
  <2>6. Taken(f, v, old) = x
    BY <2>1, <2>3, <2>4, <2>5
  <2> QED BY <2>2, <2>6
<1>6. CASE f = "region"
  <2>1. x \in DOMAIN RegionTexts
    BY <1>6, AllowedAre
  <2>2. NamedRegions(RegionTexts[x]) = {x}
    BY <2>1, RegionAssumption
  <2> DEFINE v == Text(RegionTexts[x])
  <2>3. Written(f, x) = v
    BY <1>6, WrittenIs
  <2>4. Taken(f, v, old) = x
    <3>1. IsText(v) /\ v.text = RegionTexts[x] /\ ~IsNumber(v)
      BY TextBack
    <3>2. ~(IsNumber(v) /\ f \in {"wifi_power_dbm"})
      BY <3>1
    <3>3. Taken(f, v, old) = CHOOSE r \in NamedRegions(v.text) : TRUE
      <4>1. NamedRegions(v.text) # {}
        BY <2>2, <3>1
      <4> HIDE DEF v
      <4> QED BY <1>6, <3>1, <4>1 DEF Taken, TextKeys
    <3>4. (CHOOSE r \in {x} : TRUE) = x
      OBVIOUS
    <3> HIDE DEF v
    <3> QED BY <2>2, <3>1, <3>3, <3>4
  <2> QED BY <2>3, <2>4
<1> QED BY <1>1, <1>2, <1>3, <1>4, <1>5, <1>6
       DEF RestoredFields, JsonFields, TenthKeys, IntFields

(* Nothing but an infinite altitude is written in a way that is no JSON.   *)
LEMMA NeverBare ==
  ASSUME NEW f \in JsonFields \ {"auth_private_key"}, NEW x \in Allowed(f),
         f = "operator_alt" => ~Infinite(x)
  PROVE  Written(f, x) # Bare
<1>1. \A y : Text(y) # Bare /\ Number(y) # Bare /\ Truth(y) # Bare
  BY DEF Text, Number, Truth, Bare
<1>2. CASE f \in TenthKeys
  <2>1. ~Infinite(x)
    <3>1. CASE f = "operator_alt"
      BY <3>1
    <3>2. CASE f \in {"wifi_power_dbm", "ble4_rate_hz"}
      <4>1. x \in Lowest(f) .. Highest(f)
        BY <3>2, AllowedAre
      <4>2. 0 <= Lowest(f) /\ Highest(f) <= 20000 /\ Lowest(f) \in Int /\ Highest(f) \in Int
        BY <3>2 DEF Lowest, Highest
      <4>3. F32Max \in Nat /\ 20000 <= F32Max
        BY JsonAssumption
      <4> QED BY <4>1, <4>2, <4>3 DEF Infinite
    <3> QED BY <1>2, <3>1, <3>2 DEF TenthKeys
  <2>2. Written(f, x) = Num1(x)
    BY <1>2, WrittenIs
  <2> QED BY <1>1, <2>1, <2>2 DEF Num1
<1>3. CASE f \notin TenthKeys
  <2>1. \/ Written(f, x) = Text(Cstr(x)) \/ Written(f, x) = Text(RegionTexts[x])
        \/ Written(f, x) = Num6(x) \/ Written(f, x) = Truth(x = 1)
        \/ Written(f, x) = Number(x * Thousand)
    BY <1>3 DEF Written
  <2> QED BY <1>1, <2>1 DEF Num6
<1> QED BY <1>2, <1>3

(* While nothing was handed over, every field of both boards holds what it *)
(* may hold.                                                               *)
BoardsFit ==
  /\ boards \in [{"own", "other"} -> [JsonFields -> UNION {Allowed(f) : f \in JsonFields}]]
  /\ \A b \in {"own", "other"}, f \in JsonFields : boards[b][f] \in Allowed(f)

(* Afterwards the documents agree, and nothing changes any more.           *)
JsonInv == IF exported = None THEN BoardsFit ELSE ExportRestores

(* Every step keeps that.                                                  *)
LEMMA JsonStep ==
  ASSUME JsonInv, JsonNext
  PROVE  JsonInv'
<1>0. exported = None /\ BoardsFit
  BY DEF JsonInv, JsonNext
<1>1. ASSUME NEW b \in DOMAIN boards, NEW g \in JsonFields, NEW v \in JsonValues,
             PostField(b, g, v)
      PROVE  JsonInv'
  <2>0. exported' = None /\ b \in {"own", "other"} /\ v \in ValuesOfJson
    BY <1>0, <1>1, JsonAssumption DEF PostField, BoardsFit, ValuesOfJson
  <2> DEFINE c == boards[b]
             d == Applied(c, [h \in {g} |-> v])
  <2>1. boards' = [boards EXCEPT ![b] = d]
    BY <1>1 DEF PostField
  <2>8. d = [f \in JsonFields |-> IF f = g THEN Taken(f, v, c[f]) ELSE c[f]]
    <3> DEFINE doc == [h \in {g} |-> v]
    <3>1. DOMAIN doc = {g} /\ doc[g] = v
      OBVIOUS
    <3>2. v # Bare
      BY <2>0 DEF ValuesOfJson, Bare
    <3> HIDE DEF doc
    <3>3. Readable(doc)
      BY <3>1, <3>2 DEF Readable
    <3>4. Applied(c, doc)
            = [f \in JsonFields |-> IF f \in DOMAIN doc THEN Taken(f, doc[f], c[f]) ELSE c[f]]
      BY <3>3 DEF Applied
    <3> QED BY <3>1, <3>4 DEF doc
  <2>2. \A f \in JsonFields : d[f] = IF f = g THEN Taken(f, v, c[f]) ELSE c[f]
    <3> HIDE DEF d
    <3> QED BY <2>8
  <2>3. d = [f \in JsonFields |-> d[f]]
    <3> HIDE DEF d
    <3> QED BY <2>8
  <2>4. \A f \in JsonFields : c[f] \in Allowed(f)
    BY <1>0, <2>0 DEF BoardsFit
  <2> HIDE DEF c, d
  <2>5. \A f \in JsonFields : d[f] \in Allowed(f)
    BY <2>0, <2>2, <2>4, TakenFits
  <2>6. d \in [JsonFields -> UNION {Allowed(f) : f \in JsonFields}]
    BY <2>3, <2>5
  <2>7. BoardsFit'
    BY <1>0, <2>0, <2>1, <2>5, <2>6 DEF BoardsFit
  <2> QED BY <2>0, <2>7 DEF JsonInv
<1>2. CASE HandOver
  <2> DEFINE c == boards.own
             o == boards.other
             doc == Exported(c)
             d == Applied(o, doc)
  <2>1. exported' = Some(doc) /\ boards' = [boards EXCEPT !.other = d]
    BY <1>2 DEF HandOver, Some
  <2>2. boards'.own = c /\ boards'.other = d
    BY <1>0, <2>1 DEF BoardsFit
  <2>3. \A f \in JsonFields : c[f] \in Allowed(f) /\ o[f] \in Allowed(f)
    BY <1>0 DEF BoardsFit
  <2>4. doc = [f \in JsonFields \ {"auth_private_key"} |-> Written(f, c[f])]
    BY WrittenIs
  <2>5. Exported(d) = [f \in JsonFields \ {"auth_private_key"} |-> Written(f, d[f])]
    BY WrittenIs
  <2>6. ASSUME ~Infinite(c.operator_alt)
        PROVE  \A f \in RestoredFields : d[f] = Taken(f, Written(f, c[f]), o[f])
    <3>0. d = Applied(o, doc)
      OBVIOUS
    <3> HIDE DEF c, o, doc, d
    <3>1. Readable(doc)
      <4>1. ASSUME NEW f \in JsonFields \ {"auth_private_key"}
            PROVE  Written(f, c[f]) # Bare
        BY <2>3, <2>6, <4>1, NeverBare
      <4> QED BY <2>4, <4>1 DEF Readable
    <3>2. d = [f \in JsonFields |-> IF f \in DOMAIN doc THEN Taken(f, doc[f], o[f]) ELSE o[f]]
      BY <3>0, <3>1 DEF Applied
    <3>3. ASSUME NEW f \in RestoredFields
          PROVE  d[f] = Taken(f, Written(f, c[f]), o[f])
      <4>1. f \in JsonFields /\ f \in JsonFields \ {"auth_private_key"}
        BY DEF RestoredFields
      <4>2. f \in DOMAIN doc /\ doc[f] = Written(f, c[f])
        BY <2>4, <4>1
      <4> QED BY <3>2, <4>1, <4>2
    <3> QED BY <3>3
  <2> HIDE DEF c, o, doc, d
  <2>7. ASSUME ~Infinite(c.operator_alt), NEW f \in RestoredFields, f = "baud_rate" => c[f] # 0
        PROVE  Exported(d)[f] = doc[f]
    <3>1. f \in JsonFields \ {"auth_private_key"}
      BY DEF RestoredFields
    <3>2. Exported(d)[f] = Written(f, d[f]) /\ doc[f] = Written(f, c[f])
      BY <2>4, <2>5, <3>1
    <3>3. Written(f, Taken(f, Written(f, c[f]), o[f])) = Written(f, c[f])
      BY <2>3, <2>7, <3>1, WrittenBack
    <3> QED BY <2>6, <2>7, <3>2, <3>3
  <2>8. exported' # None /\ exported'.some = doc
    BY <2>1 DEF Some, None
  <2>9. ExportRestores'
    BY <2>2, <2>7, <2>8 DEF ExportRestores, HandedOver, RestoredFields
  <2> QED BY <2>8, <2>9 DEF JsonInv
<1> QED BY <1>1, <1>2 DEF JsonNext

(* Whatever was posted to either of two boards, the document of the one    *)
(* makes the other hand out the same document, for every width, table of   *)
(* regions and size of buffer (json.rs:42-366).                            *)
THEOREM ExportsAreRestored == ManagementSpec => []ExportRestores
<1>1. ManagementInit => JsonInv
  <2> SUFFICES ASSUME ManagementInit PROVE JsonInv
    OBVIOUS
  <2>1. exported = None /\ boards = [b \in {"own", "other"} |-> FactoryConfig]
    BY DEF ManagementInit, JsonInit
  <2>2. \A f \in JsonFields : FactoryConfig[f] \in Allowed(f)
    BY FactoryFits
  <2>3. FactoryConfig = [f \in JsonFields |-> FactoryConfig[f]]
    BY DEF FactoryConfig
  <2>4. FactoryConfig \in [JsonFields -> UNION {Allowed(f) : f \in JsonFields}]
    BY <2>2, <2>3
  <2> QED BY <2>1, <2>2, <2>4 DEF JsonInv, BoardsFit
<1>2. JsonInv /\ [ManagementNext]_managementVars => JsonInv'
  <2> SUFFICES ASSUME JsonInv, [ManagementNext]_managementVars PROVE JsonInv'
    OBVIOUS
  <2>1. CASE JsonNext
    BY <2>1, JsonStep
  <2>2. CASE UNCHANGED jsonVars
    BY <2>2 DEF jsonVars, JsonInv, BoardsFit, ExportRestores, HandedOver
  <2> QED BY <2>1, <2>2 DEF ManagementNext, managementVars, Receives
<1>3. JsonInv => ExportRestores
  BY DEF JsonInv, ExportRestores, HandedOver
<1> QED BY <1>1, <1>2, <1>3, PTL DEF ManagementSpec

-----------------------------------------------------------------------------
(* The command line. *)

(* a and b leave the same remainder.                                       *)
Alike(a, b, m) == a \in Int /\ b \in Int /\ \E q \in Int : a = b + q * m

LEMMA AlikeRules ==
  ASSUME NEW m \in Nat \ {0}
  PROVE  /\ \A a \in Int : Alike(a, a, m)
         /\ \A a, b, c : Alike(a, b, m) /\ Alike(b, c, m) => Alike(a, c, m)
         /\ \A a, b : Alike(a, b, m) => Alike(-a, -b, m)
         /\ \A a, b : \A r, d \in Int : Alike(a, b, m) => Alike(a * r + d, b * r + d, m)
<1>1. ASSUME NEW a \in Int PROVE Alike(a, a, m)
  <2>1. a = a + 0 * m /\ 0 \in Int
    OBVIOUS
  <2> QED BY <2>1 DEF Alike
<1>2. ASSUME NEW a, NEW b, NEW c, Alike(a, b, m), Alike(b, c, m) PROVE Alike(a, c, m)
  <2>1. PICK p \in Int : a = b + p * m
    BY <1>2 DEF Alike
  <2>2. PICK q \in Int : b = c + q * m
    BY <1>2 DEF Alike
  <2>3. a \in Int /\ c \in Int /\ p + q \in Int
    BY <1>2 DEF Alike
  <2>4. (p + q) * m = p * m + q * m
    OBVIOUS
  <2>5. p * m \in Int /\ q * m \in Int
    OBVIOUS
  <2> DEFINE x == p * m
             y == q * m
             z == (p + q) * m
  <2>6. a = b + x /\ b = c + y /\ z = x + y /\ x \in Int /\ y \in Int
    BY <2>1, <2>2, <2>4, <2>5
  <2> HIDE DEF x, y, z
  <2>7. a = c + z
    BY <2>3, <2>6
  <2> QED BY <2>3, <2>7 DEF Alike, z
<1>3. ASSUME NEW a, NEW b, Alike(a, b, m) PROVE Alike(-a, -b, m)
  <2>1. PICK q \in Int : a = b + q * m
    BY <1>3 DEF Alike
  <2>2. a \in Int /\ b \in Int /\ -a \in Int /\ -b \in Int /\ -q \in Int
    BY <1>3 DEF Alike
  <2>3. (-q) * m = -(q * m) /\ q * m \in Int
    OBVIOUS
  <2>4. -a = -b + (-q) * m
    BY <2>1, <2>2, <2>3
  <2> QED BY <2>2, <2>4 DEF Alike
<1>4. ASSUME NEW a, NEW b, NEW r \in Int, NEW d \in Int, Alike(a, b, m)
      PROVE  Alike(a * r + d, b * r + d, m)
  <2>1. PICK q \in Int : a = b + q * m
    BY <1>4 DEF Alike
  <2>2. a \in Int /\ b \in Int /\ q * r \in Int /\ a * r + d \in Int /\ b * r + d \in Int
    BY <1>4 DEF Alike
  <2>3. (b + q * m) * r + d = b * r + d + (q * r) * m
    BY <2>2
  <2> QED BY <2>1, <2>2, <2>3 DEF Alike
<1> QED BY <1>1, <1>2, <1>3, <1>4

(* A remainder, with or without sign, is like the number.                  *)
LEMMA RemainderAlike ==
  ASSUME NEW n \in Int, NEW m \in Nat \ {0}
  PROVE  /\ n % m \in 0 .. m - 1 /\ Alike(n, n % m, m)
         /\ Signed(n, m) \in Int /\ Alike(n, Signed(n, m), m) /\ Alike(Signed(n, m), n, m)
<1> DEFINE q == n \div m
           r == n % m
           h == m \div 2
<1>1. q \in Int /\ r \in 0 .. m - 1 /\ n = q * m + r
  BY SMTT(60)
<1>2. Signed(n, m) = IF r < h THEN r ELSE r - m
  BY DEF Signed
<1> HIDE DEF q, r, h
<1>3. r \in Int /\ q * m \in Int /\ n = r + q * m
  BY <1>1
<1>4. n = (r - m) + (q + 1) * m /\ q + 1 \in Int /\ r - m \in Int
  <2>1. (q + 1) * m = q * m + m
    BY <1>1
  <2> QED BY <1>1, <1>3, <2>1
<1>5. r = n + (-q) * m /\ r - m = n + (-(q + 1)) * m /\ -q \in Int /\ -(q + 1) \in Int
  <2>1. (-q) * m = -(q * m) /\ (-(q + 1)) * m = -(q * m) - m
    BY <1>1
  <2> QED BY <1>1, <1>3, <2>1
<1>6. Alike(n, r, m) /\ Alike(n, r - m, m) /\ Alike(r, n, m) /\ Alike(r - m, n, m)
  BY <1>1, <1>3, <1>4, <1>5 DEF Alike
<1> QED BY <1>1, <1>2, <1>3, <1>4, <1>6 DEF r

(* What is alike in the wider width is so in the narrower one.             *)
LEMMA NarrowAlike ==
  ASSUME NEW m \in Nat \ {0}, NEW w \in Nat \ {0}, w % m = 0, NEW a, NEW b, Alike(a, b, w)
  PROVE  Alike(a, b, m)
<1> DEFINE k == w \div m
<1>1. k \in Int /\ w = k * m
  <2>1. k \in Nat /\ w = k * m + (w % m)
    BY DivMod
  <2> HIDE DEF k
  <2>2. k * m \in Int
    BY <2>1
  <2> QED BY <2>1, <2>2
<1> HIDE DEF k
<1>2. PICK q \in Int : a = b + q * w
  BY DEF Alike
<1>3. q * (k * m) = (q * k) * m /\ q * k \in Int
  BY <1>1
<1>4. a = b + (q * k) * m
  BY <1>1, <1>2, <1>3
<1> QED BY <1>3, <1>4 DEF Alike

(* The difference of what is alike leaves nothing.                         *)
LEMMA AlikeLeavesNothing ==
  ASSUME NEW m \in Nat \ {0}, NEW a, NEW b, Alike(a, b, m)
  PROVE  (a - b) % m = 0
<1>1. PICK q \in Int : a = b + q * m
  BY DEF Alike
<1>2. a \in Int /\ b \in Int /\ q * m \in Int
  BY <1>1 DEF Alike
<1>3. a - b = q * m
  BY <1>1, <1>2
<1>4. (q * m) % m = 0
  BY SMTT(60)
<1> QED BY <1>3, <1>4

(* The digits are taken one after another, and what they make keeps to     *)
(* i64.                                                                    *)
Accumulates(s, r, f) ==
  /\ f[0] = 0 /\ f[Len(Digits(s, r))] = Accumulated(s, r)
  /\ \A k \in 0 .. Len(Digits(s, r)) : f[k] \in Int
  /\ \A k \in 0 .. Len(Digits(s, r)) - 1 :
       f[k + 1] = Signed(f[k] * r + Digits(s, r)[k + 1], LongMod)

LEMMA AccumulatedStepwise ==
  ASSUME NEW s, NEW r \in Nat, Digits(s, r) \in Seq(Nat)
  PROVE  \E f : Accumulates(s, r, f)
<1> DEFINE seq == Digits(s, r)
           m == Len(seq)
           step == [x \in (1 .. m) \X Int |-> Signed(x[2] * r + seq[x[1]], LongMod)]
           Next(g) == [t \in SUBSET (1 .. m) |->
                         IF t = {} THEN 0
                         ELSE Signed(g[t \ {Max(t)}] * r + seq[Max(t)], LongMod)]
           iter == CHOOSE g : g = Next(g)
<1>1. m \in Nat /\ DOMAIN seq = 1 .. m /\ \A k \in 1 .. m : seq[k] \in Nat
  BY LenProperties, ElementOfSeq
<1>2. Accumulated(s, r) = iter[1 .. m]
  BY <1>1 DEF Accumulated, FoldLeft, MapThenFoldSet
<1> HIDE DEF seq, m
<1>3. step \in [(1 .. m) \X Int -> Int]
  <2>1. \A k \in 1 .. m : \A a \in Int : Signed(a * r + seq[k], LongMod) \in Int
    <3> SUFFICES ASSUME NEW k \in 1 .. m, NEW a \in Int PROVE Signed(a * r + seq[k], LongMod) \in Int
      OBVIOUS
    <3>1. a * r + seq[k] \in Int
      BY <1>1
    <3> QED BY <3>1, RemainderAlike, WidthAssumption
  <2> QED BY <2>1
<1>4. \A k \in 1 .. m : \A a \in Int : step[<<k, a>>] = Signed(a * r + seq[k], LongMod)
  OBVIOUS
<1> HIDE DEF step
<1>5. PICK g : Unfolds(m, Int, 0, step, g)
  <2> DEFINE A == Int
             base == 0
  <2>1. base \in A /\ step \in [(1 .. m) \X A -> A]
    BY <1>3
  <2> HIDE DEF A, base
  <2>2. \E g : Unfolds(m, A, base, step, g)
    BY <1>1, <2>1, FoldExists
  <2> QED BY <2>2 DEF A, base
<1>6. g = Next(g)
  <2>1. g \in [SUBSET (1 .. m) -> Int]
    BY <1>5 DEF Unfolds
  <2>2. ASSUME NEW t \in SUBSET (1 .. m)
        PROVE  g[t] = IF t = {} THEN 0 ELSE Signed(g[t \ {Max(t)}] * r + seq[Max(t)], LongMod)
    BY <1>4, <1>5 DEF Unfolds
  <2> QED BY <2>1, <2>2
<1> HIDE DEF Next
<1>7. iter = Next(iter)
  BY <1>6
<1> HIDE DEF iter
<1>8. iter = [t \in SUBSET (1 .. m) |->
                IF t = {} THEN 0 ELSE Signed(iter[t \ {Max(t)}] * r + seq[Max(t)], LongMod)]
  BY <1>7 DEF Next
<1> DEFINE f == [k \in 0 .. m |-> iter[1 .. k]]
<1>9. f[0] = 0
  <2>1. 1 .. 0 = {} /\ {} \in SUBSET (1 .. m) /\ 0 \in 0 .. m
    BY <1>1
  <2> QED BY <1>8, <2>1
<1>10. ASSUME NEW k \in 0 .. m - 1
       PROVE  f[k + 1] = Signed(f[k] * r + seq[k + 1], LongMod)
  <2> DEFINE t == 1 .. k + 1
  <2>1. /\ t \in SUBSET (1 .. m) /\ t # {} /\ Max(t) = k + 1 /\ t \ {k + 1} = 1 .. k
        /\ k \in 0 .. m /\ k + 1 \in 0 .. m
    BY <1>1, MaxOfFirst
  <2> HIDE DEF t
  <2>2. iter[t] = Signed(iter[t \ {k + 1}] * r + seq[k + 1], LongMod)
    BY <1>8, <2>1
  <2> QED BY <2>1, <2>2 DEF t
<1>11. f[m] = Accumulated(s, r)
  BY <1>1, <1>2
<1> HIDE DEF f
<1> DEFINE T == {k \in Nat : k <= m => f[k] \in Int}
<1>12. 0 \in T
  BY <1>9
<1>13. ASSUME NEW k \in Nat, k \in T
       PROVE  k + 1 \in T
  <2> SUFFICES ASSUME k + 1 <= m PROVE f[k + 1] \in Int
    OBVIOUS
  <2>1. k \in 0 .. m - 1 /\ f[k] \in Int /\ k + 1 \in 1 .. m
    BY <1>1, <1>13
  <2>2. f[k + 1] = Signed(f[k] * r + seq[k + 1], LongMod) /\ seq[k + 1] \in Nat
    BY <1>1, <1>10, <2>1
  <2> QED BY <1>4, <1>3, <2>1, <2>2
<1>14. \A k \in 0 .. m : f[k] \in Int
  <2>1. Nat \subseteq T
    <3> HIDE DEF T
    <3> QED BY <1>12, <1>13, SetInduction
  <2> QED BY <1>1, <2>1
<1> QED BY <1>9, <1>10, <1>11, <1>14 DEF m, seq, Accumulates

(* The same without a width.                                               *)
AddsPlaces(ds, r, f) ==
  /\ f[0] = 0 /\ f[Len(ds)] = PlaceValue(ds, r)
  /\ \A k \in 0 .. Len(ds) : f[k] \in Int
  /\ \A k \in 0 .. Len(ds) - 1 : f[k + 1] = f[k] * r + ds[k + 1]

LEMMA PlaceValueStepwise ==
  ASSUME NEW ds \in Seq(Nat), NEW r \in Nat
  PROVE  \E f : AddsPlaces(ds, r, f)
<1> DEFINE seq == ds
           m == Len(seq)
           step == [x \in (1 .. m) \X Int |-> x[2] * r + seq[x[1]]]
           Next(g) == [t \in SUBSET (1 .. m) |->
                         IF t = {} THEN 0
                         ELSE g[t \ {Max(t)}] * r + seq[Max(t)]]
           iter == CHOOSE g : g = Next(g)
<1>1. m \in Nat /\ DOMAIN seq = 1 .. m /\ \A k \in 1 .. m : seq[k] \in Nat
  BY LenProperties, ElementOfSeq
<1>2. PlaceValue(ds, r) = iter[1 .. m]
  BY <1>1 DEF PlaceValue, FoldLeft, MapThenFoldSet
<1> HIDE DEF seq, m
<1>3. step \in [(1 .. m) \X Int -> Int]
  <2>1. \A k \in 1 .. m : \A a \in Int : a * r + seq[k] \in Int
    BY <1>1
  <2> QED BY <2>1
<1>4. \A k \in 1 .. m : \A a \in Int : step[<<k, a>>] = a * r + seq[k]
  OBVIOUS
<1> HIDE DEF step
<1>5. PICK g : Unfolds(m, Int, 0, step, g)
  <2> DEFINE A == Int
             base == 0
  <2>1. base \in A /\ step \in [(1 .. m) \X A -> A]
    BY <1>3
  <2> HIDE DEF A, base
  <2>2. \E g : Unfolds(m, A, base, step, g)
    BY <1>1, <2>1, FoldExists
  <2> QED BY <2>2 DEF A, base
<1>6. g = Next(g)
  <2>1. g \in [SUBSET (1 .. m) -> Int]
    BY <1>5 DEF Unfolds
  <2>2. ASSUME NEW t \in SUBSET (1 .. m)
        PROVE  g[t] = IF t = {} THEN 0 ELSE g[t \ {Max(t)}] * r + seq[Max(t)]
    BY <1>4, <1>5 DEF Unfolds
  <2> QED BY <2>1, <2>2
<1> HIDE DEF Next
<1>7. iter = Next(iter)
  BY <1>6
<1> HIDE DEF iter
<1>8. iter = [t \in SUBSET (1 .. m) |->
                IF t = {} THEN 0 ELSE iter[t \ {Max(t)}] * r + seq[Max(t)]]
  BY <1>7 DEF Next
<1> DEFINE f == [k \in 0 .. m |-> iter[1 .. k]]
<1>9. f[0] = 0
  <2>1. 1 .. 0 = {} /\ {} \in SUBSET (1 .. m) /\ 0 \in 0 .. m
    BY <1>1
  <2> QED BY <1>8, <2>1
<1>10. ASSUME NEW k \in 0 .. m - 1
       PROVE  f[k + 1] = f[k] * r + seq[k + 1]
  <2> DEFINE t == 1 .. k + 1
  <2>1. /\ t \in SUBSET (1 .. m) /\ t # {} /\ Max(t) = k + 1 /\ t \ {k + 1} = 1 .. k
        /\ k \in 0 .. m /\ k + 1 \in 0 .. m
    BY <1>1, MaxOfFirst
  <2> HIDE DEF t
  <2>2. iter[t] = iter[t \ {k + 1}] * r + seq[k + 1]
    BY <1>8, <2>1
  <2> QED BY <2>1, <2>2 DEF t
<1>11. f[m] = PlaceValue(ds, r)
  BY <1>1, <1>2
<1> HIDE DEF f
<1> DEFINE T == {k \in Nat : k <= m => f[k] \in Int}
<1>12. 0 \in T
  BY <1>9
<1>13. ASSUME NEW k \in Nat, k \in T
       PROVE  k + 1 \in T
  <2> SUFFICES ASSUME k + 1 <= m PROVE f[k + 1] \in Int
    OBVIOUS
  <2>1. k \in 0 .. m - 1 /\ f[k] \in Int /\ k + 1 \in 1 .. m
    BY <1>1, <1>13
  <2>2. f[k + 1] = f[k] * r + seq[k + 1] /\ seq[k + 1] \in Nat
    BY <1>1, <1>10, <2>1
  <2> QED BY <1>4, <1>3, <2>1, <2>2
<1>14. \A k \in 0 .. m : f[k] \in Int
  <2>1. Nat \subseteq T
    <3> HIDE DEF T
    <3> QED BY <1>12, <1>13, SetInduction
  <2> QED BY <1>1, <2>1
<1> QED BY <1>9, <1>10, <1>11, <1>14 DEF m, seq, AddsPlaces

(* The digits of a text are the characters before the first that is none.  *)
DigitsEnd(s, r, m) ==
  /\ m \in 0 .. Len(s) /\ Digits(s, r) = SubSeq(s, 1, m)
  /\ Digits(s, r) \in Seq(Nat) /\ Len(Digits(s, r)) = m
  /\ \A i \in 1 .. m : Digits(s, r)[i] = s[i] /\ s[i] < r
  /\ m < Len(s) => ~(s[m + 1] < r)

LEMMA DigitsAre ==
  ASSUME NEW s \in Seq(Nat), NEW r \in Nat
  PROVE  \E m : DigitsEnd(s, r, m)
<1> DEFINE l == Len(s)
           N == {n \in 0 .. l : \A i \in 1 .. n : s[i] < r}
           T == {l - n : n \in N}
           m == Max(N)
<1>1. l \in Nat /\ \A i \in 1 .. l : s[i] \in Nat
  BY LenProperties, ElementOfSeq
<1> HIDE DEF l
<1>2. 0 \in N
  BY <1>1
<1>3. T \in SUBSET Nat /\ T # {}
  <2>1. \A n \in N : l - n \in Nat
    BY <1>1
  <2>2. l - 0 \in T
    BY <1>2
  <2> HIDE DEF N
  <2> QED BY <2>1, <2>2
<1>4. PICK x \in T : \A k \in T : x <= k
  BY <1>3, LeastOf
<1>5. PICK n \in N : x = l - n
  BY <1>4
<1>6. \A k \in N : n >= k
  <2> SUFFICES ASSUME NEW k \in N PROVE n >= k
    OBVIOUS
  <2>1. l - k \in T
    OBVIOUS
  <2>2. l - n <= l - k
    BY <1>4, <1>5, <2>1
  <2>3. n \in Int /\ k \in Int
    BY <1>5
  <2> QED BY <1>1, <2>2, <2>3
<1>7. m \in N /\ \A k \in N : m >= k
  BY <1>5, <1>6 DEF Max
<1> HIDE DEF m
<1>8. m \in 0 .. l /\ \A i \in 1 .. m : s[i] < r
  BY <1>7
<1>9. ASSUME m < l PROVE ~(s[m + 1] < r)
  <2> SUFFICES ASSUME s[m + 1] < r PROVE FALSE
    OBVIOUS
  <2>1. m + 1 \in 0 .. l
    BY <1>1, <1>8, <1>9
  <2>2. \A i \in 1 .. m + 1 : s[i] < r
    BY <1>8
  <2>3. m + 1 \in N
    BY <2>1, <2>2
  <2>4. m >= m + 1
    BY <1>7, <2>3
  <2> QED BY <1>8, <2>4
<1>10. Digits(s, r) = SubSeq(s, 1, m)
  BY DEF Digits, m, l
<1>11. /\ SubSeq(s, 1, m) \in Seq(Nat) /\ Len(SubSeq(s, 1, m)) = m
       /\ \A i \in 1 .. m : SubSeq(s, 1, m)[i] = s[i]
  <2>1. \A i \in 1 .. m : s[i] \in Nat
    BY <1>1, <1>8
  <2>2. m \in Nat
    BY <1>8
  <2> QED BY <2>1, <2>2, SubSeqProperties
<1> QED BY <1>8, <1>9, <1>10, <1>11 DEF DigitsEnd, l

(* A digit 0 that leads is a digit more and no other.                      *)
LEMMA ZeroLeads ==
  ASSUME NEW s \in Seq(Nat), s # <<>>, s[1] = 0, NEW r \in Nat \ {0}
  PROVE  /\ Digits(s, r) \in Seq(Nat) /\ Digits(Tail(s), r) \in Seq(Nat)
         /\ Len(Digits(s, r)) = Len(Digits(Tail(s), r)) + 1 /\ Digits(s, r)[1] = 0
         /\ \A i \in 1 .. Len(Digits(Tail(s), r)) : Digits(s, r)[i + 1] = Digits(Tail(s), r)[i]
<1> DEFINE t == Tail(s)
           l == Len(s)
<1>1. t \in Seq(Nat) /\ l \in Nat \ {0} /\ Len(t) = l - 1 /\ \A i \in 1 .. l - 1 : t[i] = s[i + 1]
  BY LenProperties, EmptySeq, HeadTailProperties
<1>2. PICK m : DigitsEnd(s, r, m)
  BY DigitsAre
<1> HIDE DEF t
<1>3. PICK n : DigitsEnd(t, r, n)
  BY <1>1, DigitsAre
<1>4. /\ m \in 0 .. l /\ \A i \in 1 .. m : s[i] < r
      /\ m < l => ~(s[m + 1] < r)
  BY <1>2 DEF DigitsEnd
<1>5. /\ n \in 0 .. l - 1 /\ \A i \in 1 .. n : t[i] < r
      /\ n < l - 1 => ~(t[n + 1] < r)
  BY <1>1, <1>3 DEF DigitsEnd
<1> HIDE DEF l
<1>6. m # 0
  <2> SUFFICES ASSUME m = 0 PROVE FALSE
    OBVIOUS
  <2>1. m < l /\ m + 1 = 1
    BY <1>1
  <2>2. ~(s[1] < r)
    BY <1>4, <2>1
  <2> QED BY <2>2
<1>7. m = n + 1
  <2>1. CASE m > n + 1
    <3>1. n < l - 1 /\ n + 2 \in 1 .. m /\ n + 1 \in 1 .. l - 1 /\ (n + 1) + 1 = n + 2
      BY <1>1, <1>4, <1>5, <2>1
    <3>2. ~(t[n + 1] < r) /\ t[n + 1] = s[(n + 1) + 1] /\ s[n + 2] < r
      BY <1>1, <1>4, <1>5, <3>1
    <3> QED BY <3>1, <3>2
  <2>2. CASE m < n + 1
    <3>1. m < l /\ m \in 1 .. n /\ m \in 1 .. l - 1
      BY <1>1, <1>4, <1>5, <1>6, <2>2
    <3>2. ~(s[m + 1] < r) /\ t[m] = s[m + 1] /\ t[m] < r
      BY <1>1, <1>4, <1>5, <3>1
    <3> QED BY <3>2
  <2> QED BY <1>4, <1>5, <2>1, <2>2
<1>8. /\ Digits(s, r) \in Seq(Nat) /\ Len(Digits(s, r)) = m
      /\ \A i \in 1 .. m : Digits(s, r)[i] = s[i]
  BY <1>2 DEF DigitsEnd
<1>9. /\ Digits(t, r) \in Seq(Nat) /\ Len(Digits(t, r)) = n
      /\ \A i \in 1 .. n : Digits(t, r)[i] = t[i]
  BY <1>3 DEF DigitsEnd
<1>10. ASSUME NEW i \in 1 .. n PROVE Digits(s, r)[i + 1] = Digits(t, r)[i]
  <2>1. i + 1 \in 1 .. m /\ i \in 1 .. l - 1
    BY <1>1, <1>5, <1>7
  <2> QED BY <1>1, <1>8, <1>9, <2>1
<1>11. 1 \in 1 .. m
  BY <1>5, <1>7
<1>12. Digits(s, r)[1] = 0
  BY <1>8, <1>11
<1> QED BY <1>7, <1>8, <1>9, <1>10, <1>12 DEF t

(* ... and does not change the number.                                     *)
LEMMA ZeroAdds ==
  ASSUME NEW s \in Seq(Nat), s # <<>>, s[1] = 0, NEW r \in Nat \ {0}
  PROVE  PlaceValue(Digits(s, r), r) = PlaceValue(Digits(Tail(s), r), r)
<1> DEFINE d == Digits(s, r)
           e == Digits(Tail(s), r)
           n == Len(e)
<1>1. /\ d \in Seq(Nat) /\ e \in Seq(Nat) /\ Len(d) = n + 1 /\ d[1] = 0 /\ n \in Nat
      /\ \A i \in 1 .. n : d[i + 1] = e[i]
  BY ZeroLeads, LenProperties
<1> HIDE DEF d, e
<1>21. PICK f : AddsPlaces(d, r, f)
  BY <1>1, PlaceValueStepwise
<1>31. PICK g : AddsPlaces(e, r, g)
  BY <1>1, PlaceValueStepwise
<1>2. /\ f[0] = 0 /\ f[Len(d)] = PlaceValue(d, r) /\ \A k \in 0 .. Len(d) : f[k] \in Int
      /\ \A k \in 0 .. Len(d) - 1 : f[k + 1] = f[k] * r + d[k + 1]
  BY <1>21 DEF AddsPlaces
<1>3. /\ g[0] = 0 /\ g[n] = PlaceValue(e, r) /\ \A k \in 0 .. n : g[k] \in Int
      /\ \A k \in 0 .. n - 1 : g[k + 1] = g[k] * r + e[k + 1]
  BY <1>31 DEF AddsPlaces
<1> HIDE DEF n
<1> DEFINE T == {k \in Nat : k <= n => f[k + 1] = g[k]}
<1>4. 0 \in T
  <2>1. 0 \in 0 .. Len(d) - 1 /\ 0 + 1 = 1
    BY <1>1
  <2>2. f[1] = f[0] * r + d[1]
    BY <1>2, <2>1
  <2>3. f[1] = 0
    BY <1>1, <1>2, <2>2
  <2> QED BY <1>3, <2>1, <2>3
<1>5. ASSUME NEW k \in Nat, k \in T
      PROVE  k + 1 \in T
  <2> SUFFICES ASSUME k + 1 <= n PROVE f[(k + 1) + 1] = g[k + 1]
    OBVIOUS
  <2>1. k <= n /\ k \in 0 .. n - 1 /\ k + 1 \in 0 .. Len(d) - 1 /\ k + 1 \in 1 .. n
    BY <1>1
  <2>2. f[k + 1] = g[k]
    BY <1>5, <2>1
  <2>3. f[(k + 1) + 1] = f[k + 1] * r + d[(k + 1) + 1]
    BY <1>2, <2>1
  <2>4. d[(k + 1) + 1] = e[k + 1]
    BY <1>1, <2>1
  <2>5. g[k + 1] = g[k] * r + e[k + 1]
    BY <1>3, <2>1
  <2> QED BY <2>2, <2>3, <2>4, <2>5
<1>6. f[n + 1] = g[n]
  <2>1. Nat \subseteq T
    <3> HIDE DEF T
    <3> QED BY <1>4, <1>5, SetInduction
  <2> QED BY <1>1, <2>1
<1> QED BY <1>1, <1>2, <1>3, <1>6 DEF d, e

(* A text without a character is 0.                                        *)
LEMMA NothingIsZero ==
  ASSUME NEW s \in Seq(Nat), Len(s) = 0, NEW r \in Nat
  PROVE  PlaceValue(Digits(s, r), r) = 0
<1>1. PICK m : DigitsEnd(s, r, m)
  BY DigitsAre
<1> DEFINE d == Digits(s, r)
<1>2. d \in Seq(Nat) /\ Len(d) = 0
  BY <1>1 DEF DigitsEnd
<1> HIDE DEF d
<1>3. PICK f : AddsPlaces(d, r, f)
  BY <1>2, PlaceValueStepwise
<1> QED BY <1>2, <1>3 DEF d, AddsPlaces

(* What keeps to i64 after every digit differs from the number by whole    *)
(* turns of i64.                                                           *)
LEMMA AccumulatedAlike ==
  ASSUME NEW s \in Seq(Nat), NEW r \in Nat
  PROVE  Alike(PlaceValue(Digits(s, r), r), Accumulated(s, r), LongMod)
<1>1. PICK m : DigitsEnd(s, r, m)
  BY DigitsAre
<1> DEFINE d == Digits(s, r)
<1>2. d \in Seq(Nat) /\ Len(d) = m /\ m \in Nat /\ \A k \in 1 .. m : d[k] \in Nat
  BY <1>1, ElementOfSeq, LenProperties DEF DigitsEnd
<1>21. PICK g : Accumulates(s, r, g)
  BY <1>2, AccumulatedStepwise
<1>3. /\ g[0] = 0 /\ g[m] = Accumulated(s, r) /\ \A k \in 0 .. m : g[k] \in Int
      /\ \A k \in 0 .. m - 1 : g[k + 1] = Signed(g[k] * r + d[k + 1], LongMod)
  BY <1>2, <1>21 DEF Accumulates
<1> HIDE DEF d
<1>22. PICK f : AddsPlaces(d, r, f)
  BY <1>2, PlaceValueStepwise
<1>4. /\ f[0] = 0 /\ f[m] = PlaceValue(d, r) /\ \A k \in 0 .. m : f[k] \in Int
      /\ \A k \in 0 .. m - 1 : f[k + 1] = f[k] * r + d[k + 1]
  BY <1>2, <1>22 DEF AddsPlaces
<1>5. LongMod \in Nat \ {0}
  BY WidthAssumption
<1> DEFINE T == {k \in Nat : k <= m => Alike(f[k], g[k], LongMod)}
<1>6. 0 \in T
  BY <1>3, <1>4, <1>5, AlikeRules
<1>7. ASSUME NEW k \in Nat, k \in T
      PROVE  k + 1 \in T
  <2> SUFFICES ASSUME k + 1 <= m PROVE Alike(f[k + 1], g[k + 1], LongMod)
    OBVIOUS
  <2>1. k <= m /\ k \in 0 .. m - 1 /\ k \in 0 .. m /\ k + 1 \in 1 .. m
    BY <1>2
  <2>2. Alike(f[k], g[k], LongMod) /\ d[k + 1] \in Int /\ r \in Int /\ g[k] \in Int
    BY <1>2, <1>3, <1>7, <2>1
  <2> DEFINE x == d[k + 1]
             a == f[k]
             b == g[k]
  <2>3. f[k + 1] = a * r + x /\ g[k + 1] = Signed(b * r + x, LongMod)
    BY <1>3, <1>4, <2>1
  <2>4. Alike(a, b, LongMod) /\ x \in Int /\ b \in Int
    BY <2>2
  <2> HIDE DEF x, a, b
  <2>5. Alike(a * r + x, b * r + x, LongMod)
    BY <1>5, <2>2, <2>4, AlikeRules
  <2> DEFINE y == b * r + x
  <2>6. y \in Int
    BY <2>2, <2>4
  <2>7. Alike(y, Signed(y, LongMod), LongMod)
    BY <1>5, <2>6, RemainderAlike
  <2> QED BY <1>5, <2>3, <2>5, <2>7, AlikeRules
<1>8. Alike(f[m], g[m], LongMod)
  <2>1. Nat \subseteq T
    <3> HIDE DEF T
    <3> QED BY <1>6, <1>7, SetInduction
  <2> QED BY <1>2, <2>1
<1> QED BY <1>3, <1>4, <1>8 DEF d

(* What strtol makes of a text without a sign.                             *)
Magnitude(body) ==
  LET hex == IsHex(body)
      octal == ~hex /\ body # <<>> /\ body[1] = 0
      radix == IF hex THEN 16 ELSE IF octal THEN 8 ELSE 10
  IN  PlaceValue(Digits(IF hex THEN SubSeq(body, 3, Len(body)) ELSE body, radix), radix)

(* The base and the digits that parse_i64_base0 takes give that number.    *)
LEMMA MagnitudeAlike ==
  ASSUME NEW u \in Seq(Nat)
  PROVE  Alike(Magnitude(u), Accumulated(BaseAndDigits(u)[2], BaseAndDigits(u)[1]), LongMod)
<1> DEFINE h == 16
           o == 8
           t == 10
<1>0. h \in Nat \ {0} /\ o \in Nat \ {0} /\ t \in Nat \ {0}
  OBVIOUS
<1>1. CASE IsHex(u)
  <2> DEFINE rest == SubSeq(u, 3, Len(u))
  <2>1. rest \in Seq(Nat)
    <3>1. Len(u) \in Nat /\ \A i \in 3 .. Len(u) : u[i] \in Nat
      BY LenProperties, ElementOfSeq
    <3> QED BY <3>1, SubSeqProperties
  <2>2. Magnitude(u) = PlaceValue(Digits(rest, h), h)
    BY <1>1 DEF Magnitude
  <2>3. BaseAndDigits(u)[1] = h /\ BaseAndDigits(u)[2] = rest
    BY <1>1 DEF BaseAndDigits
  <2> HIDE DEF rest, h
  <2> QED BY <1>0, <2>1, <2>2, <2>3, AccumulatedAlike
<1>2. CASE ~IsHex(u) /\ u # <<>> /\ u[1] = 0
  <2>1. Magnitude(u) = PlaceValue(Digits(u, o), o)
    BY <1>2 DEF Magnitude
  <2>2. Tail(u) \in Seq(Nat) /\ Len(Tail(u)) = Len(u) - 1 /\ Len(u) \in Nat
    BY <1>2, HeadTailProperties, LenProperties
  <2>3. PlaceValue(Digits(u, o), o) = PlaceValue(Digits(Tail(u), o), o)
    <3> HIDE DEF o
    <3> QED BY <1>0, <1>2, ZeroAdds
  <2>4. CASE Len(u) > 1
    <3>1. BaseAndDigits(u)[1] = o /\ BaseAndDigits(u)[2] = Tail(u)
      BY <1>2, <2>4 DEF BaseAndDigits
    <3> HIDE DEF o
    <3> QED BY <1>0, <2>1, <2>2, <2>3, <3>1, AccumulatedAlike
  <2>5. CASE ~(Len(u) > 1)
    <3>1. BaseAndDigits(u)[1] = t /\ BaseAndDigits(u)[2] = u
      BY <1>2, <2>5 DEF BaseAndDigits
    <3> HIDE DEF o, t
    <3>2. Len(Tail(u)) = 0
      <4>1. Len(u) # 0
        BY <1>2, EmptySeq
      <4> QED BY <2>2, <2>5, <4>1
    <3>3. PlaceValue(Digits(u, t), t) = PlaceValue(Digits(Tail(u), t), t)
      BY <1>0, <1>2, ZeroAdds
    <3>4. PlaceValue(Digits(Tail(u), t), t) = 0 /\ PlaceValue(Digits(Tail(u), o), o) = 0
      BY <1>0, <2>2, <3>2, NothingIsZero
    <3>5. Alike(PlaceValue(Digits(u, t), t), Accumulated(u, t), LongMod)
      BY <1>0, AccumulatedAlike
    <3> QED BY <2>1, <2>3, <3>1, <3>3, <3>4, <3>5
  <2> QED BY <2>4, <2>5
<1>3. CASE ~IsHex(u) /\ ~(u # <<>> /\ u[1] = 0)
  <2>1. Magnitude(u) = PlaceValue(Digits(u, t), t)
    BY <1>3 DEF Magnitude
  <2>2. ~(Len(u) > 1 /\ u[1] = 0)
    <3> SUFFICES ASSUME Len(u) > 1 PROVE u # <<>>
      BY <1>3
    <3> QED BY EmptySeq
  <2>3. BaseAndDigits(u)[1] = t /\ BaseAndDigits(u)[2] = u
    BY <1>3, <2>2 DEF BaseAndDigits
  <2> HIDE DEF t
  <2> QED BY <1>0, <2>1, <2>3, AccumulatedAlike
<1> QED BY <1>1, <1>2, <1>3

(* So a text is the same number to parse_i64_base0 and to strtol, up to    *)
(* whole turns of i64, with its sign too.                                  *)
LEMMA TypedAlike ==
  ASSUME NEW v \in Seq(Nat)
  PROVE  ParseI64(v) \in Int /\ Alike(Strtol(v), ParseI64(v), LongMod)
<1> DEFINE u == Unsigned(v)
           a == Magnitude(u)
           b == Accumulated(BaseAndDigits(u)[2], BaseAndDigits(u)[1])
           c == Signed(-b, LongMod)
<1>1. u \in Seq(Nat)
  BY HeadTailProperties DEF Unsigned
<1>2. Strtol(v) = IF v # <<>> /\ v[1] = Minus THEN -a ELSE a
  BY DEF Strtol, Magnitude
<1>3. ParseI64(v) = IF v # <<>> /\ v[1] = Minus THEN c ELSE b
  BY DEF ParseI64
<1>4. Alike(a, b, LongMod)
  <2> HIDE DEF u
  <2> QED BY <1>1, MagnitudeAlike
<1> HIDE DEF u, a, b
<1>5. LongMod \in Nat \ {0}
  BY WidthAssumption
<1>6. b \in Int /\ -b \in Int
  BY <1>4 DEF Alike
<1>7. Alike(-a, -b, LongMod)
  BY <1>4, <1>5, AlikeRules
<1>8. c \in Int /\ Alike(-b, c, LongMod)
  BY <1>5, <1>6, RemainderAlike
<1> HIDE DEF c
<1>9. Alike(-a, c, LongMod)
  BY <1>5, <1>7, <1>8, AlikeRules
<1> QED BY <1>2, <1>3, <1>4, <1>6, <1>8, <1>9

(* What is kept of it in a width that is a part of i64 differs from what   *)
(* was typed by whole turns of that width.                                 *)
LEMMA KeptAlike ==
  ASSUME NEW v \in Seq(Nat), NEW m \in {ByteMod, WordMod}
  PROVE  /\ ParseI64(v) % m \in 0 .. m - 1 /\ (Strtol(v) - (ParseI64(v) % m)) % m = 0
         /\ Signed(ParseI64(v), m) \in Int /\ (Strtol(v) - Signed(ParseI64(v), m)) % m = 0
<1> DEFINE p == ParseI64(v)
           s == Strtol(v)
<1>1. p \in Int /\ Alike(s, p, LongMod)
  BY TypedAlike
<1>2. m \in Nat \ {0} /\ WordMod \in Nat \ {0} /\ LongMod \in Nat \ {0}
  BY WidthAssumption
<1> HIDE DEF p, s
<1>3. Alike(s, p, WordMod)
  <2>1. LongMod % WordMod = 0
    BY WidthAssumption
  <2> QED BY <1>1, <1>2, <2>1, NarrowAlike
<1>4. Alike(s, p, m)
  <2>1. CASE m = WordMod
    BY <1>3, <2>1
  <2>2. CASE m = ByteMod
    <3>1. WordMod % m = 0
      BY <2>2, WidthAssumption
    <3> QED BY <1>2, <1>3, <3>1, NarrowAlike
  <2> QED BY <2>1, <2>2
<1>5. /\ p % m \in 0 .. m - 1 /\ Alike(p, p % m, m)
      /\ Signed(p, m) \in Int /\ Alike(p, Signed(p, m), m)
  BY <1>1, <1>2, RemainderAlike
<1>6. Alike(s, p % m, m) /\ Alike(s, Signed(p, m), m)
  BY <1>2, <1>4, <1>5, AlikeRules
<1> DEFINE x == p % m
           y == Signed(p, m)
<1>7. Alike(s, x, m) /\ Alike(s, y, m)
  BY <1>6
<1> HIDE DEF x, y
<1>8. (s - x) % m = 0 /\ (s - y) % m = 0
  BY <1>2, <1>7, AlikeLeavesNothing
<1> QED BY <1>5, <1>8 DEF p, s, x, y

(* A signed byte lies in its range, which has as many numbers on either    *)
(* side of zero.                                                           *)
LEMMA SignedFits ==
  ASSUME NEW n \in Int, NEW m \in Nat \ {0}, m % 2 = 0
  PROVE  Signed(n, m) \in -(m \div 2) .. (m \div 2) - 1
<1> DEFINE r == n % m
           h == m \div 2
<1>1. r \in 0 .. m - 1
  BY RemainderAlike
<1>2. h \in Nat /\ m = h + h
  BY SMT
<1>3. Signed(n, m) = IF r < h THEN r ELSE r - m
  BY DEF Signed
<1> HIDE DEF r, h
<1>4. (IF r < h THEN r ELSE r - m) \in -h .. h - 1
  BY <1>1, <1>2
<1> QED BY <1>3, <1>4 DEF h

-----------------------------------------------------------------------------
(* The configuration has its fields, and a number that was typed last is   *)
(* in its field as its text was read.                                      *)
ConsoleInv ==
  /\ Fields \subseteq DOMAIN config
  /\ typed[1] \in NumberFields =>
       typed[2] \in Seq(Nat) /\ config[typed[1]] = Value(typed[1], typed[2])

LEMMA ConsoleStep ==
  ASSUME ConsoleInv, ConsoleNext
  PROVE  ConsoleInv'
<1>1. ASSUME NEW f, NEW v \in Values, SetField(f, v)
      PROVE  ConsoleInv'
  <2>1. typed' = <<f, v>> /\ typed'[1] = f /\ typed'[2] = v /\ v \in Seq(Nat)
    BY <1>1, ConsoleAssumption DEF SetField
  <2>2. CASE f \notin Fields
    <3>1. f \notin NumberFields /\ config' = config
      BY <1>1, <2>2 DEF SetField, Fields
    <3> QED BY <2>1, <3>1 DEF ConsoleInv
  <2>3. CASE f = "region" /\ v \notin DOMAIN Regions
    <3>1. f \notin NumberFields /\ config' = config
      BY <1>1, <2>3, ConsoleAssumption DEF SetField
    <3> QED BY <2>1, <3>1 DEF ConsoleInv
  <2>4. CASE f \in Fields /\ ~(f = "region" /\ v \notin DOMAIN Regions)
    <3>1. config' = [config EXCEPT ![f] = Value(f, v)]
      BY <1>1, <2>4 DEF SetField
    <3>2. DOMAIN config' = DOMAIN config /\ config'[f] = Value(f, v)
      BY <2>4, <3>1 DEF ConsoleInv
    <3> QED BY <2>1, <3>2 DEF ConsoleInv
  <2> QED BY <2>2, <2>3, <2>4
<1>2. ASSUME typed' = typed, NEW g \in {"tx_modes", "options"}, NEW x,
             config' = config \/ config' = [config EXCEPT ![g] = x]
      PROVE  ConsoleInv'
  <2>1. g \notin NumberFields
    BY ConsoleAssumption
  <2>2. /\ DOMAIN config' = DOMAIN config
        /\ \A f \in DOMAIN config : f # g => config'[f] = config[f]
    BY <1>2
  <2>3. NumberFields \subseteq DOMAIN config
    BY DEF ConsoleInv, Fields
  <2> QED BY <1>2, <2>1, <2>2, <2>3 DEF ConsoleInv
<1>3. ASSUME NEW mode, NEW on, SetTxMode(mode, on)
      PROVE  ConsoleInv'
  <2> DEFINE modes == IF mode = "all" THEN Transports ELSE {mode}
             x == IF on THEN config.tx_modes \cup modes ELSE config.tx_modes \ modes
  <2>1. typed' = typed /\ (config' = config \/ config' = [config EXCEPT !["tx_modes"] = x])
    BY <1>3 DEF SetTxMode
  <2> HIDE DEF x
  <2> QED BY <1>2, <2>1
<1>4. ASSUME NEW option, NEW to, Switched(option, to), typed' = typed
      PROVE  ConsoleInv'
  <2> DEFINE x == IF to THEN config.options \cup {option} ELSE config.options \ {option}
  <2>1. config' = [config EXCEPT !["options"] = x]
    BY <1>4 DEF Switched
  <2> HIDE DEF x
  <2> QED BY <1>2, <1>4, <2>1
<1>5. ASSUME NEW arg, ApplyDemoMode(arg)
      PROVE  ConsoleInv'
  BY <1>4, <1>5 DEF ApplyDemoMode
<1>6. ASSUME NEW arg, ApplyKalman(arg)
      PROVE  ConsoleInv'
  <2>1. typed' = typed /\ (Switched("kalman", arg = "on") \/ config' = config)
    BY <1>6 DEF ApplyKalman
  <2> QED BY <1>2, <1>4, <2>1
<1> QED BY <1>1, <1>3, <1>5, <1>6 DEF ConsoleNext

(* The number in the field is then the one that was typed.                 *)
LEMMA ConsoleKeepsNumbers ==
  ASSUME ConsoleInv
  PROVE  NumbersAsTyped
<1> DEFINE f == typed[1]
           v == typed[2]
<1> SUFFICES ASSUME f \in NumberFields
             PROVE  LET n == config[f]
                    IN  IF f = "lock_level"
                        THEN /\ n \in -(ByteMod \div 2) .. (ByteMod \div 2) - 1
                             /\ (Strtol(v) - n) % ByteMod = 0
                        ELSE LET width == IF f \in ByteFields THEN ByteMod ELSE WordMod
                             IN  n \in 0 .. width - 1 /\ (Strtol(v) - n) % width = 0
  BY DEF NumbersAsTyped
<1>1. v \in Seq(Nat) /\ config[f] = Value(f, v)
  BY DEF ConsoleInv
<1> HIDE DEF f, v
<1>2. f \notin StringFields /\ (f = "lock_level" => f \notin ByteFields \cup WordFields)
  BY ConsoleAssumption
<1>3. f \in ByteFields => f \notin WordFields
  BY ConsoleAssumption
<1>4. f \notin FloatFields /\ f # "webserver" /\ f # "region"
  BY ConsoleAssumption
<1>5. f \in ByteFields \/ f \in WordFields \/ f = "lock_level"
  BY DEF NumberFields
<1>6. CASE f \in ByteFields
  <2>1. Value(f, v) = ParseI64(v) % ByteMod
    BY <1>2, <1>3, <1>4, <1>6 DEF Value
  <2> QED BY <1>1, <1>2, <1>6, <2>1, KeptAlike
<1>7. CASE f \in WordFields
  <2>1. Value(f, v) = ParseI64(v) % WordMod
    BY <1>2, <1>3, <1>4, <1>7 DEF Value
  <2> QED BY <1>1, <1>2, <1>3, <1>7, <2>1, KeptAlike
<1>8. CASE f = "lock_level"
  <2>1. Value(f, v) = Signed(ParseI64(v), ByteMod)
    BY <1>2, <1>3, <1>4, <1>8 DEF Value
  <2>2. ParseI64(v) \in Int /\ ByteMod \in Nat \ {0} /\ ByteMod % 2 = 0
    BY <1>1, TypedAlike, WidthAssumption
  <2>3. Signed(ParseI64(v), ByteMod) \in -(ByteMod \div 2) .. (ByteMod \div 2) - 1
    BY <2>2, SignedFits
  <2>4. (Strtol(v) - Signed(ParseI64(v), ByteMod)) % ByteMod = 0
    BY <1>1, KeptAlike
  <2> QED BY <1>1, <1>8, <2>1, <2>3, <2>4
<1> QED BY <1>5, <1>6, <1>7, <1>8

(* Whatever is typed and set, a number that was typed in any of the bases  *)
(* of C is in its field, as far as that is wide, for every text, set of    *)
(* fields and width (cli.rs:76-110, :243-266).                             *)
THEOREM TypedNumbersGetIn == ManagementSpec => []NumbersAsTyped
<1>1. ManagementInit => ConsoleInv
  <2> SUFFICES ASSUME ManagementInit PROVE ConsoleInv
    OBVIOUS
  <2>1. typed[1] = "none" /\ DOMAIN config = Fields \cup {"tx_modes", "options"}
    BY DEF ManagementInit, ConsoleInit
  <2>2. "none" \notin NumberFields
    BY ConsoleAssumption
  <2> QED BY <2>1, <2>2 DEF ConsoleInv
<1>2. ConsoleInv /\ [ManagementNext]_managementVars => ConsoleInv'
  <2> SUFFICES ASSUME ConsoleInv, [ManagementNext]_managementVars PROVE ConsoleInv'
    OBVIOUS
  <2>1. CASE ConsoleNext
    BY <2>1, ConsoleStep
  <2>2. CASE UNCHANGED consoleVars
    BY <2>2 DEF consoleVars, ConsoleInv
  <2> QED BY <2>1, <2>2 DEF ManagementNext, managementVars, Receives
<1> QED BY <1>1, <1>2, ConsoleKeepsNumbers, PTL DEF ManagementSpec

=============================================================================
