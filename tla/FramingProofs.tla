-------------------------- MODULE FramingProofs ---------------------------
(***************************************************************************)
(* The MAVLink framing finds its step: after one misread frame every frame *)
(* that arrives whole is taken (SerialLine, MavlinkFraming).  The proof    *)
(* goes on from what one byte makes of the parser (MavlinkProofs): a frame *)
(* begun recently is the frame on the line (Seen).  Then the types of all  *)
(* inputs, and the link that MAVLink and MSP implement: a sum that matches *)
(* was summed up of one frame (Unmixed), which is still in flight          *)
(* (LinkKept).  Last, NMEA reads each field of a sentence in its place:    *)
(* the words before the newline are split into the fields the receiver     *)
(* meant (FieldsTold, LineUnderstood), whose parts are the position it     *)
(* says (ReadAsMeant).                                                     *)
(***************************************************************************)
EXTENDS InputsProofs

-----------------------------------------------------------------------------
(* What is begun may be misread to the end of the longest frame.           *)
LEMMA MisreadIs == Misread = LongestFrame /\ Misread \in Nat
BY MavlinkAssumption DEF Misread, LongestFrame

(* The parser has the frame m at its g-th byte, perhaps in the wrong       *)
(* version.                                                                *)
Aligned(p, m, g) ==
  /\ 0 < g /\ g < Len(MavlinkBytes(m)) /\ BytesRead(p) = g
  /\ p.v1 \/ ~m.v1
  /\ p.state # "GotStx" => p.len = Len(m.payload)
  /\ (p.state \notin {"GotStx", "GotLength"} /\ ~p.v1) => p.signed = m.signed

(* A frame the parser began to read within the last n bytes is this one.   *)
Seen(p, m, n, g) == (p.state # "Idle" /\ BytesRead(p) <= n) => Aligned(p, m, g)

(* The inductive invariant.  The frame on the line has g bytes behind it;  *)
(* if it is whole and was due, the parser has followed it.  What it        *)
(* began within the calm bytes is this frame: that is why nothing is       *)
(* misread for more than Misread bytes.                                    *)
FramingInv ==
  proto = "Mavlink" =>
    /\ frame \in MavlinkFrame /\ MavKept(parser) /\ calm \in 0 .. Misread
    /\ \E g \in 0 .. Len(MavlinkBytes(frame)) :
         /\ rest = SubSeq(MavlinkBytes(frame), g + 1, Len(MavlinkBytes(frame)))
         /\ Seen(parser, frame, calm, g)
         /\ whole /\ due => Followed(parser, frame, g)

(* The next byte of a frame; a start byte inside a frame calms nothing.    *)
Calmed(n, g, c) ==
  IF g > 0 /\ c.v \in {StxV1, StxV2} THEN 0 ELSE IF n < Misread THEN n + 1 ELSE n

(* What was begun within the calm bytes is the frame at hand, one byte on. *)
LEMMA SeenOn ==
  ASSUME NEW q, MavKept(q), NEW m \in MavlinkFrame, NEW n \in 0 .. Misread,
         NEW g \in Nat, g < Len(MavlinkBytes(m)), Seen(q, m, n, g)
  PROVE  LET c == MavlinkBytes(m)[g + 1]
         IN  Seen(ParseChar(q, c), m, Calmed(n, g, c), g + 1)
<1> DEFINE b == MavlinkBytes(m)
           c == b[g + 1]
           r == ParseChar(q, c)
           n2 == Calmed(n, g, c)
<1>1. /\ Len(b) = HeadLen(m) + Len(m.payload) + 3 + SealLen(m)
      /\ HeadLen(m) = (IF m.v1 THEN 5 ELSE 9) /\ Len(m.payload) \in Nat /\ SealLen(m) \in Nat
      /\ b[1].v = IF m.v1 THEN StxV1 ELSE StxV2
      /\ \A i \in 1 .. HeadLen(m) + Len(m.payload) : b[i + 1].v = BodyOf(m)[i]
      /\ \A i \in 1 .. Len(b) : b[i] \in MavlinkByte
  BY FrameBytes
<1>2. /\ BodyOf(m)[1] = Len(m.payload)
      /\ ~m.v1 => BodyOf(m)[2] = (IF m.signed THEN SignedFlag ELSE 0)
      /\ SignedFlag # 0 /\ StxV1 # StxV2 /\ m.signed \in BOOLEAN /\ m.v1 \in BOOLEAN
  BY BodyShape, FrameParts, MavlinkAssumption
<1> DEFINE k == HeadLen(m) + Len(m.payload)
           y == BodyOf(m)
<1>0. k \in Nat /\ k > 2 /\ Len(b) \in Nat /\ g < Len(b) /\ \A i \in 1 .. k : b[i + 1].v = y[i]
  BY <1>1, FrameNumbers
<1>3. Misread \in Nat
  BY MavlinkAssumption DEF Misread
<1> HIDE DEF b, k, y
<1>4. c \in MavlinkByte
  <2>1. g + 1 \in 1 .. Len(b)
    BY <1>0
  <2> QED BY <1>1, <2>1
<1>5. MavKept(r) /\ (r.state = "Idle" \/ Anew(q, r, c) \/ Onward(q, r, c))
  BY <1>4, AnyStep DEF Result
<1> HIDE DEF r, c
<1>6. SUFFICES ASSUME r.state # "Idle", BytesRead(r) <= n2
               PROVE  Aligned(r, m, g + 1)
  BY DEF Seen, r, c, b, n2
<1>7. BytesRead(r) > 0 /\ BytesRead(r) \in Nat /\ n2 = Calmed(n, g, c)
  BY <1>3, <1>5, <1>6, PositionBounds, MisreadIs
<1> HIDE DEF n2
<1>8. ~(g > 0 /\ c.v \in {StxV1, StxV2}) /\ n2 <= n + 1 /\ (n2 = n + 1 \/ n = Misread) /\ n2 \in Nat
  <2>1. ~(g > 0 /\ c.v \in {StxV1, StxV2})
    BY <1>6, <1>7 DEF Calmed
  <2>2. n2 = IF n < Misread THEN n + 1 ELSE n
    BY <1>7, <2>1 DEF Calmed
  <2> QED BY <1>3, <2>1, <2>2
<1>9. CASE Anew(q, r, c)
  <2>1. g = 0
    BY <1>8, <1>9 DEF Anew
  <2>2. c = b[1]
    BY <2>1 DEF c
  <2>3. r.state = "GotStx" /\ (r.v1 \/ ~m.v1)
    BY <1>1, <1>2, <1>9, <2>2 DEF Anew
  <2>4. BytesRead(r) = g + 1
    BY <2>1, <2>3 DEF BytesRead
  <2> QED BY <1>5, <2>3, <2>4, NotTheEnd DEF Aligned, b
<1>10. CASE Onward(q, r, c)
  <2>1. /\ q.state # "Idle" /\ r.state \notin {"Idle", "GotStx"}
        /\ BytesRead(q) \in Nat \ {0} /\ BytesRead(r) = BytesRead(q) + 1 /\ r.v1 = q.v1
        /\ q.state = "GotStx" => r.len = c.v
        /\ q.state # "GotStx" => r.len = q.len
        /\ q.state = "GotLength" => r.signed = (c.v = SignedFlag)
        /\ q.state \notin {"GotStx", "GotLength"} => r.signed = q.signed
    BY <1>10 DEF Onward
  <2>2. BytesRead(q) <= n
    <3>1. BytesRead(q) \in 0 .. Misread - 1
      BY PositionBounds, MisreadIs
    <3> QED BY <1>3, <1>6, <1>8, <2>1, <3>1
  <2>3. /\ BytesRead(q) = g /\ 0 < g /\ g < Len(b)
        /\ q.v1 \/ ~m.v1
        /\ q.state # "GotStx" => q.len = Len(m.payload)
        /\ (q.state \notin {"GotStx", "GotLength"} /\ ~q.v1) => q.signed = m.signed
    BY <2>1, <2>2 DEF Seen, Aligned, b
  <2>4. r.len = Len(m.payload)
    <3>1. CASE q.state = "GotStx"
      <4>1. g = 1
        BY <2>3, <3>1 DEF BytesRead
      <4>2. 1 \in 1 .. k
        BY <1>0
      <4>3. c.v = y[1]
        BY <1>0, <4>1, <4>2 DEF c
      <4> QED BY <1>2, <2>1, <3>1, <4>3 DEF y
    <3> QED BY <2>1, <2>3, <3>1
  <2>5. ASSUME r.state # "GotLength", ~r.v1
        PROVE  r.signed = m.signed
    <3>1. q.state # "GotStx"
      <4> SUFFICES ASSUME q.state = "GotStx" PROVE FALSE
        OBVIOUS
      <4>1. r.state = "GotLength"
        BY <1>4, <2>1, <2>5, StepGotStx DEF r
      <4> QED BY <2>5, <4>1
    <3>2. CASE q.state = "GotLength"
      <4>1. g = 2 /\ ~m.v1
        BY <2>1, <2>3, <2>5, <3>2 DEF BytesRead
      <4>2. 2 \in 1 .. k
        BY <1>0
      <4>3. c.v = y[2]
        BY <1>0, <4>1, <4>2 DEF c
      <4>4. c.v = IF m.signed THEN SignedFlag ELSE 0
        BY <1>2, <4>1, <4>3 DEF y
      <4>5. (c.v = SignedFlag) = m.signed
        BY <1>2, <4>4
      <4> QED BY <2>1, <3>2, <4>5
    <3> QED BY <2>1, <2>3, <2>5, <3>1, <3>2
  <2>6. BytesRead(r) = g + 1 /\ (r.v1 \/ ~m.v1)
    BY <2>1, <2>3
  <2> QED BY <1>5, <2>1, <2>4, <2>5, <2>6, NotTheEnd DEF Aligned, b
<1> QED BY <1>5, <1>6, <1>9, <1>10

(* What is still to come of a frame.                                       *)
LEMMA StillToCome ==
  ASSUME NEW m \in MavlinkFrame, NEW g \in 0 .. Len(MavlinkBytes(m)),
         NEW s, s = SubSeq(MavlinkBytes(m), g + 1, Len(MavlinkBytes(m)))
  PROVE  LET b == MavlinkBytes(m)
         IN  /\ g \in Nat /\ Len(b) \in Nat /\ Len(b) # 0
             /\ Len(s) = Len(b) - g
             /\ s = <<>> => g = Len(b)
             /\ s # <<>> => /\ g < Len(b) /\ g + 1 \in 0 .. Len(b)
                            /\ Head(s) = b[g + 1]
                            /\ Tail(s) = SubSeq(b, (g + 1) + 1, Len(b))
<1> DEFINE b == MavlinkBytes(m)
<1>1. b \in Seq(MavlinkByte) /\ \A i \in 1 .. Len(b) : b[i] \in MavlinkByte
  BY FrameBytes
<1>2. Len(b) \in Nat /\ Len(b) # 0
  BY FrameNumbers
<1>3. g \in 0 .. Len(b) /\ s = SubSeq(b, g + 1, Len(b))
  OBVIOUS
<1>4. b \in Seq(Byte)
  <2>1. MavlinkByte \subseteq Byte
    BY DEF MavlinkByte
  <2> QED BY <1>1, <2>1, SeqMonotonic
<1> HIDE DEF b
<1>5. Len(s) = Len(b) - g
  <2>1. g + 1 \in Int /\ Len(b) \in Int /\ \A i \in g + 1 .. Len(b) : b[i] \in MavlinkByte
    BY <1>1, <1>2, <1>3
  <2>2. Len(s) = IF g + 1 <= Len(b) THEN Len(b) - (g + 1) + 1 ELSE 0
    BY <1>3, <2>1, SubSeqProperties
  <2> QED BY <1>2, <1>3, <2>2
<1>6. s = <<>> => g = Len(b)
  <2> DEFINE a == Len(b)
             k == Len(s)
  <2>1. a \in Nat /\ g \in 0 .. a /\ k = a - g
    BY <1>2, <1>3, <1>5
  <2>2. s = <<>> => k = 0
    BY EmptySeq
  <2> HIDE DEF a, k
  <2>3. k = 0 => g = a
    BY <2>1
  <2> QED BY <2>2, <2>3 DEF a
<1>7. s # <<>> => /\ g < Len(b) /\ g + 1 \in 1 .. Len(b)
                  /\ Head(s) = b[g + 1]
                  /\ Tail(s) = SubSeq(b, (g + 1) + 1, Len(b))
  BY <1>3, <1>4, RestOfFrame
<1>8. g \in Nat /\ (s # <<>> => g + 1 \in 0 .. Len(b))
  BY <1>2, <1>3, <1>7
<1> QED BY <1>2, <1>5, <1>6, <1>7, <1>8 DEF b

(* A fault calms nothing, and what was begun is out of sight.              *)
LEMMA OutOfSight ==
  ASSUME NEW p, MavKept(p), NEW m, NEW g
  PROVE  Seen(p, m, 0, g)
<1>1. p.state # "Idle" => ~(BytesRead(p) <= 0)
  BY PositionBounds, MisreadIs
<1> QED BY <1>1 DEF Seen

(* At first nothing is on the line.                                        *)
LEMMA FramingBegins == InputsInit => FramingInv
<1> SUFFICES ASSUME InputsInit, proto = "Mavlink" PROVE FramingInv
  BY DEF FramingInv
<1>1. /\ frame \in MavlinkFrame /\ rest = <<>> /\ parser = MavlinkNew /\ calm = Misread
      /\ whole = FALSE
  BY LineAssumption DEF InputsInit, LineInit, NewParser
<1> DEFINE b == MavlinkBytes(frame)
           k == Len(b)
<1>2. k \in Nat
  BY <1>1, FrameNumbers
<1>3. Misread \in Nat
  BY MavlinkAssumption DEF Misread
<1> HIDE DEF k
<1>4. k \in 0 .. k /\ rest = SubSeq(b, k + 1, k)
  <2>1. SubSeq(b, k + 1, k) = <<>>
    BY <1>2, SubSeqEmpty
  <2> QED BY <1>1, <1>2, <2>1
<1>5. Seen(parser, frame, calm, k)
  BY <1>1, NewKept DEF Seen
<1> QED BY <1>1, <1>3, <1>4, <1>5, NewKept DEF FramingInv, k

(* A step of the line.                                                     *)
LEMMA FramingStepKeeps ==
  ASSUME FramingInv, [LineNext]_lineVars
  PROVE  FramingInv'
<1> SUFFICES ASSUME proto' = "Mavlink" PROVE FramingInv'
  BY DEF FramingInv
<1> DEFINE b == MavlinkBytes(frame)
<1>0. Misread \in Nat
  BY MavlinkAssumption DEF Misread
<1>1. ASSUME NEW m \in Messages[proto], SendFrame(m)
      PROVE  FramingInv'
  <2>1. proto = "Mavlink" /\ m \in MavlinkFrame
    BY <1>1, LineAssumption DEF SendFrame
  <2>2. /\ frame' = m /\ rest' = MavlinkBytes(m) /\ parser' = parser /\ calm' = calm
        /\ rest = <<>> /\ due' = InStep
    BY <1>1, <2>1 DEF SendFrame, BytesOf
  <2>3. /\ frame \in MavlinkFrame /\ MavKept(parser) /\ calm \in 0 .. Misread
    BY <2>1 DEF FramingInv
  <2>4. PICK g \in 0 .. Len(b) : rest = SubSeq(b, g + 1, Len(b)) /\ Seen(parser, frame, calm, g)
    BY <2>1 DEF FramingInv
  <2>5. g = Len(b) /\ Len(b) \in Nat
    <3>1. Len(b) \in Nat /\ (rest = <<>> => g = Len(b))
      BY <2>3, <2>4, StillToCome
    <3> QED BY <2>2, <3>1
  <2>6. ~(parser.state # "Idle" /\ BytesRead(parser) <= calm)
    BY <2>4, <2>5 DEF Seen, Aligned
  <2>7. due' => parser.state = "Idle"
    <3>1. BytesRead(parser) \in 0 .. Misread - 1
      BY <2>3, PositionBounds, MisreadIs
    <3>2. calm = Misread => BytesRead(parser) <= calm
      BY <1>0, <3>1
    <3> QED BY <2>1, <2>2, <2>6, <3>2 DEF InStep
  <2>8. /\ 0 \in 0 .. Len(MavlinkBytes(m))
        /\ MavlinkBytes(m) = SubSeq(MavlinkBytes(m), 0 + 1, Len(MavlinkBytes(m)))
    <3>1. Len(MavlinkBytes(m)) \in Nat /\ MavlinkBytes(m) \in Seq(MavlinkByte)
      BY <2>1, FrameNumbers, FrameBytes
    <3>2. SubSeq(MavlinkBytes(m), 1, Len(MavlinkBytes(m))) = MavlinkBytes(m)
      BY <3>1, SubSeqFull
    <3> QED BY <3>1, <3>2
  <2>9. Seen(parser', m, calm', 0)
    BY <2>2, <2>6 DEF Seen
  <2>10. due' => Followed(parser', m, 0)
    BY <2>2, <2>7 DEF Followed
  <2> QED BY <2>1, <2>2, <2>3, <2>8, <2>9, <2>10 DEF FramingInv
<1>2. ASSUME Arrive
      PROVE  FramingInv'
  <2>1. /\ proto = "Mavlink" /\ rest # <<>> /\ rest' = Tail(rest) /\ frame' = frame
        /\ whole' = whole /\ due' = due
        /\ calm' = IF Loud(Head(rest)) THEN 0 ELSE IF calm < Misread THEN calm + 1 ELSE calm
    BY <1>2 DEF Arrive
  <2>2. parser' = ParseChar(parser, Head(rest))
    BY <1>2, <2>1 DEF Arrive, Feed
  <2>3. /\ frame \in MavlinkFrame /\ MavKept(parser) /\ calm \in 0 .. Misread
    BY <2>1 DEF FramingInv
  <2>4. PICK g \in 0 .. Len(b) :
          /\ rest = SubSeq(b, g + 1, Len(b)) /\ Seen(parser, frame, calm, g)
          /\ whole /\ due => Followed(parser, frame, g)
    BY <2>1 DEF FramingInv
  <2> DEFINE c == b[g + 1]
  <2>5. /\ g \in Nat /\ Len(b) \in Nat /\ g < Len(b) /\ g + 1 \in 0 .. Len(b)
        /\ Len(rest) = Len(b) - g
        /\ Head(rest) = c /\ Tail(rest) = SubSeq(b, (g + 1) + 1, Len(b))
    BY <2>1, <2>3, <2>4, StillToCome
  <2>6. c \in MavlinkByte
    <3>1. \A i \in 1 .. Len(b) : b[i] \in MavlinkByte
      BY <2>3, FrameBytes
    <3> HIDE DEF b
    <3>2. g + 1 \in 1 .. Len(b)
      BY <2>5
    <3> QED BY <3>1, <3>2
  <2>7. calm' = Calmed(calm, g, c) /\ calm' \in 0 .. Misread
    <3>1. Len(rest) < Len(b) <=> g > 0
      <4> HIDE DEF b, c
      <4> QED BY <2>5
    <3>2. Loud(Head(rest)) <=> g > 0 /\ c.v \in {StxV1, StxV2}
      BY <2>1, <2>5, <3>1 DEF Loud, BytesOf, Begun
    <3> HIDE DEF c
    <3>3. calm' = Calmed(calm, g, c)
      BY <2>1, <3>2 DEF Calmed
    <3>4. calm' \in 0 .. Misread
      BY <1>0, <2>1, <2>3
    <3> QED BY <3>3, <3>4
  <2>8. MavKept(parser')
    BY <2>2, <2>3, <2>5, <2>6, AnyStep DEF Result
  <2>9. Seen(parser', frame, calm', g + 1)
    BY <2>2, <2>3, <2>4, <2>5, <2>7, SeenOn
  <2>10. whole /\ due => Followed(parser', frame, g + 1)
    BY <2>2, <2>3, <2>4, <2>5, FollowedOn
  <2>11. rest' = SubSeq(b, (g + 1) + 1, Len(b)) /\ b' = b
    BY <2>1, <2>5
  <2> HIDE DEF c
  <2> QED BY <2>1, <2>3, <2>5, <2>7, <2>8, <2>9, <2>10, <2>11 DEF FramingInv
<1>3. ASSUME Lose
      PROVE  FramingInv'
  <2>1. /\ proto = "Mavlink" /\ rest # <<>> /\ rest' = Tail(rest) /\ frame' = frame
        /\ ~whole' /\ parser' = parser /\ calm' = 0
    BY <1>3 DEF Lose, Fault
  <2>2. frame \in MavlinkFrame /\ MavKept(parser)
    BY <2>1 DEF FramingInv
  <2>3. PICK g \in 0 .. Len(b) : rest = SubSeq(b, g + 1, Len(b))
    BY <2>1 DEF FramingInv
  <2>4. g + 1 \in 0 .. Len(b) /\ rest' = SubSeq(b, (g + 1) + 1, Len(b)) /\ b' = b
    BY <2>1, <2>2, <2>3, StillToCome
  <2>5. Seen(parser', frame, 0, g + 1)
    BY <2>1, <2>2, OutOfSight
  <2>6. \E j \in 0 .. Len(b) :
          rest' = SubSeq(b, j + 1, Len(b)) /\ Seen(parser', frame, 0, j)
    BY <2>4, <2>5
  <2>7. 0 \in 0 .. Misread
    BY <1>0
  <2> QED BY <2>1, <2>2, <2>4, <2>6, <2>7 DEF FramingInv
<1>4. ASSUME NEW c \in Noise[proto], MakeUp(c)
      PROVE  FramingInv'
  <2>1. /\ proto = "Mavlink" /\ rest' = rest /\ frame' = frame /\ ~whole' /\ calm' = 0
        /\ c \in MavlinkByte
    BY <1>4, LineAssumption DEF MakeUp, Fault
  <2>2. frame \in MavlinkFrame /\ MavKept(parser)
    BY <2>1 DEF FramingInv
  <2>3. PICK g \in 0 .. Len(b) : rest = SubSeq(b, g + 1, Len(b))
    BY <2>1 DEF FramingInv
  <2>4. parser' = ParseChar(parser, c)
    BY <1>4, <2>1 DEF MakeUp, Feed
  <2>5. MavKept(parser')
    BY <2>1, <2>2, <2>4, AnyStep DEF Result
  <2>6. Seen(parser', frame, 0, g)
    BY <2>5, OutOfSight
  <2> QED BY <1>0, <2>1, <2>2, <2>3, <2>5, <2>6 DEF FramingInv
<1>5. ASSUME UNCHANGED lineVars
      PROVE  FramingInv'
  BY <1>5 DEF lineVars, FramingInv
<1> QED BY <1>1, <1>2, <1>3, <1>4, <1>5 DEF LineNext

(* The parser is where FramingInv says, at all times.                      *)
LEMMA AlwaysFramingInv == InputsSpec => []FramingInv
<1>1. FramingInv /\ [InputsNext]_<<lineVars, busVars, source>> => FramingInv'
  <2> SUFFICES ASSUME FramingInv, [InputsNext]_<<lineVars, busVars, source>> PROVE FramingInv'
    OBVIOUS
  <2>1. [LineNext]_lineVars
    BY DEF InputsNext
  <2> QED BY <2>1, FramingStepKeeps
<1> QED BY <1>1, FramingBegins, PTL DEF InputsSpec

(* parser.rs:268-447 of MAVLink: whatever was on the line before, a frame  *)
(* that arrives whole when the parser is in step is taken, and what is     *)
(* read of it is what was meant, for every table of messages, every length *)
(* of a signature, all frames and noise, and any number of faults.         *)
THEOREM EveryReadableFrameIsTaken == InputsSpec => []MavlinkFindsStep
<1>1. FramingInv => MavlinkFindsStep
  <2> SUFFICES ASSUME FramingInv, proto = "Mavlink"
               PROVE  ShouldBeTaken /\ Readable(frame) =>
                        parser.result = "Ok" /\ parser.taken = MavlinkMeans(frame)
    BY DEF MavlinkFindsStep
  <2> DEFINE b == MavlinkBytes(frame)
  <2>1. frame \in MavlinkFrame
    BY DEF FramingInv
  <2>2. PICK g \in 0 .. Len(b) :
          /\ rest = SubSeq(b, g + 1, Len(b))
          /\ whole /\ due => Followed(parser, frame, g)
    BY DEF FramingInv
  <2>3. Len(b) # 0 /\ (rest = <<>> => g = Len(b)) /\ Len(b) \in Nat
    BY <2>1, <2>2, StillToCome
  <2>4. ASSUME g = Len(b), frame.msgid \in DOMAIN MaxLen, Followed(parser, frame, g)
        PROVE  parser.result = "Ok" /\ parser.taken = MavlinkMeans(frame)
    BY <2>3, <2>4 DEF Followed
  <2> QED BY <2>2, <2>3, <2>4 DEF ShouldBeTaken, Readable
<1> QED BY <1>1, AlwaysFramingInv, PTL

-----------------------------------------------------------------------------
(* The line.  Sequences of whatever the senders say.                       *)
IsList(s) == s \in Seq({s[i] : i \in DOMAIN s})

(* A sequence of anything is a list.                                       *)
LEMMA ListOf ==
  ASSUME NEW S, NEW s \in Seq(S)
  PROVE  IsList(s) /\ Len(s) \in Nat
<1>1. Len(s) \in Nat /\ DOMAIN s = 1 .. Len(s) /\ s \in [1 .. Len(s) -> S]
  BY LenProperties
<1> DEFINE T == {s[i] : i \in DOMAIN s}
           n == Len(s)
<1>2. s \in [1 .. n -> T]
  BY <1>1
<1>3. n \in Nat
  BY <1>1
<1> HIDE DEF T, n
<1>4. s \in Seq(T)
  BY <1>2, <1>3, FunctionIsSeq
<1> QED BY <1>1, <1>4 DEF IsList, T

(* So is the empty one,                                                    *)
LEMMA ListEmpty == IsList(<<>>) /\ Len(<<>>) = 0
<1>1. <<>> \in Seq(Nat)
  BY EmptySeq
<1> QED BY <1>1, ListOf, EmptySeq

(* one that has grown                                                      *)
LEMMA ListGrows ==
  ASSUME NEW s, IsList(s), NEW x
  PROVE  IsList(Append(s, x)) /\ Len(s) \in Nat /\ Len(Append(s, x)) = Len(s) + 1
<1> DEFINE T == {s[i] : i \in DOMAIN s}
           U == T \cup {x}
<1>1. s \in Seq(T)
  BY DEF IsList
<1>2. x \in U /\ T \subseteq U
  OBVIOUS
<1> HIDE DEF T, U
<1>3. s \in Seq(U)
  BY <1>1, <1>2, SeqMonotonic
<1>4. Append(s, x) \in Seq(U) /\ Len(Append(s, x)) = Len(s) + 1
  BY <1>2, <1>3, AppendProperties
<1>5. Len(s) \in Nat
  BY <1>3, LenProperties
<1> QED BY <1>4, <1>5, ListOf

(* and the end of one.                                                     *)
LEMMA ListPart ==
  ASSUME NEW s, IsList(s), NEW a \in Nat, a <= Len(s)
  PROVE  /\ IsList(SubSeq(s, a + 1, Len(s)))
         /\ Len(s) \in Nat /\ Len(SubSeq(s, a + 1, Len(s))) = Len(s) - a
<1> DEFINE T == {s[i] : i \in DOMAIN s}
           n == Len(s)
           t == SubSeq(s, a + 1, n)
<1>1. s \in Seq(T)
  BY DEF IsList
<1> HIDE DEF T
<1>2. n \in Nat /\ \A i \in 1 .. n : s[i] \in T
  BY <1>1, LenProperties, ElementOfSeq
<1>3. a <= n
  OBVIOUS
<1> HIDE DEF n
<1>4. a + 1 \in Int /\ n \in Int /\ \A i \in a + 1 .. n : s[i] \in T
  BY <1>2
<1>5. t \in Seq(T) /\ Len(t) = IF a + 1 <= n THEN n - (a + 1) + 1 ELSE 0
  BY <1>4, SubSeqProperties
<1> HIDE DEF t
<1>6. Len(t) = n - a
  BY <1>2, <1>3, <1>5
<1>7. IsList(t)
  BY <1>5, ListOf
<1> QED BY <1>2, <1>6, <1>7 DEF t, n

(* The first place of two, or none.                                        *)
LEMMA FoundAmongTwo ==
  ASSUME NEW n \in Nat, n <= 2, NEW I, I \subseteq 1 .. n
  PROVE  (IF I # {} THEN Min(I) ELSE 0) \in 0 .. n
<1>1. ASSUME I # {} PROVE Min(I) \in I
  <2>1. PICK i \in I : TRUE
    BY <1>1
  <2>2. I \subseteq 1 .. 2
    OBVIOUS
  <2>3. \E u \in I : \A y \in I : u =< y
    <3>1. CASE 1 \in I
      BY <2>2, <3>1
    <3>2. CASE 1 \notin I
      <4>1. i = 2 /\ \A y \in I : y = 2
        BY <2>1, <2>2, <3>2
      <4> QED BY <2>1, <4>1
    <3> QED BY <3>1, <3>2
  <2> QED BY <2>3 DEF Min
<1>2. 0 \in 0 .. n /\ I \subseteq 0 .. n
  OBVIOUS
<1> DEFINE j == Min(I)
<1> HIDE DEF j
<1>3. I # {} => j \in 0 .. n
  BY <1>1, <1>2 DEF j
<1> QED BY <1>2, <1>3 DEF j

(* A sentence that is not yet whole.                                       *)
NmeaKept(p) ==
  /\ p = [buf |-> p.buf, gps |-> p.gps]
  /\ IsList(p.buf) /\ Len(p.buf) < NmeaBuffer

(* parser.rs:169-181 of NMEA: the buffer of a sentence is emptied in time. *)
LEMMA NmeaFeedKeeps ==
  ASSUME NEW p, NmeaKept(p), NEW w
  PROVE  NmeaKept(NmeaFeed(p, w))
<1>1. NmeaBuffer \in Nat \ {0}
  BY NmeaAssumption
<1> DEFINE g == ParseLine(p.gps, p.buf)
           a == Append(p.buf, w)
<1>2. CASE w = NewLine \/ Len(p.buf) >= NmeaBuffer - 1
  <2>1. NmeaFeed(p, w) = [buf |-> <<>>, gps |-> g]
    BY <1>2 DEF NmeaFeed
  <2> HIDE DEF g
  <2> QED BY <1>1, <2>1, ListEmpty DEF NmeaKept
<1>3. CASE ~(w = NewLine \/ Len(p.buf) >= NmeaBuffer - 1)
  <2>1. NmeaFeed(p, w) = [p EXCEPT !.buf = a]
    BY <1>3 DEF NmeaFeed
  <2>2. IsList(a) /\ Len(p.buf) \in Nat /\ Len(a) = Len(p.buf) + 1
    BY ListGrows DEF NmeaKept
  <2> HIDE DEF a
  <2>3. [p EXCEPT !.buf = a] = [buf |-> a, gps |-> p.gps]
    BY DEF NmeaKept
  <2>4. Len(a) < NmeaBuffer
    <3> DEFINE k == Len(p.buf)
               l == Len(a)
    <3>1. k \in Nat /\ l = k + 1 /\ ~(k >= NmeaBuffer - 1)
      BY <1>3, <2>2
    <3> HIDE DEF k, l
    <3>2. l < NmeaBuffer
      BY <1>1, <3>1
    <3> QED BY <3>2 DEF l
  <2> QED BY <2>1, <2>2, <2>3, <2>4 DEF NmeaKept
<1> QED BY <1>2, <1>3

(* The line whatever the protocol.                                         *)
InFlightKept(s) == IsList(s) /\ Len(s) <= 2

(* The line keeps the last two frames.                                     *)
LEMMA LatestKept ==
  ASSUME NEW s, InFlightKept(s), NEW x
  PROVE  InFlightKept(Link!Latest(Append(s, x)))
<1> DEFINE t == Append(s, x)
           n == Len(t)
<1>1. IsList(t) /\ Len(s) \in Nat /\ n = Len(s) + 1
  BY ListGrows DEF InFlightKept
<1>2. Link!Latest(t) = IF n > 2 THEN SubSeq(t, n - 2 + 1, n) ELSE t
  BY DEF Link!Latest
<1>3. n \in Nat /\ n <= 3
  <2> DEFINE k == Len(s)
  <2>1. k \in Nat /\ k <= 2 /\ n = k + 1
    BY <1>1 DEF InFlightKept
  <2> HIDE DEF k, n
  <2> QED BY <2>1
<1>4. CASE n > 2
  <2> DEFINE r == SubSeq(t, n - 2 + 1, n)
  <2>1. n - 2 \in Nat /\ n - 2 <= n /\ n - (n - 2) = 2
    <3> HIDE DEF n
    <3> QED BY <1>3, <1>4
  <2>2. IsList(r) /\ Len(r) = n - (n - 2)
    <3> HIDE DEF t
    <3> QED BY <1>1, <2>1, ListPart
  <2>3. Link!Latest(t) = r
    BY <1>2, <1>4
  <2> HIDE DEF r, n, t
  <2>4. InFlightKept(r)
    BY <2>1, <2>2 DEF InFlightKept
  <2> QED BY <2>3, <2>4 DEF t
<1>5. CASE ~(n > 2)
  <2>1. Link!Latest(t) = t
    BY <1>2, <1>5
  <2>2. n <= 2
    <3> HIDE DEF n
    <3> QED BY <1>3, <1>5
  <2> HIDE DEF t
  <2>3. InFlightKept(t)
    BY <1>1, <2>2 DEF InFlightKept
  <2> QED BY <2>1, <2>3 DEF t
<1> QED BY <1>4, <1>5

(* What a frame that is taken leaves behind.                               *)
LEMMA LeftKept ==
  ASSUME NEW p, InFlightKept(in_flight)
  PROVE  InFlightKept(LeftBy(p))
<1> DEFINE x == p.taken
           i == SelectInSeq(in_flight, LAMBDA m : m = x)
           n == Len(in_flight)
<1>1. n \in Nat /\ n <= 2 /\ IsList(in_flight)
  BY LenProperties DEF InFlightKept, IsList
<1>2. i \in 0 .. n
  <2> DEFINE I == {k \in 1 .. n : in_flight[k] = x}
  <2>1. i = IF I # {} THEN Min(I) ELSE 0
    BY DEF SelectInSeq
  <2>2. I \subseteq 1 .. n
    OBVIOUS
  <2> HIDE DEF I, i, n
  <2> QED BY <1>1, <2>1, <2>2, FoundAmongTwo
<1>3. LeftBy(p) = IF Accepts(p) /\ i # 0 THEN SubSeq(in_flight, i + 1, n) ELSE in_flight
  BY DEF LeftBy
<1> HIDE DEF i
<1>4. i \in Nat /\ i <= n
  BY <1>1, <1>2
<1>5. IsList(SubSeq(in_flight, i + 1, n)) /\ Len(SubSeq(in_flight, i + 1, n)) = n - i
  BY <1>1, <1>4, ListPart
<1>6. n - i <= 2
  BY <1>1, <1>4
<1> QED BY <1>1, <1>3, <1>5, <1>6 DEF InFlightKept

(* The types of the line.                                                  *)
LineKept ==
  /\ proto \in SerialProtocols /\ frame \in Messages[proto]
  /\ due \in BOOLEAN /\ whole \in BOOLEAN /\ unmixed \in BOOLEAN
  /\ calm \in 0 .. Misread /\ faults \in 0 .. MaxFaults[proto]
  /\ InFlightKept(in_flight)
  /\ proto = "Nmea" => NmeaKept(parser)

(* At first the line is silent.                                            *)
LEMMA LineBegins == InputsInit => LineKept
<1> SUFFICES ASSUME InputsInit PROVE LineKept
  OBVIOUS
<1>1. /\ proto \in SerialProtocols /\ frame \in Messages[proto] /\ parser = NewParser(proto)
      /\ due = FALSE /\ whole = FALSE /\ unmixed \in BOOLEAN
      /\ calm = Misread /\ faults = 0 /\ in_flight = <<>>
  BY DEF InputsInit, LineInit
<1>2. Misread \in Nat /\ MaxFaults[proto] \in Nat
  BY <1>1, MavlinkAssumption, LineAssumption DEF Misread, SerialProtocols
<1>3. proto = "Nmea" => NmeaKept(parser)
  <2>1. proto = "Nmea" => parser = NmeaNew
    BY <1>1 DEF NewParser
  <2>2. NmeaKept(NmeaNew)
    BY NmeaAssumption, ListEmpty DEF NmeaKept, NmeaNew
  <2> QED BY <2>1, <2>2
<1>4. InFlightKept(in_flight)
  <2>1. InFlightKept(<<>>)
    BY ListEmpty DEF InFlightKept
  <2> QED BY <1>1, <2>1
<1>5. calm \in 0 .. Misread /\ faults \in 0 .. MaxFaults[proto]
  BY <1>1, <1>2
<1> QED BY <1>1, <1>3, <1>4, <1>5 DEF LineKept

(* A step of the line.                                                     *)
LEMMA LineStepKeeps ==
  ASSUME LineKept, [LineNext]_lineVars
  PROVE  LineKept'
<1>0. /\ Misread \in Nat /\ MaxFaults[proto] \in Nat /\ proto \in {"Mavlink", "Msp", "Nmea"}
      /\ 0 \in 0 .. Misread
  BY MavlinkAssumption, LineAssumption DEF Misread, SerialProtocols, LineKept
<1>1. ASSUME NEW m \in Messages[proto], SendFrame(m)
      PROVE  LineKept'
  <2>1. InStep \in BOOLEAN
    BY <1>0 DEF InStep
  <2>2. InFlightKept(in_flight')
    BY <1>1, LatestKept DEF SendFrame, LineKept
  <2> QED BY <1>1, <2>1, <2>2 DEF SendFrame, LineKept
<1>2. ASSUME Arrive
      PROVE  LineKept'
  <2>1. /\ proto' = proto /\ frame' = frame /\ due' = due /\ whole' = whole /\ faults' = faults
        /\ unmixed' = unmixed
        /\ in_flight' = LeftBy(parser') /\ parser' = Feed(parser, Head(rest))
        /\ calm' = IF Loud(Head(rest)) THEN 0 ELSE IF calm < Misread THEN calm + 1 ELSE calm
    BY <1>2 DEF Arrive
  <2>2. calm' \in 0 .. Misread
    BY <1>0, <2>1 DEF LineKept
  <2>3. InFlightKept(in_flight')
    BY <2>1, LeftKept DEF LineKept
  <2>4. proto = "Nmea" => NmeaKept(parser')
    BY <2>1, NmeaFeedKeeps DEF LineKept, Feed
  <2> QED BY <2>1, <2>2, <2>3, <2>4 DEF LineKept
<1>3. ASSUME Fault
      PROVE  /\ proto' = proto /\ frame' = frame /\ due' = due /\ whole' = FALSE /\ calm' = 0
             /\ faults' \in 0 .. MaxFaults[proto]
  BY <1>0, <1>3 DEF Fault, LineKept
<1>4. ASSUME Lose
      PROVE  LineKept'
  <2>1. unmixed' \in BOOLEAN
    BY <1>4 DEF Lose
  <2> QED BY <1>0, <1>3, <1>4, <2>1 DEF Lose, LineKept
<1>5. ASSUME NEW c \in Noise[proto], MakeUp(c)
      PROVE  LineKept'
  <2>1. InFlightKept(in_flight')
    BY <1>5, LeftKept DEF MakeUp, LineKept
  <2>2. proto = "Nmea" => NmeaKept(parser')
    BY <1>5, NmeaFeedKeeps DEF MakeUp, LineKept, Feed
  <2>3. unmixed' \in BOOLEAN
    BY <1>5 DEF MakeUp
  <2> QED BY <1>0, <1>3, <1>5, <2>1, <2>2, <2>3 DEF MakeUp, LineKept
<1>6. ASSUME UNCHANGED lineVars
      PROVE  LineKept'
  BY <1>6 DEF lineVars, LineKept
<1> QED BY <1>1, <1>2, <1>4, <1>5, <1>6 DEF LineNext

(* The types of the line hold at all times.                                *)
LEMMA AlwaysLineKept == InputsSpec => []LineKept
<1>1. LineKept /\ [InputsNext]_<<lineVars, busVars, source>> => LineKept'
  <2> SUFFICES ASSUME LineKept, [InputsNext]_<<lineVars, busVars, source>> PROVE LineKept'
    OBVIOUS
  <2>1. [LineNext]_lineVars
    BY DEF InputsNext
  <2> QED BY <2>1, LineStepKeeps
<1> QED BY <1>1, LineBegins, PTL DEF InputsSpec

(* The inputs keep their types, and their buffers their bounds: no parser  *)
(* writes outside its payload, its line or its transfer, for every choice  *)
(* of the constants.                                                       *)
THEOREM InputsTypeCorrect == InputsSpec => []InputsTypeOK
<1>1. LineKept /\ FramingInv /\ MspInv => LineTypeOK
  <2> SUFFICES ASSUME LineKept, FramingInv, MspInv PROVE LineTypeOK
    OBVIOUS
  <2>1. proto = "Mavlink" =>
          /\ {parser.len, parser.idx} \subseteq 0 .. MaxPayload /\ parser.wait \in 0 .. SignatureLen
          /\ parser.state = "GotMsgid3" => parser.idx < parser.len
    BY DEF FramingInv, MavKept, MavRecord, Value
  <2>2. proto = "Msp" => Len(parser.buf) <= MspBuffer
    BY DEF MspInv, MspKept
  <2>3. proto = "Nmea" => Len(parser.buf) < NmeaBuffer
    BY DEF LineKept, NmeaKept
  <2> QED BY <2>1, <2>2, <2>3 DEF LineTypeOK, LineKept, InFlightKept
<1>2. LineTypeOK /\ BusTypeOK => InputsTypeOK
  BY DEF InputsTypeOK
<1> QED BY <1>1, <1>2, AlwaysLineKept, AlwaysFramingInv, AlwaysMspInv, BusTypeCorrect, PTL

-----------------------------------------------------------------------------
(* The link.  What was said last is the last thing in flight, what a       *)
(* parser takes is found there, and the later ones are left.               *)
EndsIn(s, x) == s # <<>> /\ s[Len(s)] = x
Found(s, t, x) == \E i \in DOMAIN s : x = s[i] /\ t = SubSeq(s, i + 1, Len(s))
LeftOf(p, s) ==
  LET i == SelectInSeq(s, LAMBDA m : m = p.taken)
  IN  IF p.result = "Ok" /\ i # 0 THEN SubSeq(s, i + 1, Len(s)) ELSE s

(* A list of two at most.                                                  *)
LEMMA InFlightShape ==
  ASSUME NEW s, InFlightKept(s)
  PROVE  /\ Len(s) \in 0 .. 2 /\ DOMAIN s = 1 .. Len(s)
         /\ s # <<>> => Len(s) \in 1 .. 2
<1> DEFINE T == {s[i] : i \in DOMAIN s}
<1>1. s \in Seq(T)
  BY DEF InFlightKept, IsList
<1> HIDE DEF T
<1>2. Len(s) \in Nat /\ DOMAIN s = 1 .. Len(s) /\ (Len(s) = 0 => s = <<>>)
  BY <1>1, LenProperties, EmptySeq
<1> QED BY <1>2 DEF InFlightKept

(* What is sent is last in flight, and what was last before it is now      *)
(* first.                                                                  *)
LEMMA LatestEnds ==
  ASSUME NEW s, InFlightKept(s), NEW x
  PROVE  LET t == Link!Latest(Append(s, x))
         IN  /\ EndsIn(t, x)
             /\ s # <<>> => Len(t) = 2 /\ t[1] = s[Len(s)]
<1> DEFINE U == {s[i] : i \in DOMAIN s} \cup {x}
           a == Append(s, x)
           n == Len(s)
           t == Link!Latest(a)
<1>1. s \in Seq(U)
  <2> DEFINE T == {s[i] : i \in DOMAIN s}
  <2>1. s \in Seq(T) /\ T \subseteq U
    BY DEF InFlightKept, IsList
  <2> HIDE DEF T, U
  <2> QED BY <2>1, SeqMonotonic
<1>2. x \in U
  OBVIOUS
<1> HIDE DEF U
<1>3. a \in Seq(U) /\ Len(a) = n + 1 /\ a[n + 1] = x /\ \A i \in 1 .. n : a[i] = s[i]
  BY <1>1, <1>2, AppendProperties
<1>4. n \in 0 .. 2 /\ (s # <<>> => n \in 1 .. 2)
  BY InFlightShape
<1>5. t = IF Len(a) > 2 THEN SubSeq(a, Len(a) - 2 + 1, Len(a)) ELSE a
  BY DEF Link!Latest
<1> HIDE DEF a, t, n
<1>6. CASE n = 2
  <2>1. Len(a) = 3 /\ t = SubSeq(a, 1 + 1, 1 + 2)
    BY <1>3, <1>5, <1>6
  <2>2. t \in Seq(U) /\ Len(t) = 2 /\ \A i \in 1 .. 2 : t[i] = a[1 + i]
    <3>1. 1 \in Nat /\ 2 \in Nat /\ 1 + 2 <= Len(a)
      BY <2>1
    <3> QED BY <1>3, <2>1, <3>1, PartAt
  <2>3. t[1] = s[2] /\ t[2] = x
    <3>1. 1 \in 1 .. 2 /\ 2 \in 1 .. 2 /\ a[2] = s[2] /\ a[3] = x
      BY <1>3, <1>6
    <3> QED BY <2>2, <3>1
  <2>4. t # <<>>
    <3>1. t \in Seq(U) /\ Len(t) # 0
      BY <2>2
    <3> QED BY <3>1, EmptySeq
  <2> QED BY <1>6, <2>2, <2>3, <2>4 DEF EndsIn, n, t, a
<1>7. CASE n # 2
  <2>1. t = a /\ Len(a) = n + 1
    BY <1>3, <1>4, <1>5, <1>7
  <2>2. t # <<>>
    BY <1>4, <2>1, EmptySeq
  <2>3. s # <<>> => Len(t) = 2 /\ t[1] = s[n]
    BY <1>3, <1>4, <1>7, <2>1
  <2> QED BY <1>3, <2>1, <2>2, <2>3 DEF EndsIn, n, t, a
<1> QED BY <1>6, <1>7

(* What is in flight is found, at its first place.                         *)
LEMMA LeftFound ==
  ASSUME NEW s, InFlightKept(s), NEW p, p.result = "Ok",
         NEW k \in 1 .. Len(s), s[k] = p.taken
  PROVE  /\ Found(s, LeftOf(p, s), p.taken)
         /\ k = 1 => LeftOf(p, s) = SubSeq(s, 2, Len(s))
<1> DEFINE x == p.taken
           n == Len(s)
           I == {j \in 1 .. n : s[j] = x}
           i == SelectInSeq(s, LAMBDA m : m = x)
<1>1. n \in 0 .. 2 /\ DOMAIN s = 1 .. n
  BY InFlightShape
<1>2. i = IF I # {} THEN Min(I) ELSE 0
  BY DEF SelectInSeq
<1>3. k \in I /\ I \subseteq 1 .. n
  OBVIOUS
<1>4. Min(I) \in I /\ (1 \in I => Min(I) = 1)
  <2>1. I \subseteq 1 .. 2
    <3> HIDE DEF I, n
    <3> QED BY <1>1, <1>3
  <2> HIDE DEF I
  <2>2. \E u \in I : \A y \in I : u =< y
    <3>1. CASE 1 \in I
      BY <2>1, <3>1
    <3>2. CASE 1 \notin I
      <4>1. k = 2 /\ \A y \in I : y = 2
        BY <1>3, <2>1, <3>2
      <4> QED BY <1>3, <4>1
    <3> QED BY <3>1, <3>2
  <2>3. Min(I) \in I /\ \A y \in I : Min(I) =< y
    BY <2>2 DEF Min
  <2> DEFINE j == Min(I)
  <2> HIDE DEF j
  <2>4. j \in I /\ \A y \in I : j <= y
    BY <2>3 DEF j
  <2>5. 1 \in I => j = 1
    <3>1. 1 \in I => j <= 1 /\ j \in 1 .. 2
      BY <2>1, <2>4
    <3> QED BY <3>1
  <2> QED BY <2>4, <2>5 DEF j
<1> HIDE DEF i
<1>5. i \in I /\ (k = 1 => i = 1)
  <2> HIDE DEF I
  <2> QED BY <1>2, <1>3, <1>4
<1>6. i \in DOMAIN s /\ s[i] = x /\ i # 0
  BY <1>1, <1>5
<1>7. LeftOf(p, s) = IF p.result = "Ok" /\ i # 0 THEN SubSeq(s, i + 1, n) ELSE s
  BY DEF LeftOf, i
<1> HIDE DEF I
<1>8. LeftOf(p, s) = SubSeq(s, i + 1, n)
  BY <1>6, <1>7
<1>9. k = 1 => LeftOf(p, s) = SubSeq(s, 2, n)
  BY <1>5, <1>8
<1> QED BY <1>6, <1>8, <1>9 DEF Found

(* A parser that takes nothing leaves all in flight.                       *)
LEMMA NoneLeft ==
  ASSUME NEW s, NEW p, p.result # "Ok"
  PROVE  LeftOf(p, s) = s
BY DEF LeftOf

(* The second check of the frame m.                                        *)
OwnCheck(c, m) == c = Check(m.check[2], SumOf(m), 2)

(* When it matches the parser has read m and nothing else.                 *)
LEMMA CheckIsOwn ==
  ASSUME NEW q, MavKept(q), Tells(q), NEW m \in MavlinkFrame, NEW c, OwnCheck(c, m),
         q.state = "GotCrc1", Matches(c, q.sum, 2)
  PROVE  /\ m.msgid \in DOMAIN MaxLen /\ InFrame(q, m, BytesRead(q)) /\ m.signed = q.signed
         /\ BytesRead(q) \in Nat /\ BytesRead(q) < Len(MavlinkBytes(m))
         /\ c = MavlinkBytes(m)[BytesRead(q) + 1]
<1> DEFINE g == BytesRead(q)
           b == MavlinkBytes(m)
           k == HeadLen(m) + Len(m.payload)
<1>1. q.sum = SumOf(m)
  BY DEF OwnCheck, Matches, Check
<1>2. m.msgid \in DOMAIN MaxLen /\ InFrame(q, m, g)
  BY <1>1, Unmixed
<1>3. g = k + 2
  BY <1>2, WhereItIs
<1>4. k \in Nat /\ Len(b) \in Nat /\ Len(b) >= k + 3 /\ b[k + 3] = c
  BY FrameNumbers, FrameBytes DEF OwnCheck
<1>5. m.signed = q.signed
  BY <1>2 DEF InFrame
<1> HIDE DEF g, b, k
<1>6. g \in Nat /\ g < Len(b) /\ g + 1 = k + 3
  BY <1>3, <1>4
<1> QED BY <1>2, <1>4, <1>5, <1>6 DEF g, b

(* The parser waits for the signature of x: it is still inside of x.       *)
LEMMA InsideSeal ==
  ASSUME NEW q, MavKept(q), NEW x \in MavlinkFrame, x.signed, InFrame(q, x, BytesRead(q)),
         q.state = "SignatureWait"
  PROVE  BytesRead(q) \in Nat /\ BytesRead(q) < Len(MavlinkBytes(x)) /\ q.wait \in Nat \ {0}
<1> DEFINE g == BytesRead(q)
           k == HeadLen(x) + Len(x.payload)
           l == Len(MavlinkBytes(x))
           w == q.wait
<1>1. g \in Nat /\ w \in Nat /\ g = k + 3 + (SignatureLen - w)
  BY WhereItIs
<1>2. k \in Nat /\ l = k + 3 + SignatureLen /\ SignatureLen \in Nat
  BY FrameNumbers, FrameBytes
<1>3. w # 0
  BY DEF MavKept
<1> HIDE DEF g, k, l, w
<1>4. g < l /\ w \in Nat \ {0}
  BY <1>1, <1>2, <1>3
<1> QED BY <1>1, <1>4 DEF g, l, w

(* What a parser waits for that has read all of a frame but the signature: *)
(* of the frame on the line, or of the one before it.  Where n bytes are   *)
(* to come and k faults were, a signature that is waited for is short.     *)
Waits(q, m, n, k, s, x) ==
  \/ m = x /\ n <= SignatureLen /\ q.wait <= n + k /\ EndsIn(s, MavlinkMeans(x))
  \/ /\ q.wait + Len(MavlinkBytes(m)) <= n + k
     /\ IF m.msgid \in DOMAIN MaxLen THEN Len(s) = 2 /\ s[1] = MavlinkMeans(x)
        ELSE EndsIn(s, MavlinkMeans(x))

Pending(q, m, n, k, s, x) ==
  x.signed /\ x.msgid \in DOMAIN MaxLen /\ InFrame(q, x, BytesRead(q)) /\ Waits(q, m, n, k, s, x)

(* What is summed up is what was read; a frame that is not through is last *)
(* in flight; and so was the one whose signature is waited for.            *)
MavSent(q, m, n, k, s) ==
  /\ Tells(q)
  /\ (m.msgid \in DOMAIN MaxLen /\ n > SealLen(m)) => EndsIn(s, MavlinkMeans(m))
  /\ q.state = "SignatureWait" => \E x \in Messages["Mavlink"] : Pending(q, m, n, k, s, x)

(* A second check is the one of the frame at hand, and comes when only its *)
(* signature is behind it.                                                 *)
OnlyOwn(c, m, n, n2) == c.half = 2 => OwnCheck(c, m) /\ n = SealLen(m) + 1 /\ n2 = SealLen(m)

(* From n bytes to come and k faults to n2 and k2 by one byte.             *)
OneByte(n, k, n2, k2) == n2 <= n /\ n + k <= n2 + k2 + 1

(* The last byte of a frame without a signature.                           *)
LEMMA CheckTakes ==
  ASSUME NEW q, MavKept(q), NEW m \in MavlinkFrame, NEW n \in Nat, NEW k \in Nat,
         NEW s, InFlightKept(s), MavSent(q, m, n, k, s),
         NEW c \in MavlinkByte, NEW n2 \in Nat, NEW k2 \in Nat, OnlyOwn(c, m, n, n2),
         q.state = "GotCrc1", Matches(c, q.sum, 2), ~q.signed
  PROVE  LET r == ParseChar(q, c)
         IN  /\ r.result = "Ok" /\ Found(s, LeftOf(r, s), r.taken)
             /\ MavSent(r, m, n2, k2, LeftOf(r, s))
<1> DEFINE r == ParseChar(q, c)
           g == BytesRead(q)
<1>1. c.half = 2
  BY DEF Matches
<1>2. OwnCheck(c, m) /\ n = SealLen(m) + 1 /\ n2 = SealLen(m)
  BY <1>1 DEF OnlyOwn
<1>3. Tells(q) /\ LastByte(q) /\ Sound(q, c)
  BY DEF MavSent, LastByte, Sound
<1>4. /\ m.msgid \in DOMAIN MaxLen /\ InFrame(q, m, g)
      /\ g \in Nat /\ g < Len(MavlinkBytes(m)) /\ c = MavlinkBytes(m)[g + 1]
  BY <1>2, <1>3, CheckIsOwn
<1>5. r.result = "Ok" /\ r.taken = MavlinkMeans(m)
  BY <1>3, <1>4, LastFollowed
<1>6. r.state = "Idle"
  BY <1>3, StepEnds
<1>7. Tells(r)
  BY <1>3, TellsOn
<1> HIDE DEF r
<1>8. EndsIn(s, MavlinkMeans(m))
  <2>1. SealLen(m) \in Nat
    BY FrameBytes
  <2>2. n > SealLen(m)
    BY <1>2, <2>1
  <2> QED BY <1>4, <2>2 DEF MavSent
<1>9. Len(s) \in 1 .. Len(s) /\ s[Len(s)] = r.taken
  <2>1. s # <<>> /\ s[Len(s)] = r.taken
    BY <1>5, <1>8 DEF EndsIn
  <2>2. Len(s) \in 1 .. 2
    BY <2>1, InFlightShape
  <2> QED BY <2>1, <2>2
<1>10. Found(s, LeftOf(r, s), r.taken)
  BY <1>5, <1>9, LeftFound
<1>11. ~(n2 > SealLen(m))
  <2>1. SealLen(m) \in Nat
    BY FrameBytes
  <2> QED BY <1>2, <2>1
<1>12. MavSent(r, m, n2, k2, LeftOf(r, s))
  BY <1>6, <1>7, <1>11 DEF MavSent
<1> QED BY <1>5, <1>10, <1>12 DEF r

(* The last byte of a signature.                                           *)
LEMMA SealTakes ==
  ASSUME NEW q, MavKept(q), NEW m \in MavlinkFrame, NEW n \in Nat, NEW k \in Nat,
         NEW s, InFlightKept(s), MavSent(q, m, n, k, s),
         NEW c \in MavlinkByte, NEW n2 \in Nat, NEW k2 \in Nat, OneByte(n, k, n2, k2),
         q.state = "SignatureWait", q.wait = 1
  PROVE  LET r == ParseChar(q, c)
         IN  /\ r.result = "Ok" /\ Found(s, LeftOf(r, s), r.taken)
             /\ MavSent(r, m, n2, k2, LeftOf(r, s))
<1> DEFINE r == ParseChar(q, c)
           g == BytesRead(q)
<1>1. Tells(q) /\ LastByte(q) /\ Sound(q, c)
  BY DEF MavSent, LastByte, Sound
<1>2. PICK x \in Messages["Mavlink"] : Pending(q, m, n, k, s, x)
  BY DEF MavSent
<1>3. x \in MavlinkFrame /\ x.signed /\ x.msgid \in DOMAIN MaxLen /\ InFrame(q, x, g)
  BY <1>2, LineAssumption DEF Pending
<1>4. g \in Nat /\ g < Len(MavlinkBytes(x))
  BY <1>3, InsideSeal
<1>5. r.result = "Ok" /\ r.taken = MavlinkMeans(x)
  <2> DEFINE d == MavlinkBytes(x)[g + 1]
  <2>1. r = ParseChar(q, d)
    BY AnySeal
  <2> QED BY <1>1, <1>3, <1>4, <2>1, LastFollowed
<1>6. r.state = "Idle"
  BY <1>1, StepEnds
<1>7. Tells(r)
  BY <1>1, TellsOn
<1> HIDE DEF r
<1>8. Len(s) \in 0 .. 2 /\ (s # <<>> => Len(s) \in 1 .. 2)
  BY InFlightShape
<1> DEFINE Goal == /\ Found(s, LeftOf(r, s), r.taken)
                   /\ (m.msgid \in DOMAIN MaxLen /\ n2 > SealLen(m)) =>
                        EndsIn(LeftOf(r, s), MavlinkMeans(m))
<1>9. ASSUME EndsIn(s, MavlinkMeans(x)) PROVE Found(s, LeftOf(r, s), r.taken)
  <2>1. Len(s) \in 1 .. Len(s) /\ s[Len(s)] = r.taken
    BY <1>5, <1>8, <1>9 DEF EndsIn
  <2> QED BY <1>5, <2>1, LeftFound
<1>10. ASSUME m = x /\ n <= SignatureLen /\ EndsIn(s, MavlinkMeans(x))
       PROVE  Goal
  <2>1. SealLen(m) = SignatureLen /\ SignatureLen \in Nat
    BY <1>3, <1>10, FrameBytes
  <2>2. ~(n2 > SealLen(m))
    BY <1>10, <2>1 DEF OneByte
  <2> QED BY <1>9, <1>10, <2>2
<1>11. ASSUME m.msgid \in DOMAIN MaxLen /\ Len(s) = 2 /\ s[1] = MavlinkMeans(x)
       PROVE  Goal
  <2>1. 1 \in 1 .. Len(s) /\ s[1] = r.taken
    BY <1>5, <1>11
  <2>2. Found(s, LeftOf(r, s), r.taken) /\ LeftOf(r, s) = SubSeq(s, 2, 2)
    BY <1>5, <1>11, <2>1, LeftFound
  <2>3. ASSUME n2 > SealLen(m) PROVE EndsIn(LeftOf(r, s), MavlinkMeans(m))
    <3>1. n > SealLen(m)
      <4>1. SealLen(m) \in Nat
        BY FrameBytes
      <4> QED BY <2>3, <4>1 DEF OneByte
    <3>2. s[2] = MavlinkMeans(m)
      BY <1>11, <3>1 DEF MavSent, EndsIn
    <3> DEFINE T == {s[i] : i \in DOMAIN s}
    <3>3. s \in Seq(T)
      BY DEF InFlightKept, IsList
    <3> HIDE DEF T
    <3>4. 1 \in Nat /\ 1 + 1 <= Len(s) /\ 1 + 1 = 2
      BY <1>11
    <3>5. /\ SubSeq(s, 1 + 1, 1 + 1) \in Seq(T) /\ Len(SubSeq(s, 1 + 1, 1 + 1)) = 1
          /\ \A i \in 1 .. 1 : SubSeq(s, 1 + 1, 1 + 1)[i] = s[1 + i]
      BY <3>3, <3>4, PartAt
    <3> DEFINE t == SubSeq(s, 2, 2)
    <3>6. t \in Seq(T) /\ Len(t) = 1 /\ t[1] = s[2]
      BY <3>4, <3>5
    <3> HIDE DEF t
    <3>7. t # <<>>
      <4>1. t \in Seq(T) /\ Len(t) # 0
        BY <3>6
      <4> QED BY <4>1, EmptySeq
    <3>8. EndsIn(t, MavlinkMeans(m))
      BY <3>2, <3>6, <3>7 DEF EndsIn
    <3> QED BY <2>2, <3>8 DEF t
  <2> QED BY <2>2, <2>3
<1>12. ASSUME m.msgid \notin DOMAIN MaxLen /\ EndsIn(s, MavlinkMeans(x))
       PROVE  Goal
  BY <1>9, <1>12
<1>13. Goal
  <2>1. Waits(q, m, n, k, s, x)
    BY <1>2 DEF Pending
  <2> HIDE DEF Goal
  <2> QED BY <1>10, <1>11, <1>12, <2>1 DEF Waits
<1>14. MavSent(r, m, n2, k2, LeftOf(r, s))
  BY <1>6, <1>7, <1>13 DEF MavSent
<1> QED BY <1>5, <1>13, <1>14 DEF r

(* The second check of a signed frame: its signature is waited for.        *)
LEMMA SealBegins ==
  ASSUME NEW q, MavKept(q), NEW m \in MavlinkFrame, NEW n \in Nat, NEW k \in Nat,
         NEW s, MavSent(q, m, n, k, s), m \in Messages["Mavlink"],
         NEW c \in MavlinkByte, NEW n2 \in Nat, NEW k2 \in Nat, OnlyOwn(c, m, n, n2),
         q.state = "GotCrc1", Matches(c, q.sum, 2), q.signed
  PROVE  \E x \in Messages["Mavlink"] : Pending(ParseChar(q, c), m, n2, k2, s, x)
<1> DEFINE r == ParseChar(q, c)
           g == BytesRead(q)
<1>1. c.half = 2
  BY DEF Matches
<1>2. OwnCheck(c, m) /\ n = SealLen(m) + 1 /\ n2 = SealLen(m)
  BY <1>1 DEF OnlyOwn
<1>3. Tells(q) /\ ~LastByte(q) /\ q.state \in Checking
  BY DEF MavSent, LastByte, Checking
<1>4. /\ m.msgid \in DOMAIN MaxLen /\ InFrame(q, m, g) /\ m.signed
      /\ g \in Nat /\ g < Len(MavlinkBytes(m)) /\ c = MavlinkBytes(m)[g + 1]
  BY <1>2, <1>3, CheckIsOwn
<1>5. InFrame(r, m, g + 1)
  BY <1>3, <1>4, SealFollowed
<1>6. InFrame(r, m, BytesRead(r))
  BY <1>5 DEF InFrame
<1>7. r.wait = SignatureLen
  BY StepSealed
<1> HIDE DEF r, g
<1>8. SealLen(m) = SignatureLen /\ SignatureLen \in Nat
  BY <1>4, FrameBytes
<1>9. n2 <= SignatureLen /\ r.wait <= n2 + k2
  BY <1>2, <1>7, <1>8
<1>10. EndsIn(s, MavlinkMeans(m))
  <2>1. n > SealLen(m)
    BY <1>2, <1>8
  <2> QED BY <1>4, <2>1 DEF MavSent
<1>11. Pending(r, m, n2, k2, s, m)
  BY <1>4, <1>6, <1>9, <1>10 DEF Pending, Waits
<1> QED BY <1>11 DEF r

(* A byte in the place of one of the signature.                            *)
LEMMA SealGoesOn ==
  ASSUME NEW q, MavKept(q), NEW m \in MavlinkFrame, NEW n \in Nat, NEW k \in Nat,
         NEW s, MavSent(q, m, n, k, s),
         NEW c \in MavlinkByte, NEW n2 \in Nat, NEW k2 \in Nat, OneByte(n, k, n2, k2),
         q.state = "SignatureWait", q.wait # 1
  PROVE  \E x \in Messages["Mavlink"] : Pending(ParseChar(q, c), m, n2, k2, s, x)
<1> DEFINE r == ParseChar(q, c)
           g == BytesRead(q)
<1>1. ~LastByte(q) /\ q.state \in Checking
  BY DEF LastByte, Checking
<1>2. PICK x \in Messages["Mavlink"] : Pending(q, m, n, k, s, x)
  BY DEF MavSent
<1>3. x \in MavlinkFrame /\ x.signed /\ x.msgid \in DOMAIN MaxLen /\ InFrame(q, x, g)
  BY <1>2, LineAssumption DEF Pending
<1>4. g \in Nat /\ g < Len(MavlinkBytes(x)) /\ q.wait \in Nat \ {0}
  BY <1>3, InsideSeal
<1>5. InFrame(r, x, g + 1)
  <2> DEFINE d == MavlinkBytes(x)[g + 1]
  <2>1. r = ParseChar(q, d)
    BY AnySeal
  <2>2. InFrame(ParseChar(q, d), x, g + 1)
    BY <1>1, <1>3, <1>4, SealFollowed
  <2> QED BY <2>1, <2>2
<1>6. InFrame(r, x, BytesRead(r))
  BY <1>5 DEF InFrame
<1>7. r.wait = q.wait - 1
  BY StepSignature
<1> HIDE DEF r, g
<1>8. Len(MavlinkBytes(m)) \in Nat
  BY FrameNumbers
<1> DEFINE l == Len(MavlinkBytes(m))
           w == q.wait
           v == r.wait
<1>9. v = w - 1 /\ w \in Nat \ {0} /\ l \in Nat
  BY <1>4, <1>7, <1>8
<1>10. w <= n + k => v <= n2 + k2
  <2> HIDE DEF v, w, l
  <2> QED BY <1>9 DEF OneByte
<1>11. w + l <= n + k => v + l <= n2 + k2
  <2> HIDE DEF v, w, l
  <2> QED BY <1>9 DEF OneByte
<1>12. n <= SignatureLen => n2 <= SignatureLen
  BY MavlinkAssumption DEF OneByte
<1>13. Waits(r, m, n2, k2, s, x)
  BY <1>2, <1>10, <1>11, <1>12 DEF Pending, Waits
<1>14. Pending(r, m, n2, k2, s, x)
  BY <1>3, <1>6, <1>13 DEF Pending
<1> QED BY <1>14 DEF r

(* A frame is taken that is in flight, or nothing is.                      *)
Passes(q, r, s, t) ==
  \/ r.result = "Ok" /\ Found(s, t, r.taken)
  \/ r.result # "Ok" /\ t = s /\ r.taken = q.taken

(* parser.rs:268-447: so does every byte of a line that makes up no check. *)
LEMMA MavByte ==
  ASSUME NEW q, MavKept(q), NEW m \in MavlinkFrame, NEW n \in Nat, NEW k \in Nat,
         NEW s, InFlightKept(s), MavSent(q, m, n, k, s), m \in Messages["Mavlink"],
         NEW c \in MavlinkByte, NEW n2 \in Nat, NEW k2 \in Nat,
         OnlyOwn(c, m, n, n2), OneByte(n, k, n2, k2)
  PROVE  LET r == ParseChar(q, c)
         IN  Passes(q, r, s, LeftOf(r, s)) /\ MavSent(r, m, n2, k2, LeftOf(r, s))
<1> DEFINE r == ParseChar(q, c)
<1>1. CASE LastByte(q) /\ Sound(q, c)
  <2>1. CASE q.state = "GotCrc1"
    <3>1. Matches(c, q.sum, 2) /\ ~q.signed
      BY <1>1, <2>1 DEF LastByte, Sound
    <3>2. /\ r.result = "Ok" /\ Found(s, LeftOf(r, s), r.taken)
          /\ MavSent(r, m, n2, k2, LeftOf(r, s))
      BY <2>1, <3>1, CheckTakes
    <3> HIDE DEF r
    <3>3. Passes(q, r, s, LeftOf(r, s)) /\ MavSent(r, m, n2, k2, LeftOf(r, s))
      BY <3>2 DEF Passes
    <3> QED BY <3>3 DEF r
  <2>2. CASE q.state = "SignatureWait"
    <3>1. q.wait = 1
      BY <1>1, <2>2 DEF LastByte
    <3>2. /\ r.result = "Ok" /\ Found(s, LeftOf(r, s), r.taken)
          /\ MavSent(r, m, n2, k2, LeftOf(r, s))
      BY <2>2, <3>1, SealTakes
    <3> HIDE DEF r
    <3>3. Passes(q, r, s, LeftOf(r, s)) /\ MavSent(r, m, n2, k2, LeftOf(r, s))
      BY <3>2 DEF Passes
    <3> QED BY <3>3 DEF r
  <2> QED BY <1>1, <2>1, <2>2 DEF Sound
<1>2. CASE ~(LastByte(q) /\ Sound(q, c))
  <2>1. r.result # "Ok" /\ r.taken = q.taken
    <3>1. CASE LastByte(q)
      BY <1>2, <3>1, StepEnds
    <3>2. CASE ~LastByte(q)
      <4>1. GoesOn(q, r)
        BY <3>2, NothingTaken
      <4> HIDE DEF r
      <4> QED BY <4>1 DEF GoesOn
    <3> QED BY <3>1, <3>2
  <2>2. Tells(r)
    BY TellsOn DEF MavSent
  <2>3. r.state = "SignatureWait" => \E x \in Messages["Mavlink"] : Pending(r, m, n2, k2, s, x)
    <3> SUFFICES ASSUME r.state = "SignatureWait"
                 PROVE  \E x \in Messages["Mavlink"] : Pending(r, m, n2, k2, s, x)
      OBVIOUS
    <3>1. \/ q.state = "GotCrc1" /\ Matches(c, q.sum, 2) /\ q.signed
          \/ q.state = "SignatureWait" /\ q.wait # 1
      BY SealWaited
    <3> QED BY <3>1, SealBegins, SealGoesOn
  <2> HIDE DEF r
  <2>4. LeftOf(r, s) = s
    BY <2>1, NoneLeft
  <2>5. (m.msgid \in DOMAIN MaxLen /\ n2 > SealLen(m)) => EndsIn(s, MavlinkMeans(m))
    <3>1. SealLen(m) \in Nat
      BY FrameBytes
    <3>2. n2 > SealLen(m) => n > SealLen(m)
      BY <3>1 DEF OneByte
    <3> QED BY <3>2 DEF MavSent
  <2>6. Passes(q, r, s, LeftOf(r, s)) /\ MavSent(r, m, n2, k2, LeftOf(r, s))
    BY <2>1, <2>2, <2>3, <2>4, <2>5 DEF Passes, MavSent
  <2> QED BY <2>6 DEF r
<1> QED BY <1>1, <1>2

(* A byte is lost: as many are to come as before, or a fault more was.     *)
LEMMA MavLoses ==
  ASSUME NEW q, MavKept(q), NEW m \in MavlinkFrame, NEW n \in Nat, NEW k \in Nat,
         NEW s, MavSent(q, m, n, k, s),
         NEW n2 \in Nat, NEW k2 \in Nat, n2 <= n, n + k = n2 + k2
  PROVE  MavSent(q, m, n2, k2, s)
<1>1. n2 > SealLen(m) => n > SealLen(m)
  <2>1. SealLen(m) \in Nat
    BY FrameBytes
  <2> QED BY <2>1
<1>2. n <= SignatureLen => n2 <= SignatureLen
  BY MavlinkAssumption
<1>3. ASSUME NEW x, Pending(q, m, n, k, s, x)
      PROVE  Pending(q, m, n2, k2, s, x)
  BY <1>2, <1>3 DEF Pending, Waits
<1> QED BY <1>1, <1>3 DEF MavSent

(* The next frame is sent: a signature is still waited for only if it is   *)
(* of the frame just before it, for not enough was lost to wait longer.    *)
LEMMA MavSends ==
  ASSUME NEW q, MavKept(q), NEW m \in MavlinkFrame, NEW k \in Nat,
         NEW s, InFlightKept(s), MavSent(q, m, 0, k, s), NEW y \in MavlinkFrame,
         (\E x \in Messages["Mavlink"] : x.signed) => k <= Len(MavlinkBytes(m))
  PROVE  MavSent(q, y, Len(MavlinkBytes(y)), k,
                 IF y.msgid \in DOMAIN MaxLen THEN Link!Latest(Append(s, MavlinkMeans(y))) ELSE s)
<1> DEFINE t == IF y.msgid \in DOMAIN MaxLen THEN Link!Latest(Append(s, MavlinkMeans(y))) ELSE s
           l == Len(MavlinkBytes(y))
<1>1. y.msgid \in DOMAIN MaxLen =>
        /\ EndsIn(t, MavlinkMeans(y))
        /\ s # <<>> => Len(t) = 2 /\ t[1] = s[Len(s)]
  BY LatestEnds
<1>2. y.msgid \notin DOMAIN MaxLen => t = s
  OBVIOUS
<1> HIDE DEF t
<1>3. ASSUME NEW x \in Messages["Mavlink"], q.state = "SignatureWait", Pending(q, m, 0, k, s, x)
      PROVE  Pending(q, y, l, k, t, x)
  <2>1. x \in MavlinkFrame /\ x.signed /\ InFrame(q, x, BytesRead(q)) /\ Waits(q, m, 0, k, s, x)
    BY <1>3, LineAssumption DEF Pending
  <2>2. q.wait \in Nat \ {0}
    BY <1>3, <2>1, InsideSeal
  <2>3. Len(MavlinkBytes(m)) \in Nat /\ l \in Nat
    BY FrameNumbers
  <2>4. ~(q.wait + Len(MavlinkBytes(m)) <= 0 + k)
    <3> DEFINE w == q.wait
               j == Len(MavlinkBytes(m))
    <3>1. w \in Nat \ {0} /\ j \in Nat /\ k <= j
      BY <2>1, <2>2, <2>3
    <3> HIDE DEF w, j
    <3>2. ~(w + j <= 0 + k)
      BY <3>1
    <3> QED BY <3>2 DEF w, j
  <2>5. q.wait <= 0 + k /\ EndsIn(s, MavlinkMeans(x))
    BY <2>1, <2>4 DEF Waits
  <2>6. q.wait + l <= l + k
    <3> DEFINE w == q.wait
    <3>1. w \in Nat /\ w <= 0 + k /\ l \in Nat
      BY <2>2, <2>3, <2>5
    <3> HIDE DEF w, l
    <3>2. w + l <= l + k
      BY <3>1
    <3> QED BY <3>2 DEF w
  <2>7. IF y.msgid \in DOMAIN MaxLen THEN Len(t) = 2 /\ t[1] = MavlinkMeans(x)
        ELSE EndsIn(t, MavlinkMeans(x))
    BY <1>1, <1>2, <2>5 DEF EndsIn
  <2>8. Waits(q, y, l, k, t, x)
    BY <2>6, <2>7 DEF Waits
  <2> QED BY <1>3, <2>8 DEF Pending
<1>4. MavSent(q, y, l, k, t)
  BY <1>1, <1>3 DEF MavSent
<1> QED BY <1>4 DEF t

(* MSP: a frame is still open, or its buffer would have been emptied.      *)
MspOpen(p) == Len(p.buf) >= 6 => Len(p.buf) < 6 + p.buf[4].v

(* A byte that completes a message is its checksum: the payload taken is   *)
(* what the sender computed it of.                                         *)
LEMMA MspByte ==
  ASSUME NEW q, MspKept(q), MspOpen(q), NEW c \in Byte
  PROVE  LET r == MspFeed(q, c)
         IN  /\ MspOpen(r)
             /\ r.result = "Ok" => c.half = 1 /\ r.taken[2] = c.of
             /\ r.result # "Ok" => r.taken = q.taken
<1> DEFINE p    == [q EXCEPT !.result = "Incomplete"]
           old  == IF Starts(p, c) THEN <<>> ELSE p.buf
           buf  == IF Len(old) < MspBuffer THEN Append(old, c) ELSE old
           full == Len(buf) >= 6 /\ Len(buf) >= 6 + buf[4].v
           r    == MspFeed(q, c)
<1>1. p \in MspParser /\ p.buf = q.buf /\ p.taken = q.taken /\ p.result = "Incomplete"
  BY DEF MspKept, MspParser, Results
<1>2. MspBuffer \in Nat \ {0}
  BY MspAssumption
<1> HIDE DEF p
<1>3. p.buf \in Seq(Byte) /\ Len(p.buf) <= MspBuffer /\ MspOpen(p)
  BY <1>1 DEF MspKept, MspParser, MspOpen
<1>4. old \in Seq(Byte) /\ (Len(old) < MspBuffer \/ old = p.buf)
  <2>1. <<>> \in Seq(Byte) /\ Len(<<>>) = 0
    BY EmptySeq
  <2> QED BY <1>2, <1>3, <2>1
<1> HIDE DEF old
<1>5. /\ Append(old, c) \in Seq(Byte) /\ Len(Append(old, c)) = Len(old) + 1 /\ Len(old) \in Nat
      /\ Append(old, c)[Len(old) + 1] = c
  BY <1>4, AppendProperties, LenProperties
<1>6. r = IF ~Starts(p, c) /\ ~p.in_message THEN p
          ELSE IF full THEN [ParseMsp(p, buf) EXCEPT !.buf = <<>>, !.in_message = FALSE]
          ELSE [p EXCEPT !.buf = buf, !.in_message = TRUE]
  BY DEF MspFeed, p, old, buf
<1>7. buf \in Seq(Byte) /\ Len(buf) \in Nat
  <2>1. buf \in Seq(Byte)
    BY <1>4, <1>5
  <2> HIDE DEF buf
  <2> QED BY <2>1, LenProperties
<1>8. full => buf[Len(buf)] = c
  <2> SUFFICES ASSUME full PROVE buf[Len(buf)] = c
    OBVIOUS
  <2>1. Len(old) < MspBuffer
    <3> SUFFICES ASSUME ~(Len(old) < MspBuffer) PROVE FALSE
      OBVIOUS
    <3>1. buf = p.buf
      BY <1>4
    <3>2. Len(p.buf) >= 6 /\ Len(p.buf) >= 6 + p.buf[4].v
      BY <3>1
    <3>3. 4 \in 1 .. Len(p.buf)
      <4>1. Len(p.buf) \in Nat
        BY <1>3, LenProperties
      <4> QED BY <3>2, <4>1
    <3>4. p.buf[4].v \in Nat /\ Len(p.buf) \in Nat
      <4>1. p.buf[4] \in Byte
        BY <1>3, <3>3, ElementOfSeq
      <4> QED BY <1>3, <4>1, LenProperties DEF Byte
    <3> QED BY <1>3, <3>2, <3>4 DEF MspOpen
  <2>2. buf = Append(old, c)
    BY <2>1
  <2> HIDE DEF buf
  <2> QED BY <1>5, <2>2
<1> HIDE DEF buf, r
<1>9. CASE ~Starts(p, c) /\ ~p.in_message
  <2>1. r = p
    BY <1>6, <1>9
  <2>2. MspOpen(r) /\ r.result # "Ok" /\ r.taken = q.taken
    BY <1>1, <1>3, <2>1
  <2> QED BY <2>2 DEF r
<1>10. CASE ~(~Starts(p, c) /\ ~p.in_message) /\ full
  <2> DEFINE z    == ParseMsp(p, buf)
             data == Values(SubSeq(buf, 6, Len(buf) - 1))
             first == Values(SubSeq(buf, 1, 3))
             gps  == Snapshot(p.gps, buf[5].v, data)
             taken == <<buf[5].v, data>>
  <2>1. z \in MspParser
    BY <1>1, <1>7, <1>10, ParseMspKeeps
  <2>2. z = IF first = <<Dollar, LetterM, Arrow>> /\ Matches(buf[Len(buf)], data, 1)
            THEN [p EXCEPT !.result = "Ok", !.taken = taken, !.gps = gps]
            ELSE [p EXCEPT !.result = "BadCrc"]
    BY DEF ParseMsp
  <2> HIDE DEF z, data, gps, first, taken
  <2>3. r = [z EXCEPT !.buf = <<>>, !.in_message = FALSE]
    BY <1>6, <1>10 DEF z
  <2>4. r.buf = <<>> /\ r.result = z.result /\ r.taken = z.taken
    BY <2>1, <2>3 DEF MspParser
  <2>5. MspOpen(r)
    <3>1. Len(<<>>) = 0
      BY EmptySeq
    <3>2. ~(Len(r.buf) >= 6)
      BY <2>4, <3>1
    <3> QED BY <3>2 DEF MspOpen
  <2>6. z.result = "Ok" => c.half = 1 /\ z.taken[2] = c.of
    <3> SUFFICES ASSUME z.result = "Ok" PROVE c.half = 1 /\ z.taken[2] = c.of
      OBVIOUS
    <3>1. Matches(c, data, 1) /\ z.taken = taken
      <4>1. [p EXCEPT !.result = "BadCrc"].result # "Ok"
        BY <1>1 DEF MspParser
      <4>2. Matches(buf[Len(buf)], data, 1)
            /\ z = [p EXCEPT !.result = "Ok", !.taken = taken, !.gps = gps]
        BY <2>2, <4>1
      <4> QED BY <1>1, <1>8, <1>10, <4>2 DEF MspParser
    <3>2. taken[2] = data
      BY DEF taken
    <3> QED BY <3>1, <3>2 DEF Matches
  <2>7. z.result # "Ok" => z.taken = q.taken
    <3> SUFFICES ASSUME z.result # "Ok" PROVE z.taken = q.taken
      OBVIOUS
    <3>1. [p EXCEPT !.result = "Ok", !.taken = taken, !.gps = gps].result = "Ok"
      BY <1>1 DEF MspParser
    <3>2. z = [p EXCEPT !.result = "BadCrc"]
      BY <2>2, <3>1
    <3> QED BY <1>1, <3>2 DEF MspParser
  <2> QED BY <2>4, <2>5, <2>6, <2>7 DEF r
<1>11. CASE ~(~Starts(p, c) /\ ~p.in_message) /\ ~full
  <2>1. r = [p EXCEPT !.buf = buf, !.in_message = TRUE]
    BY <1>6, <1>11
  <2>2. r.buf = buf /\ r.result = "Incomplete" /\ r.taken = q.taken
    BY <1>1, <2>1 DEF MspParser
  <2>3. MspOpen(r)
    <3> SUFFICES ASSUME Len(buf) >= 6 PROVE Len(buf) < 6 + buf[4].v
      BY <2>2 DEF MspOpen
    <3>1. 4 \in 1 .. Len(buf)
      BY <1>7
    <3>2. buf[4].v \in Nat
      <4>1. buf[4] \in Byte
        BY <1>7, <3>1, ElementOfSeq
      <4> QED BY <4>1 DEF Byte
    <3> QED BY <1>7, <1>11, <3>2
  <2> QED BY <2>2, <2>3 DEF r
<1> QED BY <1>9, <1>10, <1>11

(* The buffer has no byte too many of a frame of which g have come, and    *)
(* has none but those if it has so many.                                   *)
HoldsOf(buf, b, g) == Len(buf) <= g /\ (Len(buf) = g => buf = SubSeq(b, 1, g))

(* So it stays when the next one comes, and a payload that is taken then,  *)
(* and is that of the frame, is taken under the type of the frame.         *)
LEMMA MspFollows ==
  ASSUME NEW q, MspKept(q), NEW m \in MspFrame, NEW g \in Nat, g < Len(MspBytes(m)),
         0 < g => HoldsOf(q.buf, MspBytes(m), g)
  PROVE  LET b == MspBytes(m)
             r == MspFeed(q, b[g + 1])
         IN  /\ HoldsOf(r.buf, b, g + 1)
             /\ (r.result = "Ok" /\ r.taken[2] = m.payload) => r.taken = MspMeans(m)
<1> DEFINE b    == MspBytes(m)
           n    == Len(m.payload)
           c    == b[g + 1]
           p    == [q EXCEPT !.result = "Incomplete"]
           old  == IF Starts(p, c) THEN <<>> ELSE p.buf
           buf  == IF Len(old) < MspBuffer THEN Append(old, c) ELSE old
           full == Len(buf) >= 6 /\ Len(buf) >= 6 + buf[4].v
           r    == MspFeed(q, c)
<1>1. p \in MspParser /\ p.buf = q.buf /\ p.result = "Incomplete"
  BY DEF MspKept, MspParser, Results
<1>2. /\ n \in Nat /\ b \in Seq(Byte) /\ Len(b) = 6 + n /\ b[1].v = Dollar /\ b[5].v = m.type
      /\ m.payload \in Seq(Nat) /\ g < Len(b)
  BY MspBytesShape DEF MspFrame
<1>3. MspBuffer \in Nat \ {0}
  BY MspAssumption
<1>4. r = IF ~Starts(p, c) /\ ~p.in_message THEN p
          ELSE IF full THEN [ParseMsp(p, buf) EXCEPT !.buf = <<>>, !.in_message = FALSE]
          ELSE [p EXCEPT !.buf = buf, !.in_message = TRUE]
  BY DEF MspFeed, p, old, buf
<1>5. g = 0 => Starts(p, c)
  BY <1>2 DEF Starts
<1> HIDE DEF b, p, r, n
<1>6. p.buf \in Seq(Byte) /\ Len(p.buf) \in Nat /\ (0 < g => HoldsOf(p.buf, b, g))
  BY <1>1, LenProperties DEF MspParser, b
<1>7. /\ g + 1 \in 1 .. Len(b) /\ 0 <= g + 1 /\ g + 1 <= Len(b)
      /\ g < g + 1 /\ 0 < g + 1 /\ g <= 5 + n /\ Len(b) \in Nat
  BY <1>2
<1>8. c \in Byte
  BY <1>2, <1>7, ElementOfSeq
<1> HIDE DEF c
<1>9. /\ old \in Seq(Byte) /\ Len(old) \in Nat /\ Len(old) <= g
      /\ Len(old) = g => old = SubSeq(b, 1, g)
  <2>1. CASE Starts(p, c)
    <3>1. old = <<>> /\ <<>> \in Seq(Byte) /\ Len(<<>>) = 0
      BY <2>1, EmptySeq
    <3>2. g = 0 => SubSeq(b, 1, g) = <<>>
      <4>1. SubSeq(b, 1, 0) = <<>>
        BY <1>7, SubSeqEmpty
      <4> QED BY <4>1
    <3>3. Len(old) = 0
      BY <3>1
    <3>4. Len(old) \in Nat /\ Len(old) <= g
      BY <3>3
    <3>5. Len(old) = g => old = SubSeq(b, 1, g)
      BY <3>1, <3>2, <3>3
    <3> QED BY <3>1, <3>4, <3>5
  <2>2. CASE ~Starts(p, c)
    <3>1. old = p.buf /\ 0 < g
      BY <1>5, <2>2
    <3> QED BY <1>6, <3>1 DEF HoldsOf
  <2> QED BY <2>1, <2>2
<1> HIDE DEF old
<1>10. /\ Append(old, c) \in Seq(Byte) /\ Len(Append(old, c)) = Len(old) + 1
       /\ \A i \in 1 .. Len(old) : Append(old, c)[i] = old[i]
  BY <1>8, <1>9, AppendProperties
<1>11. buf \in Seq(Byte) /\ Len(buf) \in Nat /\ HoldsOf(buf, b, g + 1)
  <2>1. CASE Len(old) < MspBuffer
    <3>1. buf = Append(old, c)
      BY <2>1
    <3>2. ASSUME Len(old) = g
          PROVE  Append(old, c) = SubSeq(b, 1, g + 1)
      <4>1. SubSeq(b, 1, g + 1) = SubSeq(b, 1, (g + 1) - 1) \o <<b[g + 1]>>
        BY <1>2, <1>7, SubSeqRecursiveSecond
      <4>2. (g + 1) - 1 = g
        OBVIOUS
      <4>3. Append(old, c) = old \o <<c>>
        BY <1>8, <1>9, AppendIsConcat
      <4> QED BY <1>9, <3>2, <4>1, <4>2, <4>3 DEF c
    <3> HIDE DEF buf
    <3>3. Len(buf) = Len(old) + 1 /\ Len(buf) <= g + 1 /\ (Len(buf) = g + 1 => Len(old) = g)
      BY <1>9, <1>10, <3>1
    <3> QED BY <1>9, <1>10, <3>1, <3>2, <3>3 DEF HoldsOf
  <2>2. CASE ~(Len(old) < MspBuffer)
    <3>1. buf = old
      BY <2>2
    <3> HIDE DEF buf
    <3> QED BY <1>9, <3>1 DEF HoldsOf
  <2> QED BY <2>1, <2>2
<1> HIDE DEF buf
<1>12. CASE ~Starts(p, c) /\ ~p.in_message
  <2>1. r = p /\ 0 < g
    BY <1>4, <1>5, <1>12
  <2>2. HoldsOf(r.buf, b, g + 1)
    <3>1. Len(p.buf) <= g /\ Len(p.buf) \in Nat
      BY <1>6, <2>1 DEF HoldsOf
    <3>2. Len(p.buf) <= g + 1 /\ Len(p.buf) # g + 1
      BY <3>1
    <3> QED BY <2>1, <3>2 DEF HoldsOf
  <2>3. r.result # "Ok"
    BY <1>1, <2>1
  <2> QED BY <2>2, <2>3 DEF r, c, b
<1>13. CASE ~(~Starts(p, c) /\ ~p.in_message) /\ ~full
  <2>1. r = [p EXCEPT !.buf = buf, !.in_message = TRUE]
    BY <1>4, <1>13
  <2>2. r.buf = buf /\ r.result = "Incomplete"
    BY <1>1, <2>1 DEF MspParser
  <2>3. HoldsOf(r.buf, b, g + 1) /\ r.result # "Ok"
    BY <1>11, <2>2
  <2> QED BY <2>3 DEF r, c, b
<1>14. CASE ~(~Starts(p, c) /\ ~p.in_message) /\ full
  <2> DEFINE z     == ParseMsp(p, buf)
             part  == SubSeq(buf, 6, Len(buf) - 1)
             data  == Values(part)
             first == Values(SubSeq(buf, 1, 3))
             gps   == Snapshot(p.gps, buf[5].v, data)
             taken == <<buf[5].v, data>>
  <2>1. z \in MspParser
    BY <1>1, <1>11, <1>14, ParseMspKeeps
  <2>2. z = IF first = <<Dollar, LetterM, Arrow>> /\ Matches(buf[Len(buf)], data, 1)
            THEN [p EXCEPT !.result = "Ok", !.taken = taken, !.gps = gps]
            ELSE [p EXCEPT !.result = "BadCrc"]
    BY DEF ParseMsp
  <2> HIDE DEF z, gps, first, taken
  <2>3. r = [z EXCEPT !.buf = <<>>, !.in_message = FALSE]
    BY <1>4, <1>14 DEF z
  <2>4. r.buf = <<>> /\ r.result = z.result /\ r.taken = z.taken
    BY <2>1, <2>3 DEF MspParser
  <2>5. HoldsOf(r.buf, b, g + 1)
    <3>1. Len(<<>>) = 0
      BY EmptySeq
    <3> QED BY <1>7, <2>4, <3>1 DEF HoldsOf
  <2>6. ASSUME z.result = "Ok", z.taken[2] = m.payload
        PROVE  z.taken = MspMeans(m)
    <3>1. [p EXCEPT !.result = "BadCrc"].result # "Ok"
      BY <1>1 DEF MspParser
    <3>2. z = [p EXCEPT !.result = "Ok", !.taken = taken, !.gps = gps]
      BY <2>2, <2>6, <3>1
    <3>3. z.taken = taken
      BY <1>1, <3>2 DEF MspParser
    <3>4. data = m.payload /\ taken = <<buf[5].v, data>>
      BY <2>6, <3>3 DEF taken
    <3>5. Len(data) = Len(buf) - 6
      <4>1. Len(buf) - 6 \in Nat /\ 5 + (Len(buf) - 6) <= Len(buf)
            /\ 5 + 1 = 6 /\ 5 + (Len(buf) - 6) = Len(buf) - 1
        BY <1>11, <1>14
      <4>2. /\ SubSeq(buf, 5 + 1, 5 + (Len(buf) - 6)) \in Seq(Byte)
            /\ Len(SubSeq(buf, 5 + 1, 5 + (Len(buf) - 6))) = Len(buf) - 6
        BY <1>11, <4>1, PartAt
      <4>3. part \in Seq(Byte) /\ Len(part) = Len(buf) - 6
        BY <4>1, <4>2
      <4> HIDE DEF part
      <4> QED BY <4>3, ValuesTyped
    <3>6. Len(buf) = 6 + n
      <4> HIDE DEF data
      <4>1. n = Len(buf) - 6
        BY <3>4, <3>5 DEF n
      <4> QED BY <1>2, <1>11, <4>1
    <3>7. Len(buf) = g + 1 /\ 5 \in 1 .. g + 1
      <4>1. Len(buf) <= g + 1 /\ g \in Nat
        BY <1>11 DEF HoldsOf
      <4> QED BY <1>2, <1>7, <3>6, <4>1
    <3>8. buf = SubSeq(b, 1, g + 1)
      BY <1>11, <3>7 DEF HoldsOf
    <3>9. SubSeq(b, 1, g + 1)[5] = b[5]
      <4> DEFINE s == SubSeq(b, 0 + 1, 0 + (g + 1))
      <4>1. 0 \in Nat /\ g + 1 \in Nat /\ 0 + (g + 1) <= Len(b)
        BY <1>7
      <4>2. \A i \in 1 .. g + 1 : s[i] = b[0 + i]
        BY <1>2, <4>1, PartAt
      <4>3. s = SubSeq(b, 1, g + 1)
        BY <1>7
      <4> HIDE DEF s
      <4>4. s[5] = b[0 + 5]
        BY <3>7, <4>2
      <4>5. 0 + 5 = 5
        OBVIOUS
      <4> QED BY <4>3, <4>4, <4>5
    <3>10. buf[5] = b[5]
      BY <3>8, <3>9
    <3> QED BY <1>2, <3>3, <3>4, <3>10 DEF MspMeans
  <2> QED BY <2>4, <2>5, <2>6 DEF r, c, b
<1> QED BY <1>12, <1>13, <1>14

(* What the parsers know of what was sent.  Of MSP, when g bytes of the    *)
(* frame have gone:                                                        *)
MspGone(g) ==
  LET b == MspBytes(frame)
  IN  /\ rest = SubSeq(b, g + 1, Len(b))
      /\ (unmixed /\ 0 < g) => HoldsOf(parser.buf, b, g)

LinkKept ==
  /\ proto = "Mavlink" =>
       /\ MavSent(parser, frame, Len(rest), faults, in_flight)
       /\ accepted = parser.taken
  /\ proto = "Msp" =>
       /\ MspOpen(parser)
       /\ \E g \in 0 .. Len(MspBytes(frame)) : MspGone(g)
       /\ rest # <<>> => EndsIn(in_flight, MspMeans(frame))

(* What is found in flight and accepted is taken from the link.            *)
LEMMA TakesOn ==
  ASSUME Found(in_flight, in_flight', accepted')
  PROVE  [Link!LinkNext]_<<in_flight, accepted>>
<1>1. Link!Take
  BY DEF Link!Take, Found
<1> QED BY <1>1 DEF Link!LinkNext

(* What a byte makes of the MAVLink parser is a step of the link.          *)
LEMMA PassesOn ==
  ASSUME proto = "Mavlink", accepted = parser.taken, accepted' = LastOf(parser'),
         Passes(parser, parser', in_flight, in_flight')
  PROVE  accepted' = parser'.taken /\ [Link!LinkNext]_<<in_flight, accepted>>
<1>1. Accepts(parser') <=> parser'.result = "Ok"
  BY DEF Accepts, Sealed
<1>2. CASE parser'.result = "Ok" /\ Found(in_flight, in_flight', parser'.taken)
  <2>1. accepted' = parser'.taken
    BY <1>1, <1>2 DEF LastOf
  <2> QED BY <1>2, <2>1, TakesOn
<1>3. CASE parser'.result # "Ok" /\ in_flight' = in_flight /\ parser'.taken = parser.taken
  <2>1. accepted' = accepted /\ accepted' = parser'.taken
    BY <1>1, <1>3 DEF LastOf
  <2> QED BY <1>3, <2>1
<1> QED BY <1>2, <1>3 DEF Passes

(* A parser that is not heard changes nothing.                             *)
LEMMA NothingAccepted ==
  ASSUME NEW p, ~Accepts(p), in_flight' = LeftBy(p), accepted' = LastOf(p)
  PROVE  in_flight' = in_flight /\ accepted' = accepted
BY DEF LeftBy, LastOf

(* A frame that is sent is one.                                            *)
LEMMA SendsOn ==
  ASSUME NEW x, InFlightKept(in_flight), in_flight' = Link!Latest(Append(in_flight, x)),
         accepted' = accepted
  PROVE  [Link!LinkNext]_<<in_flight, accepted>>
<1>1. in_flight' # <<>> /\ in_flight'[Len(in_flight')] = x
  BY LatestEnds DEF EndsIn
<1>2. in_flight' = Link!Latest(Append(in_flight, in_flight'[Len(in_flight')]))
  BY <1>1
<1>3. Link!Send
  BY <1>1, <1>2 DEF Link!Send
<1> QED BY <1>3 DEF Link!LinkNext

(* Of a frame with g bytes gone those are left that come after them.       *)
LEMMA BytesLeft ==
  ASSUME NEW b \in Seq(Byte), NEW g \in 0 .. Len(b)
  PROVE  Len(SubSeq(b, g + 1, Len(b))) = Len(b) - g
<1>1. Len(b) \in Nat
  BY LenProperties
<1> DEFINE n == Len(b) - g
<1>2. g \in Nat /\ n \in Nat /\ g + n <= Len(b) /\ g + n = Len(b)
  BY <1>1
<1> HIDE DEF n
<1>3. Len(SubSeq(b, g + 1, g + n)) = n
  BY <1>2, PartAt
<1> QED BY <1>2, <1>3 DEF n

(* A step of the line is a step of the link, and what the parsers know     *)
(* stays true.  The next frame:                                            *)
LEMMA LinkSends ==
  ASSUME HonestLine, LineKept, FramingInv, MspInv, LinkKept,
         NEW m \in Messages[proto], SendFrame(m)
  PROVE  LinkKept' /\ [Link!LinkNext]_<<in_flight, accepted>>
<1>1. /\ rest = <<>> /\ frame' = m /\ rest' = BytesOf(m)
      /\ in_flight' = IF Sealed /\ Readable(m) THEN Link!Latest(Append(in_flight, Means(m)))
                      ELSE in_flight
      /\ proto' = proto /\ parser' = parser /\ faults' = faults /\ accepted' = accepted
  BY DEF SendFrame
<1>2. InFlightKept(in_flight) /\ faults \in 0 .. MaxFaults[proto] /\ proto \in SerialProtocols
      /\ frame \in Messages[proto]
  BY DEF LineKept
<1>3. [Link!LinkNext]_<<in_flight, accepted>>
  <2>1. CASE Sealed /\ Readable(m)
    BY <1>1, <1>2, <2>1, SendsOn
  <2>2. CASE ~(Sealed /\ Readable(m))
    BY <1>1, <2>2
  <2> QED BY <2>1, <2>2
<1>4. ASSUME proto = "Mavlink"
      PROVE  /\ MavSent(parser', frame', Len(rest'), faults', in_flight')
             /\ accepted' = parser'.taken
  <2>1. /\ frame \in MavlinkFrame /\ m \in MavlinkFrame /\ MavKept(parser)
        /\ MaxFaults[proto] \in Nat
    BY <1>2, <1>4, LineAssumption DEF FramingInv, SerialProtocols
  <2>2. MavSent(parser, frame, 0, faults, in_flight)
    <3>1. Len(rest) = 0
      BY <1>1, ListEmpty
    <3> QED BY <1>4, <3>1 DEF LinkKept
  <2>3. faults \in Nat
    BY <1>2, <2>1
  <2>4. ASSUME \E x \in Messages["Mavlink"] : x.signed
        PROVE  faults <= Len(MavlinkBytes(frame))
    <3>1. MaxFaults[proto] <= Len(MavlinkBytes(frame))
      BY <1>2, <1>4, <2>4 DEF HonestLine
    <3> DEFINE j == MaxFaults[proto]
               l == Len(MavlinkBytes(frame))
    <3>2. j \in Nat /\ l \in Nat /\ faults \in 0 .. j /\ j <= l
      BY <1>2, <2>1, <3>1, FrameNumbers
    <3> HIDE DEF j, l
    <3>3. faults <= l
      BY <3>2
    <3> QED BY <3>3 DEF l
  <2>5. MavSent(parser, m, Len(MavlinkBytes(m)), faults,
                IF m.msgid \in DOMAIN MaxLen
                THEN Link!Latest(Append(in_flight, MavlinkMeans(m))) ELSE in_flight)
    BY <1>2, <2>1, <2>2, <2>3, <2>4, MavSends
  <2>6. /\ rest' = MavlinkBytes(m)
        /\ in_flight' = IF m.msgid \in DOMAIN MaxLen
                        THEN Link!Latest(Append(in_flight, MavlinkMeans(m))) ELSE in_flight
    BY <1>1, <1>4 DEF BytesOf, Sealed, Readable, Means
  <2>7. accepted = parser.taken
    BY <1>4 DEF LinkKept
  <2> QED BY <1>1, <2>5, <2>6, <2>7
<1>5. ASSUME proto = "Msp"
      PROVE  /\ MspOpen(parser')
             /\ (\E g \in 0 .. Len(MspBytes(frame)) : MspGone(g))'
             /\ EndsIn(in_flight', MspMeans(frame'))
  <2>1. MspOpen(parser')
    BY <1>1, <1>5 DEF LinkKept
  <2>2. rest' = MspBytes(m) /\ in_flight' = Link!Latest(Append(in_flight, MspMeans(m)))
    BY <1>1, <1>5 DEF BytesOf, Sealed, Readable, Means
  <2>3. EndsIn(in_flight', MspMeans(m))
    BY <1>2, <2>2, LatestEnds
  <2> DEFINE b == MspBytes(m)
  <2>4. b \in Seq(Byte) /\ Len(b) \in Nat
    <3>1. m \in MspFrame
      BY <1>5, LineAssumption
    <3>2. b \in Seq(Byte)
      BY <3>1, MspBytesShape
    <3> HIDE DEF b
    <3> QED BY <3>2, LenProperties
  <2> HIDE DEF b
  <2>5. 0 \in 0 .. Len(b) /\ b = SubSeq(b, 0 + 1, Len(b))
    <3>1. SubSeq(b, 1, Len(b)) = b
      BY <2>4, SubSeqFull
    <3> QED BY <2>4, <3>1
  <2>6. MspGone(0)'
    BY <1>1, <2>2, <2>5 DEF MspGone, b
  <2> QED BY <1>1, <2>1, <2>3, <2>5, <2>6 DEF b
<1>6. LinkKept'
  BY <1>1, <1>4, <1>5 DEF LinkKept
<1> QED BY <1>3, <1>6

(* A byte of the frame arrives:                                            *)
LEMMA LinkArrives ==
  ASSUME HonestLine, LineKept, FramingInv, MspInv, LinkKept, Arrive
  PROVE  LinkKept' /\ [Link!LinkNext]_<<in_flight, accepted>>
<1>1. /\ rest # <<>> /\ rest' = Tail(rest) /\ parser' = Feed(parser, Head(rest))
      /\ in_flight' = LeftBy(parser') /\ accepted' = LastOf(parser')
      /\ proto' = proto /\ frame' = frame /\ faults' = faults /\ unmixed' = unmixed
  BY DEF Arrive
<1>2. InFlightKept(in_flight) /\ faults \in 0 .. MaxFaults[proto] /\ proto \in SerialProtocols
      /\ frame \in Messages[proto] /\ MaxFaults[proto] \in Nat
  BY LineAssumption DEF LineKept, SerialProtocols
<1>3. (Sealed /\ (proto = "Msp" => unmixed)) => in_flight' = LeftOf(parser', in_flight)
  BY <1>1 DEF LeftBy, LeftOf, Accepts
<1>4. CASE proto = "Mavlink"
  <2>1. frame \in MavlinkFrame /\ MavKept(parser) /\ Sealed
    BY <1>4 DEF FramingInv, Sealed
  <2> DEFINE b == MavlinkBytes(frame)
             k == HeadLen(frame) + Len(frame.payload)
  <2>2. PICK g \in 0 .. Len(b) : rest = SubSeq(b, g + 1, Len(b))
    BY <1>4 DEF FramingInv
  <2> DEFINE c == b[g + 1]
  <2>3. /\ g \in Nat /\ Len(b) \in Nat /\ g < Len(b) /\ g + 1 \in 0 .. Len(b)
        /\ Len(rest) = Len(b) - g
        /\ Head(rest) = c /\ Tail(rest) = SubSeq(b, (g + 1) + 1, Len(b))
    BY <1>1, <2>1, <2>2, StillToCome
  <2>4. Len(rest') = Len(b) - (g + 1)
    BY <1>1, <2>1, <2>3, StillToCome
  <2>5. /\ k \in Nat /\ Len(b) = k + 3 + SealLen(frame) /\ SealLen(frame) \in Nat
        /\ \A i \in 1 .. Len(b) : b[i] \in MavlinkByte
        /\ b[k + 3] = Check(frame.check[2], SumOf(frame), 2)
        /\ \A i \in 1 .. Len(b) : b[i].half = 2 => i = k + 3
    BY <2>1, FrameBytes, MavlinkBytesShape
  <2> HIDE DEF b, k
  <2>6. g + 1 \in 1 .. Len(b)
    BY <2>3
  <2>7. c \in MavlinkByte
    BY <2>5, <2>6
  <2>8. OnlyOwn(c, frame, Len(rest), Len(rest'))
    <3> SUFFICES ASSUME c.half = 2
                 PROVE  /\ OwnCheck(c, frame) /\ Len(rest) = SealLen(frame) + 1
                        /\ Len(rest') = SealLen(frame)
      BY DEF OnlyOwn
    <3>1. g + 1 = k + 3
      BY <2>5, <2>6
    <3>2. OwnCheck(c, frame)
      BY <2>5, <3>1 DEF OwnCheck
    <3> DEFINE l == Len(b)
               z == SealLen(frame)
               e == Len(rest)
               f == Len(rest')
    <3>3. l = k + 3 + z /\ k \in Nat /\ z \in Nat /\ g \in Nat /\ e = l - g /\ f = l - (g + 1)
      BY <2>3, <2>4, <2>5
    <3> HIDE DEF l, z, e, f
    <3>4. e = z + 1 /\ f = z
      BY <3>1, <3>3
    <3> QED BY <3>2, <3>4 DEF e, f, z
  <2>9. Len(rest) \in Nat /\ Len(rest') \in Nat /\ OneByte(Len(rest), faults, Len(rest'), faults)
    <3> DEFINE l == Len(b)
               e == Len(rest)
               f == Len(rest')
    <3>1. l \in Nat /\ g \in Nat /\ g < l /\ e = l - g /\ f = l - (g + 1) /\ faults \in Nat
      BY <1>2, <2>3, <2>4
    <3> HIDE DEF l, e, f
    <3>2. e \in Nat /\ f \in Nat /\ OneByte(e, faults, f, faults)
      BY <3>1 DEF OneByte
    <3> QED BY <3>2 DEF e, f
  <2>10. parser' = ParseChar(parser, c)
    BY <1>1, <1>4, <2>3 DEF Feed
  <2> HIDE DEF c
  <2>11. MavSent(parser, frame, Len(rest), faults, in_flight) /\ faults \in Nat
         /\ frame \in Messages["Mavlink"]
    BY <1>2, <1>4 DEF LinkKept
  <2>12. /\ Passes(parser, parser', in_flight, LeftOf(parser', in_flight))
         /\ MavSent(parser', frame, Len(rest'), faults, LeftOf(parser', in_flight))
    BY <1>2, <2>1, <2>7, <2>8, <2>9, <2>10, <2>11, MavByte
  <2>13. in_flight' = LeftOf(parser', in_flight) /\ accepted = parser.taken
    BY <1>3, <1>4, <2>1 DEF LinkKept
  <2>14. accepted' = parser'.taken /\ [Link!LinkNext]_<<in_flight, accepted>>
    BY <1>1, <1>4, <2>12, <2>13, PassesOn
  <2>15. LinkKept'
    BY <1>1, <1>4, <2>12, <2>13, <2>14 DEF LinkKept
  <2> QED BY <2>14, <2>15
<1>5. CASE proto = "Msp"
  <2>1. frame \in MspFrame /\ MspKept(parser) /\ Sealed /\ MspOpen(parser)
    BY <1>5 DEF MspInv, Sealed, LinkKept
  <2> DEFINE b == MspBytes(frame)
             n == Len(frame.payload)
  <2>2. PICK g \in 0 .. Len(b) : MspGone(g)
    BY <1>5 DEF LinkKept
  <2>h. /\ rest = SubSeq(b, g + 1, Len(b))
        /\ (unmixed /\ 0 < g) => HoldsOf(parser.buf, b, g)
    BY <2>2 DEF MspGone
  <2>3. /\ n \in Nat /\ b \in Seq(Byte) /\ Len(b) = 6 + n
        /\ b[6 + n] = Check(frame.check, frame.payload, 1)
        /\ \A i \in 1 .. 5 + n : b[i].half = 0
    BY <2>1, MspBytesShape
  <2> DEFINE c == b[g + 1]
  <2> HIDE DEF b, n
  <2>4. /\ g \in Nat /\ g < Len(b) /\ g + 1 \in 1 .. Len(b)
        /\ Head(rest) = c /\ Tail(rest) = SubSeq(b, (g + 1) + 1, Len(b))
    BY <1>1, <2>h, <2>3, RestOfFrame
  <2>5. c \in Byte
    BY <2>3, <2>4, ElementOfSeq
  <2>6. parser' = MspFeed(parser, c)
    BY <1>1, <1>5, <2>4 DEF Feed
  <2>7. c.half = 1 => c.of = frame.payload /\ rest' = <<>>
    <3> SUFFICES ASSUME c.half = 1 PROVE c.of = frame.payload /\ rest' = <<>>
      OBVIOUS
    <3>1. g + 1 = 6 + n
      <4>1. ~(g + 1 \in 1 .. 5 + n)
        BY <2>3
      <4> QED BY <2>3, <2>4, <4>1
    <3>2. c.of = frame.payload
      BY <2>3, <3>1 DEF Check
    <3>3. rest' = SubSeq(b, (6 + n) + 1, 6 + n)
      BY <1>1, <2>3, <2>4, <3>1
    <3>4. SubSeq(b, (6 + n) + 1, 6 + n) = <<>>
      BY <2>3, SubSeqEmpty
    <3> QED BY <3>2, <3>3, <3>4
  <2> HIDE DEF c
  <2>8. /\ MspOpen(parser')
        /\ parser'.result = "Ok" => c.half = 1 /\ parser'.taken[2] = c.of
    BY <2>1, <2>5, <2>6, MspByte
  <2>9. EndsIn(in_flight, MspMeans(frame))
    BY <1>1, <1>5 DEF LinkKept
  <2>f. ASSUME unmixed
        PROVE  /\ HoldsOf(parser'.buf, b, g + 1)
               /\ (parser'.result = "Ok" /\ parser'.taken[2] = frame.payload) =>
                    parser'.taken = MspMeans(frame)
    BY <2>1, <2>h, <2>f, <2>4, <2>6, MspFollows DEF b, c
  <2>10. ASSUME Accepts(parser')
         PROVE  /\ [Link!LinkNext]_<<in_flight, accepted>>
                /\ rest' = <<>>
    <3>0. parser'.result = "Ok" /\ unmixed /\ accepted' = parser'.taken
      BY <1>1, <1>5, <2>10 DEF Accepts, LastOf
    <3>1. parser'.taken = MspMeans(frame) /\ rest' = <<>>
      BY <2>7, <2>8, <2>f, <3>0
    <3>2. Len(in_flight) \in 1 .. Len(in_flight)
      BY <1>2, <2>9, InFlightShape DEF EndsIn
    <3>3. in_flight[Len(in_flight)] = parser'.taken
      BY <2>9, <3>1 DEF EndsIn
    <3>4. Found(in_flight, LeftOf(parser', in_flight), parser'.taken)
      BY <1>2, <3>0, <3>2, <3>3, LeftFound
    <3>5. Found(in_flight, in_flight', accepted')
      BY <1>3, <2>1, <3>0, <3>4
    <3> QED BY <3>1, <3>5, TakesOn
  <2>11. ASSUME ~Accepts(parser')
         PROVE  in_flight' = in_flight /\ accepted' = accepted
    BY <1>1, <2>11, NothingAccepted
  <2>12. (\E j \in 0 .. Len(MspBytes(frame)) : MspGone(j))'
    <3>1. g + 1 \in 0 .. Len(b)
      BY <2>4
    <3>2. MspGone(g + 1)'
      BY <1>1, <2>4, <2>f DEF MspGone, b
    <3> QED BY <1>1, <3>1, <3>2 DEF b
  <2>13. rest' # <<>> => EndsIn(in_flight', MspMeans(frame))
    BY <2>9, <2>10, <2>11
  <2>14. LinkKept'
    BY <1>1, <1>5, <2>8, <2>12, <2>13 DEF LinkKept
  <2> QED BY <2>10, <2>11, <2>14
<1>6. CASE proto = "Nmea"
  <2>1. ~Accepts(parser')
    BY <1>6 DEF Accepts, Sealed
  <2>2. in_flight' = in_flight /\ accepted' = accepted
    BY <1>1, <2>1, NothingAccepted
  <2>3. LinkKept'
    BY <1>1, <1>6 DEF LinkKept
  <2> QED BY <2>2, <2>3
<1> QED BY <1>2, <1>4, <1>5, <1>6, LineAssumption DEF SerialProtocols

(* a byte is lost:                                                         *)
LEMMA LinkLoses ==
  ASSUME HonestLine, LineKept, FramingInv, MspInv, LinkKept, Lose
  PROVE  LinkKept' /\ [Link!LinkNext]_<<in_flight, accepted>>
<1>1. /\ rest # <<>> /\ rest' = Tail(rest) /\ parser' = parser /\ in_flight' = in_flight
      /\ proto' = proto /\ frame' = frame /\ faults' = faults + 1
      /\ accepted' = accepted /\ unmixed' = (unmixed /\ Begun)
  BY DEF Lose, Fault
<1>2. faults \in 0 .. MaxFaults[proto] /\ MaxFaults[proto] \in Nat
  BY LineAssumption DEF LineKept, SerialProtocols
<1>3. [Link!LinkNext]_<<in_flight, accepted>>
  BY <1>1
<1>4. ASSUME proto = "Mavlink"
      PROVE  MavSent(parser, frame, Len(rest'), faults', in_flight)
  <2>1. frame \in MavlinkFrame /\ MavKept(parser)
    BY <1>4 DEF FramingInv
  <2> DEFINE b == MavlinkBytes(frame)
  <2>2. PICK g \in 0 .. Len(b) : rest = SubSeq(b, g + 1, Len(b))
    BY <1>4 DEF FramingInv
  <2>3. /\ g \in Nat /\ Len(b) \in Nat /\ g < Len(b) /\ g + 1 \in 0 .. Len(b)
        /\ Len(rest) = Len(b) - g /\ Tail(rest) = SubSeq(b, (g + 1) + 1, Len(b))
    BY <1>1, <2>1, <2>2, StillToCome
  <2>4. Len(rest') = Len(b) - (g + 1)
    BY <1>1, <2>1, <2>3, StillToCome
  <2> DEFINE l == Len(b)
             e == Len(rest)
             f == Len(rest')
             a == faults
             z == faults'
  <2>5. l \in Nat /\ g \in Nat /\ g < l /\ e = l - g /\ f = l - (g + 1) /\ a \in Nat /\ z = a + 1
    BY <1>1, <1>2, <2>3, <2>4
  <2>6. MavSent(parser, frame, e, a, in_flight)
    BY <1>4 DEF LinkKept
  <2> HIDE DEF l, e, f, a, z
  <2>7. e \in Nat /\ f \in Nat /\ z \in Nat /\ f <= e /\ e + a = f + z
    BY <2>5
  <2>8. MavSent(parser, frame, f, z, in_flight)
    BY <2>1, <2>5, <2>6, <2>7, MavLoses
  <2> QED BY <2>8 DEF f, z
<1>5. ASSUME proto = "Msp"
      PROVE  (\E g \in 0 .. Len(MspBytes(frame)) : MspGone(g))'
  <2> DEFINE b == MspBytes(frame)
  <2>1. PICK g \in 0 .. Len(b) : MspGone(g)
    BY <1>5 DEF LinkKept
  <2>h. /\ rest = SubSeq(b, g + 1, Len(b))
        /\ (unmixed /\ 0 < g) => HoldsOf(parser.buf, b, g)
    BY <2>1 DEF MspGone
  <2>2. b \in Seq(Byte)
    BY <1>5, MspBytesShape DEF MspInv
  <2>b. Begun <=> Len(rest) < Len(b)
    BY <1>5 DEF Begun, BytesOf
  <2> HIDE DEF b
  <2>3. g + 1 \in 1 .. Len(b) /\ Tail(rest) = SubSeq(b, (g + 1) + 1, Len(b))
    BY <1>1, <2>h, <2>2, RestOfFrame
  <2>4. g + 1 \in 0 .. Len(b) /\ g \in Nat /\ Len(b) \in Nat
    BY <2>2, <2>3, LenProperties
  <2>5. unmixed' => unmixed /\ 0 < g
    <3>1. Len(rest) = Len(b) - g
      BY <2>h, <2>2, BytesLeft
    <3>2. Len(b) - g < Len(b) => 0 < g
      BY <2>4
    <3> QED BY <1>1, <2>b, <3>1, <3>2
  <2>6. unmixed' => HoldsOf(parser.buf, b, g + 1)
    <3> SUFFICES ASSUME unmixed' PROVE HoldsOf(parser.buf, b, g + 1)
      OBVIOUS
    <3>1. Len(parser.buf) <= g /\ Len(parser.buf) \in Nat
      BY <1>5, <2>h, <2>5, LenProperties DEF HoldsOf, MspInv, MspKept, MspParser
    <3>2. Len(parser.buf) <= g + 1 /\ Len(parser.buf) # g + 1
      BY <2>4, <3>1
    <3> QED BY <3>2 DEF HoldsOf
  <2>7. MspGone(g + 1)'
    BY <1>1, <2>3, <2>6 DEF MspGone, b
  <2> QED BY <1>1, <2>4, <2>7 DEF b
<1>6. LinkKept'
  BY <1>1, <1>4, <1>5 DEF LinkKept
<1> QED BY <1>3, <1>6

(* one is made up, and no checksum is among those.                         *)
LEMMA LinkMakesUp ==
  ASSUME HonestLine, LineKept, FramingInv, MspInv, LinkKept, NEW c \in Noise[proto], MakeUp(c)
  PROVE  LinkKept' /\ [Link!LinkNext]_<<in_flight, accepted>>
<1>1. /\ rest' = rest /\ parser' = Feed(parser, c) /\ in_flight' = LeftBy(parser')
      /\ accepted' = LastOf(parser') /\ unmixed' = (unmixed /\ ~Begun)
      /\ proto' = proto /\ frame' = frame /\ faults' = faults + 1
  BY DEF MakeUp, Fault
<1>2. InFlightKept(in_flight) /\ faults \in 0 .. MaxFaults[proto] /\ proto \in SerialProtocols
      /\ frame \in Messages[proto] /\ MaxFaults[proto] \in Nat
  BY LineAssumption DEF LineKept, SerialProtocols
<1>3. (Sealed /\ (proto = "Msp" => unmixed)) => in_flight' = LeftOf(parser', in_flight)
  BY <1>1 DEF LeftBy, LeftOf, Accepts
<1>4. CASE proto = "Mavlink"
  <2>1. frame \in MavlinkFrame /\ MavKept(parser) /\ Sealed
    BY <1>4 DEF FramingInv, Sealed
  <2>2. c \in MavlinkByte /\ c.half = 0
    BY <1>4, LineAssumption DEF HonestLine
  <2>3. OnlyOwn(c, frame, Len(rest), Len(rest))
    BY <2>2 DEF OnlyOwn
  <2>4. Len(rest) \in Nat /\ faults \in Nat /\ faults' \in Nat
    <3> DEFINE b == MavlinkBytes(frame)
    <3>1. PICK g \in 0 .. Len(b) : rest = SubSeq(b, g + 1, Len(b))
      BY <1>4 DEF FramingInv
    <3>2. g \in Nat /\ Len(b) \in Nat /\ Len(rest) = Len(b) - g
      BY <2>1, <3>1, StillToCome
    <3> DEFINE l == Len(b)
               e == Len(rest)
    <3>3. l \in Nat /\ g \in 0 .. l /\ e = l - g
      BY <3>2
    <3> HIDE DEF l, e
    <3>4. e \in Nat
      BY <3>3
    <3> QED BY <1>1, <1>2, <3>4 DEF e
  <2>5. OneByte(Len(rest), faults, Len(rest), faults')
    <3> DEFINE e == Len(rest)
    <3>1. e \in Nat /\ faults \in Nat /\ faults' = faults + 1
      BY <1>1, <2>4
    <3> HIDE DEF e
    <3>2. OneByte(e, faults, e, faults')
      BY <3>1 DEF OneByte
    <3> QED BY <3>2 DEF e
  <2>6. parser' = ParseChar(parser, c)
    BY <1>1, <1>4 DEF Feed
  <2>7. MavSent(parser, frame, Len(rest), faults, in_flight) /\ frame \in Messages["Mavlink"]
    BY <1>2, <1>4 DEF LinkKept
  <2>8. /\ Passes(parser, parser', in_flight, LeftOf(parser', in_flight))
        /\ MavSent(parser', frame, Len(rest), faults', LeftOf(parser', in_flight))
    BY <1>2, <2>1, <2>2, <2>3, <2>4, <2>5, <2>6, <2>7, MavByte
  <2>9. in_flight' = LeftOf(parser', in_flight) /\ accepted = parser.taken
    BY <1>3, <1>4, <2>1 DEF LinkKept
  <2>10. accepted' = parser'.taken /\ [Link!LinkNext]_<<in_flight, accepted>>
    BY <1>1, <1>4, <2>8, <2>9, PassesOn
  <2>11. LinkKept'
    BY <1>1, <1>4, <2>8, <2>9, <2>10 DEF LinkKept
  <2> QED BY <2>10, <2>11
<1>5. CASE proto = "Msp"
  <2>1. MspKept(parser) /\ Sealed /\ MspOpen(parser)
    BY <1>5 DEF MspInv, Sealed, LinkKept
  <2>2. c \in Byte /\ c.half = 0
    BY <1>5, LineAssumption DEF HonestLine
  <2>3. parser' = MspFeed(parser, c)
    BY <1>1, <1>5 DEF Feed
  <2>4. MspOpen(parser') /\ parser'.result # "Ok"
    BY <2>1, <2>2, <2>3, MspByte
  <2>5. in_flight' = in_flight /\ accepted' = accepted
    BY <1>1, <2>4, NothingAccepted DEF Accepts
  <2> DEFINE b == MspBytes(frame)
  <2>6. PICK g \in 0 .. Len(b) : MspGone(g)
    BY <1>5 DEF LinkKept
  <2>7. rest = SubSeq(b, g + 1, Len(b)) /\ b \in Seq(Byte) /\ (Begun <=> Len(rest) < Len(b))
    BY <1>5, <2>6, MspBytesShape DEF MspGone, MspInv, Begun, BytesOf
  <2> HIDE DEF b
  <2>8. ~(unmixed' /\ 0 < g)
    <3>1. Len(rest) = Len(b) - g /\ Len(b) \in Nat
      BY <2>7, BytesLeft, LenProperties
    <3>2. 0 < g => Len(b) - g < Len(b)
      BY <3>1
    <3> QED BY <1>1, <2>7, <3>1, <3>2
  <2>9. MspGone(g)'
    BY <1>1, <2>7, <2>8 DEF MspGone, b
  <2>10. LinkKept'
    BY <1>1, <1>5, <2>4, <2>5, <2>9 DEF LinkKept, b
  <2> QED BY <2>5, <2>10
<1>6. CASE proto = "Nmea"
  <2>1. ~Accepts(parser')
    BY <1>6 DEF Accepts, Sealed
  <2>2. in_flight' = in_flight /\ accepted' = accepted
    BY <1>1, <2>1, NothingAccepted
  <2>3. LinkKept'
    BY <1>1, <1>6 DEF LinkKept
  <2> QED BY <2>2, <2>3
<1> QED BY <1>2, <1>4, <1>5, <1>6, LineAssumption DEF SerialProtocols

(* parser.rs:268-447 of MAVLink and 141-159 of MSP: over a line that makes *)
(* up no checksum and loses no more than one frame where signatures are    *)
(* waited for, the parsers implement the link: what they take was sent, is *)
(* taken once and in order, and says what was put in, for every table of   *)
(* messages, all frames, every length of a signature and of the buffers.   *)
(* Of MSP that is the type with the payload, whatever of the frame was     *)
(* lost behind its first byte, and as long as no byte was made up in it:   *)
(* nothing sums the type (95-97).                                          *)
THEOREM LineImplementsLink == HonestLine => (InputsSpec => OnlyWhatWasSent)
<1> SUFFICES ASSUME HonestLine PROVE InputsSpec => OnlyWhatWasSent
  OBVIOUS
<1>1. InputsInit => LinkKept /\ Link!LinkInit
  <2> SUFFICES ASSUME InputsInit PROVE LinkKept /\ Link!LinkInit
    OBVIOUS
  <2>1. /\ proto \in SerialProtocols /\ parser = NewParser(proto) /\ frame \in Messages[proto]
        /\ rest = <<>> /\ in_flight = <<>> /\ accepted = <<>> /\ faults = 0 /\ unmixed = FALSE
    BY DEF InputsInit, LineInit
  <2>2. Link!LinkInit
    BY <2>1 DEF Link!LinkInit
  <2>3. ASSUME proto = "Mavlink"
        PROVE  MavSent(parser, frame, Len(rest), faults, in_flight) /\ accepted = parser.taken
    <3>1. parser = MavlinkNew /\ frame \in MavlinkFrame
      BY <2>1, <2>3, LineAssumption DEF NewParser
    <3>2. parser.state = "Idle"
      BY <3>1, NewKept
    <3>3. Tells(parser)
      BY <3>2 DEF Tells, Summing, HeaderStates
    <3>4. ~(Len(rest) > SealLen(frame))
      <4>1. Len(rest) = 0 /\ SealLen(frame) \in Nat
        BY <2>1, <3>1, ListEmpty, FrameBytes
      <4> QED BY <4>1
    <3>5. accepted = parser.taken
      BY <2>1, <3>1 DEF MavlinkNew
    <3> QED BY <3>2, <3>3, <3>4, <3>5 DEF MavSent
  <2>4. ASSUME proto = "Msp"
        PROVE  /\ MspOpen(parser)
               /\ \E g \in 0 .. Len(MspBytes(frame)) : MspGone(g)
    <3>1. parser = MspNew
      BY <2>1, <2>4 DEF NewParser
    <3>2. MspOpen(parser)
      <4>1. Len(parser.buf) = 0
        BY <3>1, ListEmpty DEF MspNew
      <4> QED BY <4>1 DEF MspOpen
    <3> DEFINE b == MspBytes(frame)
    <3>3. b \in Seq(Byte)
      <4>1. frame \in MspFrame
        BY <2>1, <2>4, LineAssumption
      <4> QED BY <4>1, MspBytesShape
    <3> HIDE DEF b
    <3>4. Len(b) \in Nat
      BY <3>3, LenProperties
    <3>5. Len(b) \in 0 .. Len(b) /\ SubSeq(b, Len(b) + 1, Len(b)) = <<>>
      BY <3>4, SubSeqEmpty
    <3>6. MspGone(Len(b))
      BY <2>1, <3>5 DEF MspGone, b
    <3> QED BY <3>2, <3>5, <3>6 DEF b
  <2> QED BY <2>1, <2>2, <2>3, <2>4 DEF LinkKept
<1>2. LineKept /\ FramingInv /\ MspInv /\ LinkKept /\ [InputsNext]_<<lineVars, busVars, source>> =>
        LinkKept' /\ [Link!LinkNext]_<<in_flight, accepted>>
  <2> SUFFICES ASSUME LineKept, FramingInv, MspInv, LinkKept,
                      [InputsNext]_<<lineVars, busVars, source>>
               PROVE  LinkKept' /\ [Link!LinkNext]_<<in_flight, accepted>>
    OBVIOUS
  <2>1. CASE LineNext
    BY <2>1, LinkSends, LinkArrives, LinkLoses, LinkMakesUp DEF LineNext
  <2>2. CASE UNCHANGED lineVars
    BY <2>2 DEF lineVars, LinkKept, MspGone
  <2> QED BY <2>1, <2>2 DEF InputsNext
<1> QED BY <1>1, <1>2, AlwaysLineKept, AlwaysFramingInv, AlwaysMspInv, PTL
        DEF InputsSpec, OnlyWhatWasSent, Link!LinkSpec

-----------------------------------------------------------------------------
(* The fields that the words of a line make.                               *)

(* A word alone.                                                           *)
LEMMA OneOnly == 1 .. 1 = {1} /\ \A i \in 1 .. 1 : i = 1
OBVIOUS

(* The line of one word.                                                   *)
LEMMA OneWord ==
  ASSUME NEW S, NEW w \in S
  PROVE  /\ <<w>> \in Seq(S) /\ Len(<<w>>) = 1 /\ <<w>>[1] = w /\ Append(<<>>, w) = <<w>>
OBVIOUS

(* Before the first word.                                                  *)
NoFields == [fields |-> <<>>, open |-> FALSE]

(* What strtok may have found: fields, of which the last may be open.      *)
Tokens(S) == {a \in [fields : Seq(Seq(S)), open : BOOLEAN] : a.open => a.fields # <<>>}

(* A word opens a field, goes into the one that is open, or closes it.     *)
LEMMA TokenKeeps ==
  ASSUME NEW S, NEW a \in Tokens(S), NEW w \in S
  PROVE  /\ Token(a, w) \in Tokens(S)
         /\ w = Comma => Token(a, w).fields = a.fields /\ ~Token(a, w).open
         /\ w # Comma /\ ~a.open =>
              Token(a, w).fields = Append(a.fields, <<w>>) /\ Token(a, w).open
<1> DEFINE n == Len(a.fields)
<1>1. a.fields \in Seq(Seq(S)) /\ a.open \in BOOLEAN /\ a = [fields |-> a.fields, open |-> a.open]
      /\ n \in Nat /\ (a.open => a.fields # <<>>)
  BY LenProperties DEF Tokens
<1>2. CASE w = Comma
  <2>1. Token(a, w) = [fields |-> a.fields, open |-> FALSE]
    BY <1>1, <1>2 DEF Token
  <2> QED BY <1>1, <1>2, <2>1 DEF Tokens
<1>3. CASE w # Comma /\ ~a.open
  <2> DEFINE t == Append(a.fields, <<w>>)
  <2>1. Token(a, w) = [fields |-> t, open |-> TRUE]
    BY <1>3 DEF Token
  <2>2. <<w>> \in Seq(S)
    BY OneWord
  <2>3. t \in Seq(Seq(S)) /\ Len(t) = n + 1
    BY <1>1, <2>2, AppendProperties
  <2> HIDE DEF t
  <2>4. t # <<>>
    <3> DEFINE l == Len(t)
    <3>1. l = n + 1 /\ (t = <<>> => l = 0)
      BY <2>3, EmptySeq
    <3> HIDE DEF l, n
    <3> QED BY <1>1, <3>1
  <2>5. [fields |-> t, open |-> TRUE] \in Tokens(S)
    BY <2>3, <2>4 DEF Tokens
  <2> QED BY <1>3, <2>1, <2>5 DEF t
<1>4. CASE w # Comma /\ a.open
  <2> DEFINE e == Append(a.fields[n], w)
             t == [a.fields EXCEPT ![n] = e]
  <2>1. Token(a, w) = [a EXCEPT !.fields = t]
    BY <1>4 DEF Token
  <2>2. n \in 1 .. n
    <3>1. a.fields # <<>>
      BY <1>1, <1>4
    <3>2. n # 0
      BY <1>1, <3>1, EmptySeq
    <3> HIDE DEF n
    <3> QED BY <1>1, <3>2
  <2>3. a.fields[n] \in Seq(S)
    BY <1>1, <2>2, ElementOfSeq
  <2>4. e \in Seq(S)
    BY <2>3, AppendProperties
  <2> HIDE DEF e
  <2>5. t \in Seq(Seq(S)) /\ Len(t) = n
    BY <1>1, <2>2, <2>4, ExceptSeq
  <2> HIDE DEF t
  <2>6. Token(a, w) = [fields |-> t, open |-> a.open]
    BY <1>1, <2>1
  <2>7. t # <<>>
    <3> DEFINE l == Len(t)
    <3>1. l = n /\ (t = <<>> => l = 0)
      BY <2>5, EmptySeq
    <3> HIDE DEF l, n
    <3> QED BY <2>2, <3>1
  <2>8. Token(a, w) \in Tokens(S)
    BY <1>1, <2>5, <2>6, <2>7 DEF Tokens
  <2> QED BY <1>4, <2>8
<1> QED BY <1>2, <1>3, <1>4

(* h[i] is what the first i words of a line make.                          *)
Walks(h, line) ==
  /\ h[0] = NoFields
  /\ \A i \in 0 .. Len(line) - 1 : h[i + 1] = Token(h[i], line[i + 1])

(* strtok is such a walk.                                                  *)
LEMMA TokensStepwise ==
  ASSUME NEW S, NEW line \in Seq(S)
  PROVE  \E h : Walks(h, line) /\ h[Len(line)].fields = Strtok(line)
<1> DEFINE m == Len(line)
           step == [x \in (1 .. m) \X Tokens(S) |-> Token(x[2], line[x[1]])]
           Unfold(g) == [s \in SUBSET (1 .. m) |->
                           IF s = {} THEN NoFields ELSE Token(g[s \ {Max(s)}], line[Max(s)])]
           iter == CHOOSE g : g = Unfold(g)
<1>0. m \in Nat /\ DOMAIN line = 1 .. m /\ \A k \in 1 .. m : line[k] \in S
  BY LenProperties, ElementOfSeq
<1>1. Strtok(line) = iter[1 .. m].fields
  BY <1>0 DEF Strtok, FoldLeft, MapThenFoldSet, NoFields
<1>3. \A k \in 1 .. m : \A a \in Tokens(S) : Token(a, line[k]) \in Tokens(S)
  BY <1>0, TokenKeeps
<1>4. NoFields \in Tokens(S)
  <2>1. <<>> \in Seq(Seq(S))
    BY EmptySeq
  <2> QED BY <2>1 DEF Tokens, NoFields
<1> HIDE DEF m
<1>5. step \in [(1 .. m) \X Tokens(S) -> Tokens(S)]
  BY <1>3
<1>6. \A k \in 1 .. m : \A a \in Tokens(S) : step[<<k, a>>] = Token(a, line[k])
  OBVIOUS
<1> HIDE DEF step
<1>7. PICK g : Unfolds(m, Tokens(S), NoFields, step, g)
  BY <1>0, <1>4, <1>5, FoldExists
<1>8. g = Unfold(g)
  <2>1. g \in [SUBSET (1 .. m) -> Tokens(S)]
    BY <1>7 DEF Unfolds
  <2>2. ASSUME NEW s \in SUBSET (1 .. m)
        PROVE  g[s] = IF s = {} THEN NoFields ELSE Token(g[s \ {Max(s)}], line[Max(s)])
    BY <1>6, <1>7 DEF Unfolds
  <2> QED BY <2>1, <2>2
<1> HIDE DEF Unfold
<1>9. iter = Unfold(iter)
  BY <1>8
<1> HIDE DEF iter
<1>10. iter = [s \in SUBSET (1 .. m) |->
                 IF s = {} THEN NoFields ELSE Token(iter[s \ {Max(s)}], line[Max(s)])]
  BY <1>9 DEF Unfold
<1> DEFINE h == [k \in 0 .. m |-> iter[1 .. k]]
<1>11. h[0] = NoFields
  <2>1. 1 .. 0 = {} /\ {} \in SUBSET (1 .. m) /\ 0 \in 0 .. m
    BY <1>0
  <2> QED BY <1>10, <2>1
<1>12. ASSUME NEW k \in 0 .. m - 1
       PROVE  h[k + 1] = Token(h[k], line[k + 1])
  <2> DEFINE s == 1 .. k + 1
  <2>1. /\ s \in SUBSET (1 .. m) /\ s # {} /\ Max(s) = k + 1 /\ s \ {k + 1} = 1 .. k
        /\ k \in 0 .. m /\ k + 1 \in 0 .. m /\ k + 1 \in 1 .. m
    BY <1>0, MaxOfFirst
  <2> HIDE DEF s
  <2>2. iter[s] = Token(iter[s \ {k + 1}], line[k + 1])
    BY <1>10, <2>1
  <2> QED BY <2>1, <2>2 DEF s
<1>13. h[m].fields = Strtok(line)
  BY <1>0, <1>1
<1> HIDE DEF h
<1>14. Walks(h, line)
  BY <1>11, <1>12 DEF Walks, m
<1> QED BY <1>13, <1>14 DEF m

(* The first k fields of a sentence that are not empty,                    *)
Given(s, k) == {i \in 1 .. k : s[i] # ""}

(* and what strtok has found when their words are read: as many fields,    *)
(* each that is in its place as the one word it is.                        *)
Told(S, s, k, a) ==
  /\ a \in Tokens(S) /\ a.open = (s[k] # "")
  /\ Len(a.fields) = Cardinality(Given(s, k))
  /\ \A j \in 1 .. k : 1 .. j \subseteq Given(s, k) => a.fields[j] = <<s[j]>>

(* At first,                                                               *)
LEMMA ToldFirst ==
  ASSUME NEW S, NEW s \in Seq(S), 1 \in DOMAIN s, s[1] # "", s[1] # Comma
  PROVE  Told(S, s, 1, Token(NoFields, s[1]))
<1>0. NoFields \in Tokens(S) /\ ~NoFields.open /\ s[1] \in S
  <2>1. <<>> \in Seq(Seq(S))
    BY EmptySeq
  <2>2. s[1] \in S
    <3>1. 1 \in 1 .. Len(s)
      BY LenProperties
    <3> QED BY <3>1, ElementOfSeq
  <2>3. NoFields \in Tokens(S)
    BY <2>1 DEF Tokens, NoFields
  <2> QED BY <2>2, <2>3 DEF NoFields
<1> DEFINE a == Token(NoFields, s[1])
<1>1. a \in Tokens(S) /\ a.fields = Append(<<>>, <<s[1]>>) /\ a.open
  <2>1. NoFields.fields = <<>>
    BY DEF NoFields
  <2> DEFINE x == s[1]
  <2>2. NoFields \in Tokens(S) /\ ~NoFields.open /\ x \in S /\ x # Comma
    BY <1>0
  <2> HIDE DEF x
  <2>3. /\ Token(NoFields, x) \in Tokens(S) /\ Token(NoFields, x).open
        /\ Token(NoFields, x).fields = Append(NoFields.fields, <<x>>)
    BY <2>2, TokenKeeps
  <2> QED BY <2>1, <2>3 DEF x
<1> DEFINE w == <<s[1]>>
           t == Append(<<>>, w)
<1>2. t = <<w>> /\ Len(<<w>>) = 1 /\ <<w>>[1] = w
  <2>1. w \in {w}
    OBVIOUS
  <2> HIDE DEF w
  <2> QED BY <2>1, OneWord
<1> HIDE DEF t, w
<1>3. Given(s, 1) = {1} /\ Cardinality({1}) = 1
  <2>1. Cardinality({1}) = 1
    BY FS_Singleton
  <2>2. 1 .. 1 = {1}
    BY OneOnly
  <2>3. Given(s, 1) = {i \in {1} : s[i] # ""}
    BY <2>2 DEF Given
  <2>4. {i \in {1} : s[i] # ""} = {1}
    OBVIOUS
  <2> QED BY <2>1, <2>3, <2>4
<1>4. a.fields = t
  BY <1>1 DEF t, w
<1>5. a.open = (s[1] # "")
  <2>1. a.open \in BOOLEAN
    BY <1>1 DEF Tokens
  <2> QED BY <1>1, <2>1
<1>8. Len(a.fields) = 1 /\ a.fields[1] = w
  BY <1>2, <1>4
<1> HIDE DEF a
<1>6. \A j \in 1 .. 1 : a.fields[j] = <<s[j]>>
  <2>1. \A j \in 1 .. 1 : j = 1
    BY OneOnly
  <2> QED BY <1>8, <2>1 DEF w
<1>7. Told(S, s, 1, a)
  BY <1>1, <1>3, <1>5, <1>8, <1>6 DEF Told
<1> QED BY <1>7 DEF a

(* and field by field.                                                     *)
LEMMA ToldOn ==
  ASSUME NEW S, Comma \in S, NEW s \in Seq(S), NEW k \in 1 .. Len(s) - 1, s[k + 1] # Comma,
         NEW a, Told(S, s, k, a)
  PROVE  LET c == Token(a, Comma)
         IN  Told(S, s, k + 1, IF s[k + 1] = "" THEN c ELSE Token(c, s[k + 1]))
<1> DEFINE c == Token(a, Comma)
           w == s[k + 1]
           G == Given(s, k)
           H == Given(s, k + 1)
<1>0. k \in Nat /\ k + 1 \in 1 .. Len(s) /\ w \in S /\ k + 1 \notin 1 .. k
      /\ 1 .. k + 1 = (1 .. k) \cup {k + 1}
  <2>1. Len(s) \in Nat
    BY LenProperties
  <2>2. k \in Nat /\ k + 1 \in 1 .. Len(s) /\ k + 1 \notin 1 .. k
        /\ 1 .. k + 1 = (1 .. k) \cup {k + 1}
    BY <2>1
  <2> QED BY <2>2, ElementOfSeq
<1> HIDE DEF w, G, H, c
<1>1. /\ a \in Tokens(S) /\ a.open \in BOOLEAN /\ a.fields \in Seq(Seq(S))
      /\ Len(a.fields) = Cardinality(G)
      /\ \A j \in 1 .. k : 1 .. j \subseteq G => a.fields[j] = <<s[j]>>
  BY DEF Told, Tokens, G
<1>2. c \in Tokens(S) /\ c.fields = a.fields /\ ~c.open
  BY <1>1, TokenKeeps DEF c
<1>3. \A j \in 1 .. k : 1 .. j \subseteq H => 1 .. j \subseteq G
  <2> SUFFICES ASSUME NEW j \in 1 .. k, 1 .. j \subseteq H PROVE 1 .. j \subseteq G
    OBVIOUS
  <2>1. \A i \in 1 .. j : i \in 1 .. k
    BY <1>0
  <2> QED BY <2>1 DEF Given, G, H
<1>4. CASE w = ""
  <2>1. H = G
    BY <1>0, <1>4 DEF Given, G, H, w
  <2>2. k + 1 \notin G
    BY <1>0 DEF Given, G, H
  <2>3. ASSUME NEW j \in 1 .. k + 1, 1 .. j \subseteq H
        PROVE  c.fields[j] = <<s[j]>>
    <3>1. j # k + 1
      <4> SUFFICES ASSUME j = k + 1 PROVE FALSE
        OBVIOUS
      <4>1. k + 1 \in 1 .. j
        BY <1>0
      <4> QED BY <2>1, <2>2, <2>3, <4>1
    <3>2. j \in 1 .. k
      BY <1>0, <3>1
    <3> QED BY <1>1, <1>2, <1>3, <2>3, <3>2
  <2>4. c.open = (w # "") /\ c.fields = a.fields
    <3>1. c.open \in BOOLEAN
      BY <1>2 DEF Tokens
    <3> QED BY <1>2, <1>4, <3>1
  <2>5. Told(S, s, k + 1, c)
    BY <1>1, <1>2, <2>1, <2>3, <2>4 DEF Told, G, H, w
  <2> QED BY <1>4, <2>5 DEF c, w
<1>5. CASE w # ""
  <2> DEFINE r == Token(c, w)
             t == Append(a.fields, <<w>>)
             n == Len(a.fields)
  <2>1. r \in Tokens(S) /\ r.fields = t /\ r.open
    <3>1. w # Comma /\ w \in S
      BY <1>0 DEF w
    <3> QED BY <1>2, <3>1, TokenKeeps
  <2>2. <<w>> \in Seq(S) /\ n \in Nat
    BY <1>0, <1>1, LenProperties
  <2>3. Len(t) = n + 1 /\ t[n + 1] = <<w>> /\ \A j \in 1 .. n : t[j] = a.fields[j]
    BY <1>1, <2>2, AppendProperties
  <2>4. H = G \cup {k + 1} /\ k + 1 \notin G
    BY <1>0, <1>5 DEF Given, G, H, w
  <2>5. IsFiniteSet(G)
    <3>1. IsFiniteSet(1 .. k)
      BY <1>0, FS_Interval
    <3>2. G \subseteq 1 .. k
      BY DEF Given, G, H
    <3> QED BY <3>1, <3>2, FS_Subset
  <2>6. Cardinality(H) = Cardinality(G) + 1
    BY <2>4, <2>5, FS_AddElement
  <2> HIDE DEF t, r
  <2>7. ASSUME NEW j \in 1 .. k + 1, 1 .. j \subseteq H
        PROVE  t[j] = <<s[j]>>
    <3>1. \A i \in 1 .. k : i < j => i \in G
      <4> SUFFICES ASSUME NEW i \in 1 .. k, i < j PROVE i \in G
        OBVIOUS
      <4>1. i \in 1 .. j /\ i # k + 1
        BY <1>0
      <4> QED BY <2>4, <2>7, <4>1
    <3>2. CASE j = k + 1
      <4>1. G = 1 .. k
        <5>1. \A i \in 1 .. k : i < j
          BY <1>0, <3>2
        <5> QED BY <3>1, <5>1 DEF Given, G, H
      <4>2. Cardinality(1 .. k) = k
        <5>1. 1 \in Int /\ k \in Int /\ 1 <= k
          OBVIOUS
        <5>2. Cardinality(1 .. k) = k - 1 + 1
          BY <5>1, FS_Interval
        <5> QED BY <1>0, <5>2
      <4>3. n = k
        BY <1>1, <4>1, <4>2
      <4> QED BY <2>3, <3>2, <4>3 DEF w
    <3>3. CASE j # k + 1
      <4>1. j \in 1 .. k
        BY <1>0, <3>3
      <4>2. 1 .. j \subseteq G /\ a.fields[j] = <<s[j]>>
        BY <1>1, <1>3, <2>7, <4>1
      <4>3. j \in 1 .. n
        <5>1. Cardinality(1 .. j) <= Cardinality(G)
          BY <2>5, <4>2, FS_Subset
        <5>2. Cardinality(1 .. j) = j
          <6>1. 1 \in Int /\ j \in Int /\ 1 <= j /\ j - 1 + 1 = j
            BY <4>1
          <6>2. Cardinality(1 .. j) = j - 1 + 1
            BY <6>1, FS_Interval
          <6> QED BY <6>1, <6>2
        <5>3. j <= n
          BY <1>1, <5>1, <5>2
        <5> HIDE DEF n
        <5> QED BY <2>2, <4>1, <5>3
      <4> QED BY <2>3, <4>2, <4>3
    <3> QED BY <3>2, <3>3
  <2>8. r.open = (w # "") /\ r.fields = t
    <3>1. r.open \in BOOLEAN
      BY <2>1 DEF Tokens
    <3> QED BY <1>5, <2>1, <3>1
  <2>9. Len(t) = Cardinality(H)
    BY <1>1, <2>3, <2>6
  <2>10. Told(S, s, k + 1, r)
    BY <2>1, <2>7, <2>8, <2>9 DEF Told, H, w
  <2> QED BY <1>5, <2>10 DEF r, c, w
<1> QED BY <1>4, <1>5

(* The words of a field.                                                   *)
LEMMA FieldShape ==
  ASSUME NEW S, Comma \in S, NEW s \in Seq(S), NEW i \in 1 .. Len(s)
  PROVE  /\ FieldWords(s, i) \in Seq(S)
         /\ i = 1 /\ s[i] # "" => FieldWords(s, i) = <<s[i]>>
         /\ i # 1 => /\ FieldWords(s, i)[1] = Comma
                     /\ Len(FieldWords(s, i)) = IF s[i] = "" THEN 1 ELSE 2
                     /\ s[i] # "" => FieldWords(s, i)[2] = s[i]
<1> DEFINE w == s[i]
           c == <<Comma>>
           d == <<w>>
<1>1. w \in S
  BY ElementOfSeq
<1> HIDE DEF w
<1>2. c \in Seq(S) /\ Len(c) = 1 /\ c[1] = Comma /\ d \in Seq(S) /\ Len(d) = 1 /\ d[1] = w
  BY <1>1, OneWord
<1>3. <<>> \in Seq(S) /\ <<>> \o <<>> = <<>> /\ Len(<<>>) = 0
  BY EmptySeq
<1>4. FieldWords(s, i) = (IF i = 1 THEN <<>> ELSE c) \o (IF w = "" THEN <<>> ELSE d)
  BY DEF FieldWords, w
<1> HIDE DEF c, d
<1>5. <<>> \o d = d /\ c \o <<>> = c
  BY <1>2, ConcatEmptySeq
<1>6. CASE i = 1 /\ w # ""
  <2>1. FieldWords(s, i) = d
    BY <1>4, <1>5, <1>6
  <2> QED BY <1>2, <1>6, <2>1 DEF d, w
<1>7. CASE i = 1 /\ w = ""
  <2>1. FieldWords(s, i) = <<>>
    BY <1>3, <1>4, <1>7
  <2> QED BY <1>3, <1>7, <2>1 DEF w
<1>8. CASE i # 1 /\ w = ""
  <2>1. FieldWords(s, i) = c
    BY <1>4, <1>5, <1>8
  <2> QED BY <1>2, <1>8, <2>1 DEF w
<1>9. CASE i # 1 /\ w # ""
  <2>1. FieldWords(s, i) = c \o d
    BY <1>4, <1>9
  <2>2. /\ c \o d \in Seq(S) /\ Len(c \o d) = Len(c) + Len(d)
        /\ \A j \in 1 .. Len(c) : (c \o d)[j] = c[j]
        /\ \A j \in 1 .. Len(d) : (c \o d)[Len(c) + j] = d[j]
    <3>1. c \in Seq(S) /\ d \in Seq(S)
      BY <1>2
    <3> QED BY <3>1, JoinedAt
  <2> DEFINE e == c \o d
  <2> HIDE DEF e
  <2>3. 1 \in 1 .. Len(c) /\ 1 \in 1 .. Len(d) /\ Len(c) + 1 = 2 /\ Len(c) + Len(d) = 2
    BY <1>2
  <2>4. e \in Seq(S) /\ Len(e) = 2 /\ e[1] = Comma /\ e[2] = w
    BY <1>2, <2>2, <2>3 DEF e
  <2> QED BY <1>9, <2>1, <2>4 DEF e, w
<1> QED BY <1>6, <1>7, <1>8, <1>9 DEF w

(* A sentence has a name, and no word of it is a separator.                *)
Spoken(s) ==
  /\ 1 \in 1 .. Len(s) /\ s[1] # ""
  /\ \A i \in 1 .. Len(s) : s[i] \notin {Comma, Star, NewLine}

(* The words of all its fields.                                            *)
AllWords(s) == [i \in DOMAIN s |-> FieldWords(s, i)]

(* A line in which nothing ends.                                           *)
Endless(line) == \A i \in 1 .. Len(line) : line[i] \notin {Star, NewLine}

(* The words of the first fields make these fields: by induction over      *)
(* them.                                                                   *)
LEMMA FieldsTold ==
  ASSUME NEW S, Comma \in S, NEW s \in Seq(S), Spoken(s),
         NEW f, Flattens(S, Len(s), AllWords(s), f)
  PROVE  \A k \in 1 .. Len(s) :
           /\ Endless(f[k])
           /\ \A h : Walks(h, f[k]) => Told(S, s, k, h[Len(f[k])])
<1> DEFINE n == Len(s)
           seqs == AllWords(s)
           Good(k) == Endless(f[k]) /\ \A h : Walks(h, f[k]) => Told(S, s, k, h[Len(f[k])])
           T == {k \in Nat : k + 1 <= n => Good(k + 1)}
<1>0. n \in Nat /\ DOMAIN s = 1 .. n /\ 1 <= n
  <2>1. n \in Nat /\ DOMAIN s = 1 .. n
    BY LenProperties
  <2>2. 1 \in 1 .. n
    BY DEF Spoken
  <2> HIDE DEF n
  <2> QED BY <2>1, <2>2
<1>1. \A k \in 1 .. n : s[k] \in S /\ seqs[k] = FieldWords(s, k)
  BY <1>0, ElementOfSeq DEF AllWords
<1>2. /\ f[1] = seqs[1]
      /\ \A k \in 1 .. n : f[k] \in Seq(S)
      /\ \A k \in 1 .. n - 1 : f[k + 1] = f[k] \o seqs[k + 1]
  BY DEF Flattens
<1>3. /\ \A k \in 1 .. n : s[k] \notin {Comma, Star, NewLine}
      /\ 1 \in 1 .. n /\ Comma \notin {Star, NewLine}
  BY DEF Spoken, Comma, Star, NewLine
<1> HIDE DEF seqs, n
<1>4. 0 \in T
  <2> DEFINE w == s[1]
             t == <<w>>
  <2>1. w \in S /\ w # "" /\ w \notin {Comma, Star, NewLine} /\ 1 \in DOMAIN s
    BY <1>0, <1>1, <1>3 DEF Spoken
  <2>2. f[1] = t
    <3>1. f[1] = FieldWords(s, 1) /\ 1 \in 1 .. Len(s)
      BY <1>1, <1>2, <1>3 DEF n
    <3>2. FieldWords(s, 1) = <<s[1]>>
      BY <2>1, <3>1, FieldShape
    <3> QED BY <3>1, <3>2
  <2> HIDE DEF w
  <2>3. Len(t) = 1 /\ t[1] = w
    BY <2>1, OneWord
  <2>4. Endless(t)
    <3> HIDE DEF t
    <3>1. \A i \in 1 .. 1 : i = 1
      BY OneOnly
    <3> QED BY <2>1, <2>3, <3>1 DEF Endless
  <2>5. ASSUME NEW h, Walks(h, t)
        PROVE  Told(S, s, 1, h[1])
    <3>1. 0 \in 0 .. Len(t) - 1
      BY <2>3
    <3>2. h[0] = NoFields /\ h[0 + 1] = Token(h[0], t[0 + 1])
      BY <2>5, <3>1 DEF Walks
    <3>3. h[1] = Token(NoFields, w)
      BY <2>3, <3>2
    <3> QED BY <2>1, <3>3, ToldFirst DEF w
  <2>6. Good(1)
    BY <2>2, <2>3, <2>4, <2>5
  <2> HIDE DEF Good
  <2> QED BY <2>6
<1>5. ASSUME NEW k \in Nat, k \in T
      PROVE  k + 1 \in T
  <2> SUFFICES ASSUME k + 1 + 1 <= n PROVE Good(k + 1 + 1)
    OBVIOUS
  <2> DEFINE j == k + 1
  <2>1. /\ j \in 1 .. n /\ j \in 1 .. n - 1 /\ j + 1 \in 1 .. n /\ j \in Nat /\ j + 1 # 1
        /\ j + 1 = k + 1 + 1
    BY <1>0
  <2>2. Good(j)
    BY <1>5, <2>1
  <2> HIDE DEF j, Good
  <2> DEFINE w == s[j + 1]
             t == f[j]
             u == seqs[j + 1]
             a == Len(t)
             b == Len(u)
             r == t \o u
  <2>3. w \in S /\ w \notin {Comma, Star, NewLine}
    BY <1>1, <1>3, <2>1
  <2>4. /\ u \in Seq(S) /\ u[1] = Comma
        /\ b = IF w = "" THEN 1 ELSE 2
        /\ w # "" => u[2] = w
    <3>1. u = FieldWords(s, j + 1)
      BY <1>1, <2>1
    <3> DEFINE i == j + 1
    <3>2. i \in 1 .. Len(s) /\ i # 1
      BY <2>1 DEF n
    <3> HIDE DEF i
    <3>3. /\ FieldWords(s, i) \in Seq(S) /\ FieldWords(s, i)[1] = Comma
          /\ Len(FieldWords(s, i)) = IF s[i] = "" THEN 1 ELSE 2
          /\ s[i] # "" => FieldWords(s, i)[2] = s[i]
      BY <3>2, FieldShape
    <3> QED BY <3>1, <3>3 DEF i
  <2>5. t \in Seq(S) /\ f[j + 1] = r
    BY <1>2, <2>1
  <2> HIDE DEF t, u, w
  <2>6. /\ a \in Nat /\ b \in Nat /\ Len(r) = a + b
        /\ \A i \in 1 .. a : r[i] = t[i]
        /\ \A i \in 1 .. b : r[a + i] = u[i]
    <3>1. t \in Seq(S) /\ u \in Seq(S)
      BY <2>4, <2>5
    <3> QED BY <3>1, JoinedAt
  <2> HIDE DEF a, b, r
  <2>7. (b = 1 /\ w = "") \/ (b = 2 /\ w # "")
    BY <2>4
  <2>8. \A i \in 1 .. b : u[i] \notin {Star, NewLine}
    <3> SUFFICES ASSUME NEW i \in 1 .. b PROVE u[i] \notin {Star, NewLine}
      OBVIOUS
    <3>1. i = 1 \/ (i = 2 /\ b = 2)
      <4>1. CASE b = 1
        <5>1. i \in 1 .. 1
          BY <4>1
        <5> QED BY <5>1, OneOnly
      <4>2. CASE b = 2
        BY <4>2
      <4> QED BY <2>7, <4>1, <4>2
    <3> QED BY <1>3, <2>3, <2>4, <2>7, <3>1
  <2>9. Endless(r)
    <3> SUFFICES ASSUME NEW i \in 1 .. a + b PROVE r[i] \notin {Star, NewLine}
      BY <2>6 DEF Endless
    <3>1. CASE i \in 1 .. a
      BY <2>2, <2>6, <3>1 DEF Good, Endless, t, a
    <3>2. CASE i \notin 1 .. a
      <4>1. i - a \in 1 .. b /\ a + (i - a) = i
        BY <2>6, <3>2
      <4> QED BY <2>6, <2>8, <4>1
    <3> QED BY <3>1, <3>2
  <2>10. ASSUME NEW h, Walks(h, r)
         PROVE  Told(S, s, j + 1, h[a + b])
    <3>1. h[0] = NoFields /\ \A i \in 0 .. a + b - 1 : h[i + 1] = Token(h[i], r[i + 1])
      BY <2>6, <2>10 DEF Walks
    <3>2. \A i \in 0 .. a - 1 : i \in 0 .. a + b - 1 /\ i + 1 \in 1 .. a
      BY <2>6
    <3>3. Walks(h, t)
      BY <2>6, <3>1, <3>2 DEF Walks, a
    <3>4. Told(S, s, j, h[a])
      BY <2>2, <3>3 DEF Good, t, a
    <3> DEFINE c == Token(h[a], Comma)
    <3>5. /\ a \in 0 .. a + b - 1 /\ 1 \in 1 .. b
          /\ b = 2 => a + 1 \in 0 .. a + b - 1 /\ 2 \in 1 .. b
          /\ a + 1 + 1 = a + 2
      <4>1. b = 1 \/ b = 2
        BY <2>7
      <4> QED BY <2>6, <4>1
    <3>6. h[a + 1] = c
      BY <2>4, <2>6, <3>1, <3>5
    <3> HIDE DEF c
    <3>7. ASSUME b = 2
          PROVE  h[a + 2] = Token(c, w)
      <4>1. h[a + 1 + 1] = Token(h[a + 1], r[a + 1 + 1])
        BY <3>1, <3>5, <3>7
      <4>2. r[a + 2] = u[2] /\ u[2] = w
        <5>1. w # "" /\ 2 \in 1 .. b
          <6>1. b # 1
            BY <3>7
          <6> QED BY <2>7, <3>5, <3>7, <6>1
        <5> QED BY <2>4, <2>6, <5>1
      <4> QED BY <3>5, <3>6, <4>1, <4>2
    <3>8. Told(S, s, j + 1, IF w = "" THEN c ELSE Token(c, w))
      <4>1. j \in 1 .. Len(s) - 1 /\ w # Comma
        BY <2>1, <2>3 DEF n
      <4> QED BY <3>4, <4>1, ToldOn DEF w, c
    <3> QED BY <2>7, <3>6, <3>7, <3>8
  <2>11. Good(j + 1)
    BY <2>5, <2>6, <2>9, <2>10 DEF Good
  <2> QED BY <2>1, <2>11
<1>6. Nat \subseteq T
  <2> HIDE DEF T
  <2> QED BY <1>4, <1>5, SetInduction
<1> HIDE DEF Good
<1>7. ASSUME NEW k \in 1 .. n
      PROVE  Good(k)
  <2>1. k - 1 \in Nat /\ (k - 1) + 1 = k /\ k <= n
    BY <1>0
  <2> QED BY <1>6, <2>1
<1> QED BY <1>7 DEF Good, n

(* The words there are in a sentence, and the end of its line.             *)
WordsOf(s) == {s[i] : i \in DOMAIN s} \cup {Comma, Star, "checksum", NewLine}

(* The line of a sentence: its words make its fields, and nothing ends     *)
(* before the star.                                                        *)
LEMMA SentenceRead ==
  ASSUME NEW s, ReadInPlace(s)
  PROVE  \E w \in Seq(WordsOf(s)) :
           /\ NmeaWords(s) = w \o <<Star, "checksum", NewLine>> /\ Endless(w)
           /\ \E a : Strtok(w) = a.fields /\ Told(WordsOf(s), s, Len(s), a)
<1> DEFINE S == WordsOf(s)
           T == {s[i] : i \in DOMAIN s}
           n == Len(s)
           seqs == AllWords(s)
           w == FlattenSeq(seqs)
<1>1. s \in Seq(T) /\ 1 \in DOMAIN s /\ s[1] # ""
      /\ \A i \in DOMAIN s : s[i] \notin {Comma, Star, NewLine}
  BY DEF ReadInPlace
<1>2. T \subseteq S /\ Comma \in S
  BY DEF WordsOf
<1> HIDE DEF S, T
<1>3. s \in Seq(S)
  BY <1>1, <1>2, SeqMonotonic
<1>4. DOMAIN s = 1 .. n /\ n \in Nat
  BY <1>3, LenProperties
<1>5. Spoken(s)
  BY <1>1, <1>4 DEF Spoken
<1>6. n \in Nat \ {0} /\ n \in 1 .. n
  <2>1. 1 \in 1 .. n
    BY <1>1, <1>4
  <2> HIDE DEF n
  <2> QED BY <1>4, <2>1
<1>7. seqs \in [1 .. n -> Seq(S)]
  <2>1. \A i \in 1 .. n : FieldWords(s, i) \in Seq(S)
    BY <1>2, <1>3, FieldShape
  <2> HIDE DEF n
  <2> QED BY <1>4, <2>1 DEF AllWords
<1>8. PICK f : Flattens(S, n, seqs, f)
  BY <1>6, <1>7, FlattenStepwise
<1>9. f[n] = w /\ w \in Seq(S)
  BY <1>6, <1>8 DEF Flattens
<1>10. Endless(f[n]) /\ \A h : Walks(h, f[n]) => Told(S, s, n, h[Len(f[n])])
  BY <1>2, <1>3, <1>5, <1>6, <1>8, FieldsTold
<1>11. PICK h : Walks(h, w) /\ h[Len(w)].fields = Strtok(w)
  BY <1>9, TokensStepwise
<1>12. NmeaWords(s) = w \o <<Star, "checksum", NewLine>>
  BY DEF NmeaWords, AllWords
<1> HIDE DEF w
<1>13. Told(S, s, n, h[Len(w)]) /\ Endless(w)
  BY <1>9, <1>10, <1>11
<1> QED BY <1>9, <1>11, <1>12, <1>13 DEF S

(* The star ends the part of a line that is read, unless the line is cut   *)
(* in front of it.                                                         *)
LEMMA CutAtStar ==
  ASSUME NEW S, NEW w \in Seq(S), Endless(w), NEW line \in Seq(S),
         Len(line) = Len(w) + 2, line[Len(w) + 1] = Star, Len(w) < LineMax,
         \A i \in 1 .. Len(w) : line[i] = w[i]
  PROVE  LET work == SubSeq(line, 1, IF Len(line) < LineMax THEN Len(line) ELSE LineMax - 1)
             star == SelectInSeq(work, LAMBDA x : x = Star)
         IN  (IF star = 0 THEN work ELSE SubSeq(work, 1, star - 1)) = w
<1> DEFINE m == Len(w)
           c == IF Len(line) < LineMax THEN Len(line) ELSE LineMax - 1
           work == SubSeq(line, 1, c)
           I == {i \in 1 .. Len(work) : work[i] = Star}
           star == SelectInSeq(work, LAMBDA x : x = Star)
<1>1. m \in Nat /\ LineMax \in Nat /\ Len(line) = m + 2 /\ m < LineMax
  BY LenProperties, NmeaAssumption
<1>2. c \in Nat /\ m <= c /\ c <= m + 2 /\ c <= Len(line)
  <2> HIDE DEF m
  <2> QED BY <1>1
<1>3. star = IF I # {} THEN Min(I) ELSE 0
  BY DEF SelectInSeq
<1> HIDE DEF c, star
<1>4. work \in Seq(S) /\ Len(work) = c /\ \A i \in 1 .. c : work[i] = line[i]
  <2>1. 0 + c <= Len(line) /\ 0 \in Nat
    BY <1>2
  <2>2. /\ SubSeq(line, 0 + 1, 0 + c) \in Seq(S) /\ Len(SubSeq(line, 0 + 1, 0 + c)) = c
        /\ \A i \in 1 .. c : SubSeq(line, 0 + 1, 0 + c)[i] = line[0 + i]
    BY <1>2, <2>1, PartAt
  <2>3. 0 + 1 = 1 /\ 0 + c = c /\ \A i \in 1 .. c : 0 + i = i
    BY <1>2
  <2> QED BY <2>2, <2>3
<1> HIDE DEF work
<1>5. \A i \in 1 .. m : line[i] = w[i] /\ line[i] # Star
  BY DEF Endless
<1>6. line[m + 1] = Star
  OBVIOUS
<1> HIDE DEF m
<1>7. ASSUME NEW u \in Seq(S), Len(u) = m, \A i \in 1 .. m : u[i] = line[i]
      PROVE  u = w
  <2>1. Len(u) = Len(w) /\ \A i \in 1 .. Len(u) : u[i] = w[i]
    BY <1>5, <1>7 DEF m
  <2> QED BY <1>7, <2>1, SeqEqual
<1>8. CASE c = m
  <2>1. I = {}
    BY <1>4, <1>5, <1>8
  <2>2. star = 0
    BY <1>3, <2>1
  <2>3. work = w
    BY <1>4, <1>7, <1>8
  <2> QED BY <2>2, <2>3 DEF work, star, c
<1>9. CASE c # m
  <2>1. m + 1 \in 1 .. c /\ \A i \in 1 .. c : i \in 1 .. m \/ i >= m + 1
    BY <1>1, <1>2, <1>9
  <2>2. m + 1 \in I /\ \A i \in I : m + 1 <= i
    BY <1>4, <1>5, <1>6, <2>1
  <2>3. I \in SUBSET Nat
    BY <1>2, <1>4
  <2> HIDE DEF I
  <2>4. Min(I) = m + 1
    <3> DEFINE x == Min(I)
    <3>1. x \in I /\ \A i \in I : x <= i
      BY <2>2 DEF Min
    <3> HIDE DEF x
    <3>2. x = m + 1
      BY <1>1, <2>2, <2>3, <3>1
    <3> QED BY <3>2 DEF x
  <2>5. star = m + 1 /\ star # 0 /\ star - 1 = m
    <3>1. star = m + 1
      BY <1>3, <2>2, <2>4
    <3> QED BY <1>1, <3>1
  <2>6. SubSeq(work, 1, m) = w
    <3>1. 0 + m <= Len(work) /\ 0 \in Nat /\ 0 + 1 = 1 /\ 0 + m = m /\ \A i \in 1 .. m : 0 + i = i
      BY <1>1, <1>2, <1>4
    <3>2. /\ SubSeq(work, 0 + 1, 0 + m) \in Seq(S) /\ Len(SubSeq(work, 0 + 1, 0 + m)) = m
          /\ \A i \in 1 .. m : SubSeq(work, 0 + 1, 0 + m)[i] = work[0 + i]
      BY <1>1, <1>4, <3>1, PartAt
    <3>3. \A i \in 1 .. m : i \in 1 .. c
      BY <1>1, <1>2
    <3> DEFINE u == SubSeq(work, 1, m)
    <3>4. u \in Seq(S) /\ Len(u) = m /\ \A i \in 1 .. m : u[i] = line[i]
      BY <1>4, <3>1, <3>2, <3>3
    <3> HIDE DEF u
    <3>5. u = w
      BY <1>7, <3>4
    <3> QED BY <3>5 DEF u
  <2> QED BY <2>5, <2>6 DEF work, star, c
<1> QED BY <1>8, <1>9

(* The line of a sentence, place by place.                                 *)
LEMMA LineShape ==
  ASSUME NEW S, NEW w \in Seq(S), Endless(w), {Star, "checksum", NewLine} \subseteq S
  PROVE  LET b == w \o <<Star, "checksum", NewLine>>
         IN  /\ b \in Seq(S) /\ Len(w) \in Nat /\ Len(b) = Len(w) + 3
             /\ b[Len(b)] = NewLine
             /\ \A i \in 1 .. Len(b) - 1 : b[i] # NewLine
             /\ SubSeq(b, 1, Len(b) - 1) \in Seq(S) /\ Len(SubSeq(b, 1, Len(b) - 1)) = Len(w) + 2
             /\ SubSeq(b, 1, Len(b) - 1)[Len(w) + 1] = Star
             /\ \A i \in 1 .. Len(w) : SubSeq(b, 1, Len(b) - 1)[i] = w[i]
<1> DEFINE e == <<Star, "checksum", NewLine>>
           b == w \o e
           m == Len(w)
           l == Len(b)
           t == SubSeq(b, 1, l - 1)
<1>1. e \in Seq(S) /\ Len(e) = 3 /\ e[1] = Star /\ e[2] = "checksum" /\ e[3] = NewLine
  OBVIOUS
<1>2. Star # NewLine /\ "checksum" # NewLine
  BY DEF Star, NewLine
<1> HIDE DEF e
<1>3. /\ b \in Seq(S) /\ m \in Nat /\ l = m + Len(e)
      /\ \A i \in 1 .. m : b[i] = w[i]
      /\ \A i \in 1 .. Len(e) : b[m + i] = e[i]
  <2>1. e \in Seq(S)
    BY <1>1
  <2> QED BY <2>1, JoinedAt
<1> HIDE DEF b
<1>4. \A i \in 1 .. m : w[i] # NewLine
  BY DEF Endless
<1> HIDE DEF m, l
<1>5. l = m + 3 /\ b[m + 1] = Star /\ b[m + 2] = "checksum" /\ b[m + 3] = NewLine
  <2>1. 1 \in 1 .. Len(e) /\ 2 \in 1 .. Len(e) /\ 3 \in 1 .. Len(e)
    BY <1>1
  <2>2. b[m + 1] = e[1] /\ b[m + 2] = e[2] /\ b[m + 3] = e[3]
    BY <1>3, <2>1
  <2> QED BY <1>1, <1>3, <2>2
<1>6. \A i \in 1 .. l - 1 : b[i] # NewLine
  <2> SUFFICES ASSUME NEW i \in 1 .. l - 1 PROVE b[i] # NewLine
    OBVIOUS
  <2>1. i \in 1 .. m \/ i = m + 1 \/ i = m + 2
    BY <1>3, <1>5
  <2> QED BY <1>2, <1>3, <1>4, <1>5, <2>1
<1>7. t \in Seq(S) /\ Len(t) = m + 2 /\ \A i \in 1 .. m + 2 : t[i] = b[i]
  <2>1. /\ 0 \in Nat /\ m + 2 \in Nat /\ 0 + (m + 2) <= l
        /\ 0 + 1 = 1 /\ 0 + (m + 2) = l - 1 /\ \A i \in 1 .. m + 2 : 0 + i = i
    BY <1>3, <1>5
  <2>2. /\ SubSeq(b, 0 + 1, 0 + (m + 2)) \in Seq(S) /\ Len(SubSeq(b, 0 + 1, 0 + (m + 2))) = m + 2
        /\ \A i \in 1 .. m + 2 : SubSeq(b, 0 + 1, 0 + (m + 2))[i] = b[0 + i]
    BY <1>3, <2>1, PartAt DEF l
  <2> QED BY <2>1, <2>2
<1> HIDE DEF t
<1>8. m + 1 \in 1 .. m + 2 /\ \A i \in 1 .. m : i \in 1 .. m + 2
  BY <1>3
<1>9. t[m + 1] = Star /\ \A i \in 1 .. m : t[i] = w[i]
  BY <1>3, <1>5, <1>7, <1>8
<1>10. b[l] = NewLine
  BY <1>5
<1> QED BY <1>3, <1>5, <1>6, <1>7, <1>9, <1>10 DEF t, l, b, e, m

-----------------------------------------------------------------------------
(* The fields of a sentence and the position it says.                      *)

(* The words that are given.                                               *)
Filled(s) == {i \in DOMAIN s : s[i] # ""}

(* Two snapshots have the same position.                                   *)
SamePosition(p, q) == p.fix_type = q.fix_type /\ p.lat = q.lat /\ p.lon = q.lon

(* What a sentence is read from: the first of its fields that are not      *)
(* empty, each in its own place as long as none before it is empty.        *)
InTheirPlaces(s, fields) ==
  /\ Len(fields) \in Nat /\ Len(fields) <= Cardinality(Filled(s))
  /\ \A j \in 1 .. 7 :
       1 .. j \subseteq Filled(s) =>
         j <= Len(fields) /\ Len(fields[j]) = 1 /\ fields[j][1] = s[j] /\ fields[j] # <<>>

(* They are what a line is read from.                                      *)
LEMMA LineUnderstood ==
  ASSUME NEW s, ReadInPlace(s), NEW g
  PROVE  LET b == NmeaWords(s)
         IN  \E fields : /\ ParseLine(g, SubSeq(b, 1, Len(b) - 1)) = ParseFields(g, fields)
                         /\ InTheirPlaces(s, fields)
<1> DEFINE S == WordsOf(s)
           b == NmeaWords(s)
           line == SubSeq(b, 1, Len(b) - 1)
<1>0. PICK w \in Seq(S) :
        /\ b = w \o <<Star, "checksum", NewLine>> /\ Endless(w)
        /\ \E a : Strtok(w) = a.fields /\ Told(S, s, Len(s), a)
  BY SentenceRead
<1>1. PICK a : /\ b = w \o <<Star, "checksum", NewLine>> /\ Endless(w)
               /\ Strtok(w) = a.fields /\ Told(S, s, Len(s), a)
  BY <1>0
<1>2. {Star, "checksum", NewLine} \subseteq S
  BY DEF WordsOf
<1>3. Len(b) <= NmeaBuffer /\ Len(b) < LineMax + 3 /\ 1 \in DOMAIN s
      /\ s \in Seq({s[i] : i \in DOMAIN s})
  BY DEF ReadInPlace
<1> HIDE DEF S, b
<1>4. /\ Len(w) \in Nat /\ Len(b) = Len(w) + 3 /\ line \in Seq(S) /\ Len(line) = Len(w) + 2
      /\ line[Len(w) + 1] = Star /\ \A i \in 1 .. Len(w) : line[i] = w[i]
  BY <1>1, <1>2, LineShape
<1>5. Len(w) < LineMax
  <2> DEFINE m == Len(w)
             l == Len(b)
  <2>1. m \in Nat /\ l = m + 3 /\ l < LineMax + 3 /\ LineMax \in Nat
    BY <1>3, <1>4, NmeaAssumption
  <2> HIDE DEF m, l
  <2>2. m < LineMax
    BY <2>1
  <2> QED BY <2>2 DEF m
<1> HIDE DEF line
<1> DEFINE work == SubSeq(line, 1, IF Len(line) < LineMax THEN Len(line) ELSE LineMax - 1)
           star == SelectInSeq(work, LAMBDA x : x = Star)
           t == Strtok(IF star = 0 THEN work ELSE SubSeq(work, 1, star - 1))
           n == Len(t)
           c == IF n < MaxFields THEN n ELSE MaxFields
           fields == SubSeq(t, 1, c)
<1>6. ParseLine(g, line) = ParseFields(g, fields)
  BY DEF ParseLine
<1>7. (IF star = 0 THEN work ELSE SubSeq(work, 1, star - 1)) = w
  BY <1>1, <1>4, <1>5, CutAtStar
<1>8. t = a.fields
  BY <1>1, <1>7
<1> HIDE DEF t
<1>9. /\ t \in Seq(Seq(S)) /\ n = Cardinality(Given(s, Len(s)))
      /\ \A j \in 1 .. Len(s) : 1 .. j \subseteq Given(s, Len(s)) => t[j] = <<s[j]>>
  BY <1>1, <1>8 DEF Told, Tokens
<1>10. Given(s, Len(s)) = Filled(s) /\ DOMAIN s = 1 .. Len(s) /\ Len(s) \in Nat
  <2>1. DOMAIN s = 1 .. Len(s) /\ Len(s) \in Nat
    BY <1>3, LenProperties
  <2> QED BY <2>1 DEF Given, Filled
<1>11. n \in Nat /\ MaxFields \in Nat /\ MaxFields >= 7
  BY <1>9, LenProperties, NmeaAssumption
<1>12. c \in Nat /\ c <= n /\ (c = n \/ c >= 7)
  <2> HIDE DEF n
  <2> QED BY <1>11
<1> HIDE DEF c
<1>13. /\ Len(fields) = c /\ \A i \in 1 .. c : fields[i] = t[i]
  <2>1. 0 \in Nat /\ 0 + c <= Len(t) /\ 0 + 1 = 1 /\ 0 + c = c /\ \A i \in 1 .. c : 0 + i = i
    BY <1>12
  <2>2. /\ Len(SubSeq(t, 0 + 1, 0 + c)) = c
        /\ \A i \in 1 .. c : SubSeq(t, 0 + 1, 0 + c)[i] = t[0 + i]
    BY <1>9, <1>12, <2>1, PartAt
  <2> QED BY <2>1, <2>2
<1> HIDE DEF fields
<1>14. IsFiniteSet(Filled(s))
  <2>1. IsFiniteSet(1 .. Len(s))
    BY <1>10, FS_Interval
  <2> QED BY <1>10, <2>1, FS_Subset DEF Filled
<1> HIDE DEF n
<1>15. ASSUME NEW j \in 1 .. 7, 1 .. j \subseteq Filled(s)
       PROVE  j <= c /\ Len(fields[j]) = 1 /\ fields[j][1] = s[j] /\ fields[j] # <<>>
  <2>1. j \in Nat /\ j \in 1 .. j /\ 1 <= j /\ j <= 7
    OBVIOUS
  <2>2. Cardinality(1 .. j) <= Cardinality(Filled(s))
    BY <1>14, <1>15, FS_Subset
  <2>3. Cardinality(1 .. j) = j
    <3>1. 1 \in Int /\ j \in Int /\ 1 <= j /\ j - 1 + 1 = j
      BY <2>1
    <3>2. Cardinality(1 .. j) = j - 1 + 1
      BY <3>1, FS_Interval
    <3> QED BY <3>1, <3>2
  <2>4. j <= n
    BY <1>9, <1>10, <2>2, <2>3
  <2>5. j <= c /\ j \in 1 .. c
    BY <1>11, <1>12, <2>1, <2>4
  <2>6. j \in 1 .. Len(s)
    BY <1>10, <1>15, <2>1 DEF Filled
  <2>7. fields[j] = <<s[j]>>
    BY <1>9, <1>10, <1>13, <1>15, <2>5, <2>6
  <2> DEFINE x == s[j]
             y == <<x>>
  <2>8. Len(y) = 1 /\ y[1] = x
    <3>1. x \in {x}
      OBVIOUS
    <3> HIDE DEF x
    <3> QED BY <3>1, OneWord
  <2>9. y # <<>>
    <3> HIDE DEF y
    <3>1. y = <<>> => Len(y) = 0
      BY EmptySeq
    <3> QED BY <2>8, <3>1
  <2> QED BY <2>5, <2>7, <2>8, <2>9 DEF x, y
<1>16. c <= Cardinality(Filled(s))
  BY <1>9, <1>10, <1>12
<1>17. InTheirPlaces(s, fields)
  BY <1>12, <1>13, <1>15, <1>16 DEF InTheirPlaces
<1> QED BY <1>6, <1>17 DEF line, b

(* A snapshot, whatever is in it.                                          *)
GpsRecord(g) ==
  g = [fix_type |-> g.fix_type, lat |-> g.lat, lon |-> g.lon, heading |-> g.heading]

(* A sentence of one kind is not of another.                               *)
LEMMA KindsApart == Gga \cap Rmc = {} /\ Gga \cap Vtg = {} /\ Rmc \cap Vtg = {}
BY DEF Gga, Rmc, Vtg

(* The places that are read.                                               *)
LEMMA PlacesThere ==
  /\ \A n \in Nat : (n >= 7 => 3 .. 7 \subseteq 1 .. n) /\ (n >= 6 => 4 .. 6 \subseteq 1 .. n)
  /\ 4 .. 6 \subseteq 1 .. 7 /\ 4 \in 4 .. 6
<1>1. \A n \in Nat : (n >= 7 => 3 .. 7 \subseteq 1 .. n) /\ (n >= 6 => 4 .. 6 \subseteq 1 .. n)
  OBVIOUS
<1>2. 4 .. 6 \subseteq 1 .. 7
  OBVIOUS
<1>3. 4 \in 4 .. 6
  OBVIOUS
<1> QED BY <1>1, <1>2, <1>3

(* What a sentence means that gives no position.                           *)
LEMMA MeansNothing ==
  ASSUME NEW s, NEW g,
         s[1] \in Gga => ~(3 .. 7 \subseteq Filled(s)) \/ Integer[s[7]] = 0,
         s[1] \in Rmc => ~(4 .. 6 \subseteq Filled(s)) \/ s[3] # "A",
         DOMAIN s = 1 .. Len(s), Len(s) \in Nat
  PROVE  SamePosition(g, NmeaMeans(g, s))
<1> DEFINE full(i, j) == Len(s) >= j /\ \A k \in i .. j : s[k] # ""
           q == [fix_type |-> g.fix_type, lat |-> g.lat, lon |-> g.lon]
<1>1. full(3, 7) => 3 .. 7 \subseteq Filled(s)
  <2> SUFFICES ASSUME full(3, 7) PROVE 3 .. 7 \subseteq Filled(s)
    OBVIOUS
  <2>1. 3 .. 7 \subseteq DOMAIN s
    BY PlacesThere
  <2> QED BY <2>1 DEF Filled
<1>2. full(4, 6) => 4 .. 6 \subseteq Filled(s)
  <2> SUFFICES ASSUME full(4, 6) PROVE 4 .. 6 \subseteq Filled(s)
    OBVIOUS
  <2>1. 4 .. 6 \subseteq DOMAIN s
    BY PlacesThere
  <2> QED BY <2>1 DEF Filled
<1>3. ~(s[1] \in Gga /\ full(3, 7) /\ Integer[s[7]] # 0)
  <2> HIDE DEF full
  <2> QED BY <1>1
<1>4. ~(s[1] \in Rmc /\ full(4, 6) /\ s[3] = "A")
  <2> HIDE DEF full
  <2> QED BY <1>2
<1>5. NmeaMeans(g, s) = q
  BY <1>3, <1>4 DEF NmeaMeans
<1>6. q.fix_type = g.fix_type /\ q.lat = g.lat /\ q.lon = g.lon
  OBVIOUS
<1> HIDE DEF q
<1> QED BY <1>5, <1>6 DEF SamePosition

(* A place, and the side it is on.                                         *)
LEMMA DirectionRead ==
  ASSUME NEW x, NEW y, x # <<>>, y # <<>>, x[1] \in Coordinates
  PROVE  /\ y[1] # "W" => Decimal(x, y) = [at |-> x[1], negative |-> y[1] = "S"]
         /\ y[1] # "S" => Decimal(x, y) = [at |-> x[1], negative |-> y[1] = "W"]
<1>1. Decimal(x, y) = [at |-> x[1], negative |-> y # <<>> /\ y[1] \in {"S", "W"}]
  BY DEF Decimal
<1>2. y[1] # "W" => (y # <<>> /\ y[1] \in {"S", "W"}) = (y[1] = "S")
  OBVIOUS
<1>3. y[1] # "S" => (y # <<>> /\ y[1] \in {"S", "W"}) = (y[1] = "W")
  OBVIOUS
<1> QED BY <1>1, <1>2, <1>3

(* The sentence of a position in full: no field in front of those that are *)
(* read is empty.                                                          *)
LEMMA GgaInFull ==
  ASSUME NEW s, NEW g, GpsRecord(g), NEW fields, InTheirPlaces(s, fields), s[1] \in Gga,
         1 .. 7 \subseteq Filled(s), s[7] \in DOMAIN Integer,
         {s[3], s[5]} \subseteq Coordinates, s[4] # "W", s[6] # "S",
         DOMAIN s = 1 .. Len(s), Len(s) \in Nat
  PROVE  SamePosition(ParseFields(g, fields), NmeaMeans(g, s))
<1> DEFINE x(j) == fields[j]
           d == Integer[s[7]]
<1>1. ASSUME NEW j \in 1 .. 7
      PROVE  j <= Len(fields) /\ Len(fields[j]) = 1 /\ fields[j][1] = s[j] /\ fields[j] # <<>>
             /\ s[j] # ""
  <2>1. 1 .. j \subseteq 1 .. 7 /\ j \in 1 .. 7
    OBVIOUS
  <2>2. 1 .. j \subseteq Filled(s) /\ s[j] # ""
    BY <2>1 DEF Filled
  <2> QED BY <2>2 DEF InTheirPlaces
<1>2. 1 \in 1 .. 7 /\ 3 \in 1 .. 7 /\ 4 \in 1 .. 7 /\ 5 \in 1 .. 7 /\ 6 \in 1 .. 7 /\ 7 \in 1 .. 7
  OBVIOUS
<1>3. 7 <= Len(fields) /\ Len(fields) \in Nat
  BY <1>1, <1>2 DEF InTheirPlaces
<1>4. ~(Len(fields) < 2) /\ ~(Len(fields) < 7)
  BY <1>3
<1>5. Len(fields[1]) = 1 /\ fields[1][1] = s[1]
  BY <1>1, <1>2
<1>6. ParseFields(g, fields) = ParseGga(g, fields)
  <2>1. s[1] \notin Rmc /\ s[1] \notin Vtg
    BY KindsApart
  <2> QED BY <1>4, <1>5, <2>1 DEF ParseFields
<1>7. Atoi(fields[7]) = d /\ d \in Nat
  <2>1. fields[7][1] = s[7]
    BY <1>1, <1>2
  <2> QED BY <2>1, NmeaAssumption DEF Atoi
<1>8. s[1] \notin Rmc
  BY KindsApart
<1> HIDE DEF d
<1>9. CASE d = 0
  <2>1. ParseFields(g, fields) = g
    <3>1. d < 1
      BY <1>9
    <3> QED BY <1>6, <1>7, <3>1 DEF ParseGga
  <2>2. SamePosition(g, NmeaMeans(g, s))
    BY <1>8, <1>9, MeansNothing DEF d
  <2> QED BY <2>1, <2>2
<1>10. CASE d # 0
  <2> DEFINE lat == [at |-> s[3], negative |-> s[4] = "S"]
             lon == [at |-> s[5], negative |-> s[6] = "W"]
             fix == IF d = 1 THEN 1 ELSE 3
  <2>1. Decimal(fields[3], fields[4]) = lat
    <3>1. fields[3] # <<>> /\ fields[4] # <<>> /\ fields[3][1] = s[3] /\ fields[4][1] = s[4]
      BY <1>1, <1>2
    <3>2. fields[3][1] \in Coordinates /\ fields[4][1] # "W" 
      BY <3>1
    <3>3. Decimal(fields[3], fields[4]) = [at |-> fields[3][1], negative |-> fields[4][1] = "S"]
      BY <3>1, <3>2, DirectionRead
    <3> QED BY <3>1, <3>3
  <2>2. Decimal(fields[5], fields[6]) = lon
    <3>1. fields[5] # <<>> /\ fields[6] # <<>> /\ fields[5][1] = s[5] /\ fields[6][1] = s[6]
      BY <1>1, <1>2
    <3>2. fields[5][1] \in Coordinates /\ fields[6][1] # "S" 
      BY <3>1
    <3>3. Decimal(fields[5], fields[6]) = [at |-> fields[5][1], negative |-> fields[6][1] = "W"]
      BY <3>1, <3>2, DirectionRead
    <3> QED BY <3>1, <3>3
  <2> HIDE DEF lat, lon
  <2>3. (IF d >= 2 THEN 3 ELSE 1) = fix /\ ~(d < 1)
    BY <1>7, <1>10
  <2> HIDE DEF fix
  <2>4. ParseFields(g, fields) = [g EXCEPT !.fix_type = fix, !.lat = lat, !.lon = lon]
    BY <1>4, <1>6, <1>7, <2>1, <2>2, <2>3 DEF ParseGga
  <2>5. /\ ParseFields(g, fields).fix_type = fix
        /\ ParseFields(g, fields).lat = lat /\ ParseFields(g, fields).lon = lon
    BY <2>4 DEF GpsRecord
  <2>6. NmeaMeans(g, s) = [fix_type |-> fix, lat |-> lat, lon |-> lon]
    <3> DEFINE full(i, j) == Len(s) >= j /\ \A k \in i .. j : s[k] # ""
               degrees(i, south) == [at |-> s[i], negative |-> Len(s) > i /\ s[i + 1] = south]
    <3>1. Len(s) >= 7
      <4>1. 7 \in DOMAIN s
        BY <1>2 DEF Filled
      <4> QED BY <4>1
    <3>2. full(3, 7)
      <4>1. \A k \in 3 .. 7 : k \in 1 .. 7
        OBVIOUS
      <4> QED BY <1>1, <3>1, <4>1
    <3>3. degrees(3, "S") = lat /\ degrees(5, "W") = lon
      BY <3>1 DEF lat, lon
    <3> HIDE DEF full, degrees
    <3>4. s[1] \in Gga /\ full(3, 7) /\ Integer[s[7]] # 0 /\ ~(s[1] \in Rmc)
      BY <1>8, <1>10, <3>2 DEF d
    <3>5. NmeaMeans(g, s) = [fix_type |-> IF Integer[s[7]] = 1 THEN 1 ELSE 3,
                             lat |-> degrees(3, "S"), lon |-> degrees(5, "W")]
      BY <3>4 DEF NmeaMeans, full, degrees
    <3> QED BY <3>3, <3>5 DEF fix, d
  <2> QED BY <2>5, <2>6 DEF SamePosition
<1> QED BY <1>9, <1>10

(* A recommended minimum in full.                                          *)
LEMMA RmcInFull ==
  ASSUME NEW s, NEW g, GpsRecord(g), NEW fields, InTheirPlaces(s, fields), s[1] \in Rmc,
         1 .. 7 \subseteq Filled(s), s[3] = "A",
         {s[4], s[6]} \subseteq Coordinates, s[5] # "W", s[7] # "S",
         DOMAIN s = 1 .. Len(s), Len(s) \in Nat
  PROVE  SamePosition(ParseFields(g, fields), NmeaMeans(g, s))
<1>1. ASSUME NEW j \in 1 .. 7
      PROVE  j <= Len(fields) /\ Len(fields[j]) = 1 /\ fields[j][1] = s[j] /\ fields[j] # <<>>
             /\ s[j] # ""
  <2>1. 1 .. j \subseteq 1 .. 7 /\ j \in 1 .. 7
    OBVIOUS
  <2>2. 1 .. j \subseteq Filled(s) /\ s[j] # ""
    BY <2>1 DEF Filled
  <2> QED BY <2>2 DEF InTheirPlaces
<1>2. 1 \in 1 .. 7 /\ 3 \in 1 .. 7 /\ 4 \in 1 .. 7 /\ 5 \in 1 .. 7 /\ 6 \in 1 .. 7 /\ 7 \in 1 .. 7
  OBVIOUS
<1>3. 7 <= Len(fields) /\ Len(fields) \in Nat
  BY <1>1, <1>2 DEF InTheirPlaces
<1>4. ~(Len(fields) < 2) /\ ~(Len(fields) < 6) /\ Len(fields) > 6
  BY <1>3
<1>5. Len(fields[1]) = 1 /\ fields[1][1] = s[1]
  BY <1>1, <1>2
<1>6. s[1] \notin Gga /\ s[1] \notin Vtg
  BY KindsApart
<1>7. ParseFields(g, fields) = ParseRmc(g, fields)
  BY <1>4, <1>5, <1>6 DEF ParseFields
<1> DEFINE lat == [at |-> s[4], negative |-> s[5] = "S"]
           lon == [at |-> s[6], negative |-> s[7] = "W"]
<1>8. Decimal(fields[4], fields[5]) = lat
  <2>1. fields[4] # <<>> /\ fields[5] # <<>> /\ fields[4][1] = s[4] /\ fields[5][1] = s[5]
    BY <1>1, <1>2
  <2>2. fields[4][1] \in Coordinates /\ fields[5][1] # "W"
    BY <2>1
  <2>3. Decimal(fields[4], fields[5]) = [at |-> fields[4][1], negative |-> fields[5][1] = "S"]
    BY <2>1, <2>2, DirectionRead
  <2> QED BY <2>1, <2>3
<1>9. Decimal(fields[6], fields[7]) = lon
  <2>1. fields[6] # <<>> /\ fields[7] # <<>> /\ fields[6][1] = s[6] /\ fields[7][1] = s[7]
    BY <1>1, <1>2
  <2>2. fields[6][1] \in Coordinates /\ fields[7][1] # "S"
    BY <2>1
  <2>3. Decimal(fields[6], fields[7]) = [at |-> fields[6][1], negative |-> fields[7][1] = "W"]
    BY <2>1, <2>2, DirectionRead
  <2> QED BY <2>1, <2>3
<1> HIDE DEF lat, lon
<1>10. fields[3][1] = "A"
  BY <1>1, <1>2
<1>11. ParseFields(g, fields) = [g EXCEPT !.lat = lat, !.lon = lon]
  BY <1>4, <1>7, <1>8, <1>9, <1>10 DEF ParseRmc
<1>12. /\ ParseFields(g, fields).fix_type = g.fix_type
       /\ ParseFields(g, fields).lat = lat /\ ParseFields(g, fields).lon = lon
  BY <1>11 DEF GpsRecord
<1>13. NmeaMeans(g, s) = [fix_type |-> g.fix_type, lat |-> lat, lon |-> lon]
  <2> DEFINE full(i, j) == Len(s) >= j /\ \A k \in i .. j : s[k] # ""
             degrees(i, south) == [at |-> s[i], negative |-> Len(s) > i /\ s[i + 1] = south]
  <2>1. Len(s) >= 7
    <3>1. 7 \in DOMAIN s
      BY <1>2 DEF Filled
    <3> QED BY <3>1
  <2>2. full(4, 6)
    <3>1. 4 .. 6 \subseteq 1 .. 7
      BY PlacesThere
    <3>2. \A k \in 1 .. 7 : s[k] # ""
      BY <1>1
    <3>3. \A k \in 4 .. 6 : s[k] # ""
      BY <3>1, <3>2
    <3>4. Len(s) >= 6
      BY <2>1
    <3> QED BY <3>3, <3>4
  <2>3. degrees(4, "S") = lat /\ degrees(6, "W") = lon
    BY <2>1 DEF lat, lon
  <2> HIDE DEF full, degrees
  <2>4. s[1] \in Rmc /\ full(4, 6) /\ s[3] = "A" /\ ~(s[1] \in Gga)
    BY <1>6, <2>2
  <2>5. NmeaMeans(g, s) =
          [fix_type |-> g.fix_type, lat |-> degrees(4, "S"), lon |-> degrees(6, "W")]
    BY <2>4 DEF NmeaMeans, full, degrees
  <2> QED BY <2>3, <2>5
<1> QED BY <1>12, <1>13 DEF SamePosition

(* A sentence that has no position does not give one.                      *)
LEMMA GivesNothing ==
  ASSUME NEW s, NEW g, GpsRecord(g), NEW fields, InTheirPlaces(s, fields),
         s[1] \in Gga => Len(fields) < 7,
         s[1] \in Rmc => Len(fields) < 6 \/ fields[3][1] # "A",
         1 \in Filled(s)
  PROVE  SamePosition(ParseFields(g, fields), g)
<1>1. Len(fields[1]) = 1 /\ fields[1][1] = s[1]
  <2>1. 1 .. 1 \subseteq Filled(s)
    BY OneOnly
  <2>2. 1 \in 1 .. 7
    OBVIOUS
  <2> QED BY <2>1, <2>2 DEF InTheirPlaces
<1>2. ParseGga(g, fields) = g \/ s[1] \notin Gga
  BY DEF ParseGga
<1>3. ParseRmc(g, fields) = g \/ s[1] \notin Rmc
  BY DEF ParseRmc
<1>4. SamePosition(ParseVtg(g, fields), g)
  <2> DEFINE x == Atof(fields[2])
  <2>1. ParseVtg(g, fields) = [g EXCEPT !.heading = x]
    BY DEF ParseVtg
  <2> HIDE DEF x
  <2>2. [g EXCEPT !.heading = x] =
          [fix_type |-> g.fix_type, lat |-> g.lat, lon |-> g.lon, heading |-> x]
    BY DEF GpsRecord
  <2> QED BY <2>1, <2>2 DEF SamePosition
<1>5. SamePosition(g, g)
  BY DEF SamePosition
<1>6. CASE Len(fields) < 2
  BY <1>5, <1>6 DEF ParseFields
<1>7. CASE ~(Len(fields) < 2)
  <2>1. ParseFields(g, fields) = CASE s[1] \in Gga -> ParseGga(g, fields)
                                   [] s[1] \in Rmc -> ParseRmc(g, fields)
                                   [] s[1] \in Vtg -> ParseVtg(g, fields)
                                   [] OTHER -> g
    BY <1>1, <1>7 DEF ParseFields
  <2>2. CASE s[1] \in Gga
    <3>1. s[1] \notin Rmc /\ s[1] \notin Vtg
      BY <2>2, KindsApart
    <3> QED BY <1>2, <1>5, <2>1, <2>2, <3>1
  <2>3. CASE s[1] \in Rmc
    <3>1. s[1] \notin Gga /\ s[1] \notin Vtg
      BY <2>3, KindsApart
    <3> QED BY <1>3, <1>5, <2>1, <2>3, <3>1
  <2>4. CASE s[1] \in Vtg
    <3>1. s[1] \notin Gga /\ s[1] \notin Rmc
      BY <2>4, KindsApart
    <3> QED BY <1>4, <2>1, <2>4, <3>1
  <2>5. CASE s[1] \notin Gga /\ s[1] \notin Rmc /\ s[1] \notin Vtg
    BY <1>5, <2>1, <2>5
  <2> QED BY <2>2, <2>3, <2>4, <2>5
<1> QED BY <1>6, <1>7

(* A line is read as the position that its sentence says.                  *)
LEMMA ReadAsMeant ==
  ASSUME NEW s, ReadInPlace(s), NEW g, GpsRecord(g)
  PROVE  LET b == NmeaWords(s)
         IN  SamePosition(ParseLine(g, SubSeq(b, 1, Len(b) - 1)), NmeaMeans(g, s))
<1> DEFINE b == NmeaWords(s)
           p == ParseLine(g, SubSeq(b, 1, Len(b) - 1))
           n == Cardinality(Filled(s))
<1>1. PICK fields : p = ParseFields(g, fields) /\ InTheirPlaces(s, fields)
  BY LineUnderstood
<1> HIDE DEF p
<1>2. /\ 1 \in Filled(s) /\ s \in Seq({s[i] : i \in DOMAIN s})
      /\ s[1] \in Gga =>
           \/ /\ 1 .. 7 \subseteq Filled(s) /\ s[7] \in DOMAIN Integer
              /\ {s[3], s[5]} \subseteq Coordinates /\ s[4] # "W" /\ s[6] # "S"
           \/ n < 7 /\ ~(3 .. 7 \subseteq Filled(s))
      /\ s[1] \in Rmc =>
           \/ /\ 1 .. 7 \subseteq Filled(s)
              /\ {s[4], s[6]} \subseteq Coordinates /\ s[5] # "W" /\ s[7] # "S"
           \/ 1 .. 3 \subseteq Filled(s) /\ s[3] # "A"
           \/ n < 6 /\ ~(3 .. 6 \subseteq Filled(s))
  BY DEF ReadInPlace, Filled
<1>3. DOMAIN s = 1 .. Len(s) /\ Len(s) \in Nat
  BY <1>2, LenProperties
<1>4. IsFiniteSet(Filled(s)) /\ n \in Nat
  <2>1. IsFiniteSet(1 .. Len(s))
    BY <1>3, FS_Interval
  <2>2. IsFiniteSet(Filled(s))
    BY <1>3, <2>1, FS_Subset DEF Filled
  <2> QED BY <2>2, FS_CardinalityType
<1>5. Len(fields) \in Nat /\ Len(fields) <= n
  BY <1>1 DEF InTheirPlaces
<1> HIDE DEF n
<1>6. CASE s[1] \in Gga
  <2>1. s[1] \notin Rmc
    BY <1>6, KindsApart
  <2>2. CASE 1 .. 7 \subseteq Filled(s) /\ s[7] \in DOMAIN Integer
             /\ {s[3], s[5]} \subseteq Coordinates /\ s[4] # "W" /\ s[6] # "S"
    BY <1>1, <1>3, <1>6, <2>2, GgaInFull DEF p
  <2>3. CASE n < 7 /\ ~(3 .. 7 \subseteq Filled(s))
    <3>1. Len(fields) < 7
      BY <1>4, <1>5, <2>3
    <3>2. SamePosition(p, g)
      BY <1>1, <1>2, <2>1, <3>1, GivesNothing
    <3>3. SamePosition(g, NmeaMeans(g, s))
      BY <1>3, <2>1, <2>3, MeansNothing
    <3> QED BY <3>2, <3>3 DEF SamePosition, p
  <2> QED BY <1>2, <1>6, <2>2, <2>3
<1>7. CASE s[1] \in Rmc
  <2>1. s[1] \notin Gga
    BY <1>7, KindsApart
  <2>2. ASSUME s[3] # "A" \/ ~(4 .. 6 \subseteq Filled(s)),
               Len(fields) < 6 \/ fields[3][1] # "A"
        PROVE  SamePosition(p, NmeaMeans(g, s))
    <3>1. SamePosition(p, g)
      BY <1>1, <1>2, <2>1, <2>2, GivesNothing
    <3>2. SamePosition(g, NmeaMeans(g, s))
      BY <1>3, <2>1, <2>2, MeansNothing
    <3> QED BY <3>1, <3>2 DEF SamePosition
  <2>3. 1 .. 3 \subseteq Filled(s) => fields[3][1] = s[3]
    <3>1. 3 \in 1 .. 7
      OBVIOUS
    <3> QED BY <1>1, <3>1 DEF InTheirPlaces
  <2>4. CASE 1 .. 7 \subseteq Filled(s)
             /\ {s[4], s[6]} \subseteq Coordinates /\ s[5] # "W" /\ s[7] # "S"
    <3>1. CASE s[3] = "A"
      BY <1>1, <1>3, <1>7, <2>4, <3>1, RmcInFull DEF p
    <3>2. CASE s[3] # "A"
      <4>1. 1 .. 3 \subseteq 1 .. 7
        OBVIOUS
      <4>2. fields[3][1] # "A"
        BY <2>3, <2>4, <3>2, <4>1
      <4> QED BY <2>2, <3>2, <4>2 DEF p
    <3> QED BY <3>1, <3>2
  <2>5. CASE 1 .. 3 \subseteq Filled(s) /\ s[3] # "A"
    BY <2>2, <2>3, <2>5 DEF p
  <2>6. CASE n < 6 /\ ~(3 .. 6 \subseteq Filled(s))
    <3>1. Len(fields) < 6
      BY <1>4, <1>5, <2>6
    <3>2. s[3] # "A" \/ ~(4 .. 6 \subseteq Filled(s))
      <4> SUFFICES ASSUME s[3] = "A", 4 .. 6 \subseteq Filled(s) PROVE FALSE
        OBVIOUS
      <4>0. 4 .. 6 \subseteq Filled(s)
        OBVIOUS
      <4>1. 3 \in Filled(s)
        <5>1. 4 \in DOMAIN s
          <6>1. 4 \in 4 .. 6
            BY PlacesThere
          <6> QED BY <4>0, <6>1 DEF Filled
        <5>2. 3 \in DOMAIN s
          BY <1>3, <5>1
        <5> QED BY <5>2 DEF Filled
      <4>2. 3 .. 6 \subseteq {3} \cup 4 .. 6
        OBVIOUS
      <4> QED BY <2>6, <4>1, <4>2
    <3> QED BY <2>2, <3>1, <3>2 DEF p
  <2> QED BY <1>2, <1>7, <2>4, <2>5, <2>6
<1>8. CASE s[1] \notin Gga /\ s[1] \notin Rmc
  <2>1. SamePosition(p, g)
    BY <1>1, <1>2, <1>8, GivesNothing
  <2>2. SamePosition(g, NmeaMeans(g, s))
    BY <1>3, <1>8, MeansNothing
  <2> QED BY <2>1, <2>2 DEF SamePosition, p
<1> QED BY <1>6, <1>7, <1>8

-----------------------------------------------------------------------------
(* The parser of sentences on the line.                                    *)

(* What has the fields of a snapshot and no other is one,                  *)
LEMMA StaysRecord ==
  ASSUME NEW h, h = [i \in {"fix_type", "lat", "lon", "heading"} |-> h[i]]
  PROVE  GpsRecord(h)
BY DEF GpsRecord

(* a line leaves one,                                                      *)
LEMMA FieldsKeepRecord ==
  ASSUME NEW g, GpsRecord(g), NEW fields
  PROVE  GpsRecord(ParseFields(g, fields))
<1>1. ASSUME NEW x, NEW y, NEW z
      PROVE  /\ GpsRecord([g EXCEPT !.fix_type = x, !.lat = y, !.lon = z])
             /\ GpsRecord([g EXCEPT !.lat = y, !.lon = z]) /\ GpsRecord([g EXCEPT !.heading = x])
  <2> DEFINE u == [g EXCEPT !.fix_type = x, !.lat = y, !.lon = z]
             v == [g EXCEPT !.lat = y, !.lon = z]
             t == [g EXCEPT !.heading = x]
  <2>1. DOMAIN g = {"fix_type", "lat", "lon", "heading"}
    BY DEF GpsRecord
  <2>2. u = [i \in DOMAIN g |-> u[i]] /\ v = [i \in DOMAIN g |-> v[i]]
        /\ t = [i \in DOMAIN g |-> t[i]]
    OBVIOUS
  <2> HIDE DEF u, v, t
  <2>3. GpsRecord(u) /\ GpsRecord(v) /\ GpsRecord(t)
    BY <2>1, <2>2, StaysRecord
  <2> QED BY <2>3 DEF u, v, t
<1>2. GpsRecord(ParseGga(g, fields))
  BY <1>1 DEF ParseGga
<1>3. GpsRecord(ParseRmc(g, fields))
  BY <1>1 DEF ParseRmc
<1>4. GpsRecord(ParseVtg(g, fields))
  BY <1>1 DEF ParseVtg
<1>5. \/ ParseFields(g, fields) = g
      \/ ParseFields(g, fields) = ParseGga(g, fields)
      \/ ParseFields(g, fields) = ParseRmc(g, fields)
      \/ ParseFields(g, fields) = ParseVtg(g, fields)
  <2> DEFINE x == fields[1][1]
  <2>1. CASE Len(fields) < 2 \/ Len(fields[1]) # 1
    BY <2>1 DEF ParseFields
  <2>2. CASE ~(Len(fields) < 2 \/ Len(fields[1]) # 1)
    <3>1. ParseFields(g, fields) = CASE x \in Gga -> ParseGga(g, fields)
                                     [] x \in Rmc -> ParseRmc(g, fields)
                                     [] x \in Vtg -> ParseVtg(g, fields)
                                     [] OTHER -> g
      BY <2>2 DEF ParseFields
    <3> HIDE DEF x
    <3>2. CASE x \in Gga
      BY <3>1, <3>2, KindsApart
    <3>3. CASE x \in Rmc
      BY <3>1, <3>3, KindsApart
    <3>4. CASE x \in Vtg
      BY <3>1, <3>4, KindsApart
    <3>5. CASE x \notin Gga /\ x \notin Rmc /\ x \notin Vtg
      BY <3>1, <3>5
    <3> QED BY <3>2, <3>3, <3>4, <3>5
  <2> QED BY <2>1, <2>2
<1> QED BY <1>2, <1>3, <1>4, <1>5

(* and so does a word.                                                     *)
LEMMA WordKeepsRecord ==
  ASSUME NEW p, NmeaKept(p), GpsRecord(p.gps), NEW w
  PROVE  GpsRecord(NmeaFeed(p, w).gps)
<1> DEFINE x == ParseLine(p.gps, p.buf)
           a == Append(p.buf, w)
<1>1. GpsRecord(x)
  BY FieldsKeepRecord DEF ParseLine
<1> HIDE DEF x
<1>2. CASE w = NewLine \/ Len(p.buf) >= NmeaBuffer - 1
  <2>1. NmeaFeed(p, w) = [buf |-> <<>>, gps |-> x]
    BY <1>2 DEF NmeaFeed, x
  <2> QED BY <1>1, <2>1
<1>3. CASE ~(w = NewLine \/ Len(p.buf) >= NmeaBuffer - 1)
  <2>1. NmeaFeed(p, w) = [p EXCEPT !.buf = a]
    BY <1>3 DEF NmeaFeed
  <2> HIDE DEF a
  <2>2. NmeaFeed(p, w) = [buf |-> a, gps |-> p.gps]
    BY <2>1 DEF NmeaKept
  <2> QED BY <2>2
<1> QED BY <1>2, <1>3

(* The words of a line.                                                    *)
LEMMA NmeaWordsShape ==
  ASSUME NEW s, ReadInPlace(s)
  PROVE  LET b == NmeaWords(s)
         IN  /\ b \in Seq(WordsOf(s)) /\ Len(b) \in Nat /\ Len(b) >= 3 /\ Len(b) <= NmeaBuffer
             /\ b[Len(b)] = NewLine /\ \A i \in 1 .. Len(b) - 1 : b[i] # NewLine
<1> DEFINE S == WordsOf(s)
           b == NmeaWords(s)
<1>1. PICK w \in Seq(S) : b = w \o <<Star, "checksum", NewLine>> /\ Endless(w)
  BY SentenceRead
<1>2. {Star, "checksum", NewLine} \subseteq S
  BY DEF WordsOf
<1>3. Len(b) <= NmeaBuffer
  BY DEF ReadInPlace
<1> HIDE DEF S, b
<1>4. /\ b \in Seq(S) /\ Len(w) \in Nat /\ Len(b) = Len(w) + 3
      /\ b[Len(b)] = NewLine /\ \A i \in 1 .. Len(b) - 1 : b[i] # NewLine
  BY <1>1, <1>2, LineShape
<1>5. Len(b) \in Nat /\ Len(b) >= 3
  BY <1>4
<1> QED BY <1>3, <1>4, <1>5 DEF S, b

(* The parser has the first k words of a sentence, or has read it.         *)
NmeaAt(p, s, k, g) ==
  LET b == NmeaWords(s)
  IN  /\ k < Len(b) => p.buf = SubSeq(b, 1, k) /\ p.gps = g
      /\ k = Len(b) => SamePosition(p.gps, NmeaMeans(g, s))

(* It has one word more when it is fed the next.                           *)
LEMMA NmeaReadsOn ==
  ASSUME NEW s, ReadInPlace(s), NEW g, GpsRecord(g), NEW p, NmeaKept(p),
         NEW k \in Nat, k < Len(NmeaWords(s)), NmeaAt(p, s, k, g)
  PROVE  NmeaAt(NmeaFeed(p, NmeaWords(s)[k + 1]), s, k + 1, g)
<1> DEFINE S == WordsOf(s)
           b == NmeaWords(s)
           w == b[k + 1]
           l == Len(b)
           r == NmeaFeed(p, w)
<1>1. /\ b \in Seq(S) /\ l \in Nat /\ l <= NmeaBuffer
      /\ b[l] = NewLine /\ \A i \in 1 .. l - 1 : b[i] # NewLine
  BY NmeaWordsShape
<1>2. p.buf = SubSeq(b, 1, k) /\ p.gps = g /\ k < l
  BY DEF NmeaAt
<1>3. NmeaBuffer \in Nat
  BY NmeaAssumption
<1>4. SamePosition(ParseLine(g, SubSeq(b, 1, l - 1)), NmeaMeans(g, s))
  BY ReadAsMeant
<1> HIDE DEF S, b, l
<1>5. SubSeq(b, 1, k) \in Seq(S) /\ Len(SubSeq(b, 1, k)) = k
  <2>1. 0 \in Nat /\ 0 + k <= Len(b) /\ 0 + 1 = 1 /\ 0 + k = k
    BY <1>1, <1>2 DEF l
  <2>2. SubSeq(b, 0 + 1, 0 + k) \in Seq(S) /\ Len(SubSeq(b, 0 + 1, 0 + k)) = k
    BY <1>1, <2>1, PartAt
  <2> QED BY <2>1, <2>2
<1>6. CASE k + 1 = l
  <2>1. w = NewLine /\ k = l - 1
    BY <1>1, <1>6
  <2> DEFINE x == ParseLine(p.gps, p.buf)
  <2>2. r = [buf |-> <<>>, gps |-> x]
    BY <2>1 DEF NmeaFeed
  <2>3. SamePosition(x, NmeaMeans(g, s))
    BY <1>2, <1>4, <2>1
  <2> HIDE DEF x, r
  <2>4. r.gps = x
    BY <2>2
  <2>5. ~(k + 1 < l)
    BY <1>1, <1>6
  <2> QED BY <2>3, <2>4, <2>5 DEF NmeaAt, l, b, r, w
<1>7. CASE k + 1 # l
  <2>1. k + 1 < l /\ k + 1 \in 1 .. l - 1 /\ k + 1 \in 1 .. l /\ ~(k >= NmeaBuffer - 1)
        /\ (k + 1) - 1 = k
    BY <1>1, <1>2, <1>3, <1>7
  <2>2. w # NewLine /\ w \in S
    BY <1>1, <2>1, ElementOfSeq DEF l
  <2> DEFINE a == Append(p.buf, w)
  <2>3. r = [p EXCEPT !.buf = a]
    BY <1>2, <1>5, <2>1, <2>2 DEF NmeaFeed
  <2>4. a = SubSeq(b, 1, k + 1)
    <3>1. SubSeq(b, 1, k + 1) = SubSeq(b, 1, (k + 1) - 1) \o <<w>>
      BY <1>1, <2>1, SubSeqRecursiveSecond DEF l
    <3>2. Append(SubSeq(b, 1, k), w) = SubSeq(b, 1, k) \o <<w>>
      BY <1>5, <2>2, AppendIsConcat
    <3> QED BY <1>2, <2>1, <3>1, <3>2
  <2> HIDE DEF a, r, w
  <2>5. r = [buf |-> a, gps |-> p.gps]
    BY <2>3 DEF NmeaKept
  <2>6. r.buf = SubSeq(b, 1, k + 1) /\ r.gps = g
    BY <1>2, <2>4, <2>5
  <2>7. NmeaAt(r, s, k + 1, g)
    BY <1>7, <2>6 DEF NmeaAt, l, b
  <2> QED BY <2>7 DEF r, w, b
<1> QED BY <1>6, <1>7

(* The inductive invariant.  The sentence on the line has k words behind   *)
(* it; if it is whole and was due, the parser has those in its buffer, and *)
(* the position the sentence gives once the last one is read.              *)
NmeaInv ==
  proto = "Nmea" =>
    /\ GpsRecord(parser.gps) /\ GpsRecord(before)
    /\ \E k \in 0 .. Len(NmeaWords(frame)) :
         /\ rest = SubSeq(NmeaWords(frame), k + 1, Len(NmeaWords(frame)))
         /\ whole /\ due => NmeaAt(parser, frame, k, before)

(* What is still to come of a sentence.                                    *)
LEMMA WordsToCome ==
  ASSUME NEW s, ReadInPlace(s), NEW k \in 0 .. Len(NmeaWords(s)),
         NEW t, t = SubSeq(NmeaWords(s), k + 1, Len(NmeaWords(s)))
  PROVE  LET b == NmeaWords(s)
         IN  /\ k \in Nat
             /\ t = <<>> => k = Len(b)
             /\ t # <<>> => /\ k < Len(b) /\ k + 1 \in 0 .. Len(b)
                            /\ Head(t) = b[k + 1]
                            /\ Tail(t) = SubSeq(b, (k + 1) + 1, Len(b))
<1> DEFINE b == NmeaWords(s)
           S == WordsOf(s)
<1>1. b \in Seq(S) /\ Len(b) \in Nat
  BY NmeaWordsShape
<1>2. k \in 0 .. Len(b) /\ t = SubSeq(b, k + 1, Len(b))
  OBVIOUS
<1> HIDE DEF b, S
<1>3. k \in Nat /\ k <= Len(b)
  BY <1>1, <1>2
<1>4. t = <<>> => k = Len(b)
  <2>1. IsList(b)
    BY <1>1, ListOf
  <2>2. Len(t) = Len(b) - k
    BY <1>2, <1>3, <2>1, ListPart
  <2>3. t = <<>> => Len(t) = 0
    BY EmptySeq
  <2> DEFINE l == Len(b)
             n == Len(t)
  <2>4. n = l - k /\ l \in Nat /\ k \in Nat
    BY <1>1, <1>3, <2>2
  <2> HIDE DEF l, n
  <2>5. n = 0 => k = l
    BY <2>4
  <2> QED BY <2>3, <2>5 DEF l, n
<1>5. t # <<>> => /\ k < Len(b) /\ k + 1 \in 1 .. Len(b)
                  /\ Head(t) = b[k + 1]
                  /\ Tail(t) = SubSeq(b, (k + 1) + 1, Len(b))
  BY <1>1, <1>2, RestOfFrame
<1>6. t # <<>> => k + 1 \in 0 .. Len(b)
  BY <1>1, <1>3, <1>5
<1> QED BY <1>3, <1>4, <1>5, <1>6 DEF b

(* At first no sentence is on the line.                                    *)
LEMMA NmeaBegins == SentencesInPlace /\ InputsInit => NmeaInv
<1> SUFFICES ASSUME SentencesInPlace, InputsInit, proto = "Nmea" PROVE NmeaInv
  BY DEF NmeaInv
<1>1. /\ rest = <<>> /\ parser = NmeaNew /\ before = NmeaNew.gps /\ whole = FALSE
      /\ ReadInPlace(frame)
  BY DEF InputsInit, LineInit, NewParser, SentencesInPlace
<1>2. GpsRecord(NmeaNew.gps)
  BY DEF NmeaNew, GpsRecord
<1> DEFINE b == NmeaWords(frame)
           k == Len(b)
<1>3. k \in Nat
  BY <1>1, NmeaWordsShape
<1> HIDE DEF k
<1>4. k \in 0 .. k /\ rest = SubSeq(b, k + 1, k)
  <2>1. SubSeq(b, k + 1, k) = <<>>
    BY <1>3, SubSeqEmpty
  <2> QED BY <1>1, <1>3, <2>1
<1> QED BY <1>1, <1>2, <1>4 DEF NmeaInv, k

(* A step of the line.                                                     *)
LEMMA NmeaStepKeeps ==
  ASSUME SentencesInPlace, LineKept, NmeaInv, [LineNext]_lineVars
  PROVE  NmeaInv'
<1> SUFFICES ASSUME proto' = "Nmea" PROVE NmeaInv'
  BY DEF NmeaInv
<1> DEFINE b == NmeaWords(frame)
<1>0. ASSUME proto = "Nmea"
      PROVE  ReadInPlace(frame) /\ NmeaKept(parser) /\ GpsRecord(parser.gps) /\ GpsRecord(before)
  BY <1>0 DEF LineKept, NmeaInv, SentencesInPlace
<1>1. ASSUME NEW m \in Messages[proto], SendFrame(m)
      PROVE  NmeaInv'
  <2>1. proto = "Nmea" /\ ReadInPlace(m)
    BY <1>1 DEF SendFrame, SentencesInPlace
  <2>2. /\ frame' = m /\ rest' = NmeaWords(m) /\ parser' = parser /\ before' = parser.gps
        /\ due' = (parser.buf = <<>>)
    BY <1>1, <2>1 DEF SendFrame, BytesOf, InStep
  <2> DEFINE c == NmeaWords(m)
             n == Len(c)
  <2>3. n \in Nat /\ n >= 3 /\ c \in Seq(WordsOf(m))
    BY <2>1, NmeaWordsShape
  <2>4. SubSeq(c, 1, n) = c /\ SubSeq(c, 1, 0) = <<>>
    <3> HIDE DEF c
    <3>1. SubSeq(c, 1, n) = c
      BY <2>3, SubSeqFull
    <3>2. SubSeq(c, 1, 0) = <<>>
      BY SubSeqEmpty
    <3> QED BY <3>1, <3>2
  <2>5. 0 \in 0 .. n /\ 0 < n /\ 0 # n /\ 0 + 1 = 1
    <3> HIDE DEF n
    <3> QED BY <2>3
  <2>6. due' => NmeaAt(parser', m, 0, before')
    BY <2>2, <2>4, <2>5 DEF NmeaAt
  <2>7. rest' = SubSeq(c, 0 + 1, n)
    BY <2>2, <2>4, <2>5
  <2>8. GpsRecord(parser'.gps) /\ GpsRecord(before')
    BY <1>0, <2>1, <2>2
  <2> QED BY <2>2, <2>5, <2>6, <2>7, <2>8 DEF NmeaInv
<1>2. ASSUME Arrive
      PROVE  NmeaInv'
  <2>1. /\ proto = "Nmea" /\ rest # <<>> /\ rest' = Tail(rest) /\ frame' = frame
        /\ whole' = whole /\ due' = due /\ before' = before
    BY <1>2 DEF Arrive
  <2>2. parser' = NmeaFeed(parser, Head(rest))
    BY <1>2, <2>1 DEF Arrive, Feed
  <2>3. ReadInPlace(frame) /\ NmeaKept(parser) /\ GpsRecord(parser.gps) /\ GpsRecord(before)
    BY <1>0, <2>1
  <2>4. PICK k \in 0 .. Len(b) :
          /\ rest = SubSeq(b, k + 1, Len(b))
          /\ whole /\ due => NmeaAt(parser, frame, k, before)
    BY <2>1 DEF NmeaInv
  <2>5. /\ k \in Nat /\ k < Len(b) /\ k + 1 \in 0 .. Len(b)
        /\ Head(rest) = b[k + 1] /\ Tail(rest) = SubSeq(b, (k + 1) + 1, Len(b))
    BY <2>1, <2>3, <2>4, WordsToCome
  <2>6. whole /\ due => NmeaAt(parser', frame, k + 1, before)
    BY <2>2, <2>3, <2>4, <2>5, NmeaReadsOn
  <2>7. GpsRecord(parser'.gps)
    BY <2>2, <2>3, WordKeepsRecord
  <2>8. rest' = SubSeq(b, (k + 1) + 1, Len(b)) /\ b' = b
    BY <2>1, <2>5
  <2> QED BY <2>1, <2>3, <2>5, <2>6, <2>7, <2>8 DEF NmeaInv
<1>3. ASSUME Lose
      PROVE  NmeaInv'
  <2>1. /\ proto = "Nmea" /\ rest # <<>> /\ rest' = Tail(rest) /\ frame' = frame
        /\ ~whole' /\ parser' = parser /\ before' = before
    BY <1>3 DEF Lose, Fault
  <2>2. ReadInPlace(frame) /\ GpsRecord(parser.gps) /\ GpsRecord(before)
    BY <1>0, <2>1
  <2>3. PICK k \in 0 .. Len(b) : rest = SubSeq(b, k + 1, Len(b))
    BY <2>1 DEF NmeaInv
  <2>4. k + 1 \in 0 .. Len(b) /\ rest' = SubSeq(b, (k + 1) + 1, Len(b)) /\ b' = b
    BY <2>1, <2>2, <2>3, WordsToCome
  <2> QED BY <2>1, <2>2, <2>4 DEF NmeaInv
<1>4. ASSUME NEW c \in Noise[proto], MakeUp(c)
      PROVE  NmeaInv'
  <2>1. /\ proto = "Nmea" /\ rest' = rest /\ frame' = frame /\ ~whole' /\ before' = before
        /\ parser' = NmeaFeed(parser, c)
    BY <1>4 DEF MakeUp, Fault, Feed
  <2>2. NmeaKept(parser) /\ GpsRecord(parser.gps) /\ GpsRecord(before)
    BY <1>0, <2>1
  <2>3. GpsRecord(parser'.gps)
    BY <2>1, <2>2, WordKeepsRecord
  <2>4. PICK k \in 0 .. Len(b) : rest = SubSeq(b, k + 1, Len(b))
    BY <2>1 DEF NmeaInv
  <2> QED BY <2>1, <2>2, <2>3, <2>4 DEF NmeaInv
<1>5. ASSUME UNCHANGED lineVars
      PROVE  NmeaInv'
  BY <1>5 DEF lineVars, NmeaInv
<1> QED BY <1>1, <1>2, <1>3, <1>4, <1>5 DEF LineNext

(* parser.rs:159-297 of NMEA: whatever was on the line before, a sentence  *)
(* that arrives whole behind a newline gives exactly the position it says, *)
(* and none when it reports no fix, for all sentences and noise, every     *)
(* size of the buffers and any number of faults, as long as the receiver   *)
(* leaves no field empty that would move others to the place of a position.*)
THEOREM SentencesAreReadInPlace == SentencesInPlace => (InputsSpec => []NmeaReadsInPlace)
<1> SUFFICES ASSUME SentencesInPlace PROVE InputsSpec => []NmeaReadsInPlace
  OBVIOUS
<1>1. InputsInit => NmeaInv
  BY NmeaBegins
<1>2. LineKept /\ NmeaInv /\ [InputsNext]_<<lineVars, busVars, source>> => NmeaInv'
  <2> SUFFICES ASSUME LineKept, NmeaInv, [InputsNext]_<<lineVars, busVars, source>> PROVE NmeaInv'
    OBVIOUS
  <2>1. [LineNext]_lineVars
    BY DEF InputsNext
  <2> QED BY <2>1, NmeaStepKeeps
<1>3. LineKept /\ NmeaInv => NmeaReadsInPlace
  <2> SUFFICES ASSUME LineKept, NmeaInv, proto = "Nmea", ShouldBeTaken
               PROVE  SamePosition(parser.gps, NmeaMeans(before, frame))
    BY DEF NmeaReadsInPlace, SamePosition
  <2> DEFINE b == NmeaWords(frame)
  <2>1. ReadInPlace(frame)
    BY DEF LineKept, SentencesInPlace
  <2>2. PICK k \in 0 .. Len(b) :
          rest = SubSeq(b, k + 1, Len(b)) /\ NmeaAt(parser, frame, k, before)
    BY DEF NmeaInv, ShouldBeTaken
  <2>3. rest = <<>> => k = Len(b)
    BY <2>1, <2>2, WordsToCome
  <2> QED BY <2>2, <2>3 DEF NmeaAt, ShouldBeTaken
<1> QED BY <1>1, <1>2, <1>3, AlwaysLineKept, PTL DEF InputsSpec
=============================================================================
