--------------------------- MODULE MavlinkProofs ---------------------------
(***************************************************************************)
(* The MAVLink framing, byte by byte: what one byte makes of the parser    *)
(* (the Step lemmas), where in a frame it is (BytesRead), and that a frame *)
(* which is followed from its first byte on is taken as it was meant       *)
(* (Followed).  The inputs and the telemetry over USB rest on it.  Last,   *)
(* where the parts of a text put together are found (FlattenStepwise),     *)
(* which the inputs and the radios share.                                  *)
(***************************************************************************)
EXTENDS MavlinkFraming, Lemmas, SequenceTheorems

Results == {"Incomplete", "Ok", "BadCrc"}

(* A function on the first numbers is a sequence.                          *)
LEMMA FunctionIsSeq ==
  ASSUME NEW S, NEW n \in Nat, NEW f \in [1 .. n -> S]
  PROVE  f \in Seq(S) /\ Len(f) = n
<1>1. f \in Seq(S)
  BY SeqDef
<1>2. DOMAIN f = 1 .. Len(f) /\ Len(f) \in Nat /\ DOMAIN f = 1 .. n
  BY <1>1, LenProperties
<1> QED BY <1>1, <1>2

(* Two sequences one after the other, each at its places.                  *)
LEMMA JoinedAt ==
  ASSUME NEW S, NEW s \in Seq(S), NEW t \in Seq(S)
  PROVE  /\ Len(s) \in Nat /\ Len(t) \in Nat
         /\ s \o t \in Seq(S) /\ Len(s \o t) = Len(s) + Len(t)
         /\ \A i \in 1 .. Len(s) : (s \o t)[i] = s[i]
         /\ \A i \in 1 .. Len(t) : (s \o t)[Len(s) + i] = t[i]
<1> DEFINE u == s \o t
           a == Len(s)
           b == Len(t)
<1>1. a \in Nat /\ b \in Nat
  BY LenProperties
<1>2. /\ u \in Seq(S) /\ Len(u) = a + b
      /\ \A i \in 1 .. a + b : u[i] = IF i <= a THEN s[i] ELSE t[i - a]
  BY ConcatProperties
<1> HIDE DEF u, a, b
<1>3. \A i \in 1 .. a : u[i] = s[i]
  BY <1>1, <1>2
<1>4. ASSUME NEW i \in 1 .. b PROVE u[a + i] = t[i]
  <2>1. a + i \in 1 .. a + b /\ ~(a + i <= a) /\ (a + i) - a = i
    BY <1>1
  <2> QED BY <1>2, <2>1
<1> QED BY <1>1, <1>2, <1>3, <1>4 DEF u, a, b

(* A part of a sequence, place by place.                                   *)
LEMMA PartAt ==
  ASSUME NEW S, NEW s \in Seq(S), NEW a \in Nat, NEW n \in Nat, a + n <= Len(s)
  PROVE  /\ SubSeq(s, a + 1, a + n) \in Seq(S) /\ Len(SubSeq(s, a + 1, a + n)) = n
         /\ \A i \in 1 .. n : SubSeq(s, a + 1, a + n)[i] = s[a + i]
<1> DEFINE t == SubSeq(s, a + 1, a + n)
<1>1. Len(s) \in Nat
  BY LenProperties
<1>2. \A i \in a + 1 .. a + n : s[i] \in S
  BY <1>1, ElementOfSeq
<1>3. a + 1 \in Int /\ a + n \in Int
  OBVIOUS
<1>4. /\ t \in Seq(S) /\ Len(t) = IF a + 1 <= a + n THEN (a + n) - (a + 1) + 1 ELSE 0
      /\ \A i \in 1 .. (a + n) - (a + 1) + 1 : t[i] = s[(a + 1) + i - 1]
  BY <1>2, <1>3, SubSeqProperties
<1> HIDE DEF t
<1>5. Len(t) = n
  BY <1>4
<1>6. ASSUME NEW i \in 1 .. n PROVE t[i] = s[a + i]
  <2>1. i \in 1 .. (a + n) - (a + 1) + 1 /\ (a + 1) + i - 1 = a + i
    OBVIOUS
  <2> QED BY <1>4, <2>1
<1> QED BY <1>4, <1>5, <1>6 DEF t

-----------------------------------------------------------------------------
(* The frames.  A frame begins with a start byte, goes on with a header    *)
(* and the payload, and ends with two checks and, perhaps, a signature.    *)
Value == 0 .. MaxPayload

HeadLen(m) == IF m.v1 THEN 5 ELSE 9

HeadOf(m) ==
  IF m.v1 THEN <<Len(m.payload), m.seq, 1, 1, m.msgid>>
  ELSE <<Len(m.payload), IF m.signed THEN SignedFlag ELSE 0, 0, m.seq, 1, 1, m.msgid, 0, 0>>

BodyOf(m) == HeadOf(m) \o m.payload

SumOf(m) == Append(BodyOf(m), m.msgid)

SealLen(m) == IF m.signed THEN SignatureLen ELSE 0

(* The lengths of the parts of a frame.                                    *)
LEMMA FrameParts ==
  ASSUME NEW m \in MavlinkFrame
  PROVE  /\ m.v1 \in BOOLEAN /\ m.signed \in BOOLEAN /\ ~(m.v1 /\ m.signed)
         /\ m.msgid \in Value /\ m.seq \in Value /\ m.payload \in Seq(Value)
         /\ Len(m.payload) \in Value
         /\ \A i \in 1 .. Len(m.payload) : m.payload[i] \in Value
         /\ m.check[1] \in Value /\ m.check[2] \in Value
         /\ m.msgid \in DOMAIN MaxLen => Len(m.payload) <= MaxLen[m.msgid]
         /\ HeadLen(m) \in {5, 9} /\ SealLen(m) \in Nat
<1>1. /\ m.v1 \in BOOLEAN /\ m.signed \in BOOLEAN /\ ~(m.v1 /\ m.signed)
      /\ m.msgid \in Value /\ m.seq \in Value /\ m.payload \in Seq(Value)
      /\ m.check \in [1 .. 2 -> Value]
      /\ Len(m.payload) <= MaxPayload
      /\ m.msgid \in DOMAIN MaxLen => Len(m.payload) <= MaxLen[m.msgid]
  BY DEF MavlinkFrame, Value
<1>2. Len(m.payload) \in Nat /\ \A i \in 1 .. Len(m.payload) : m.payload[i] \in Value
  BY <1>1, LenProperties, ElementOfSeq
<1>3. Len(m.payload) \in Value
  BY <1>1, <1>2, MavlinkAssumption DEF Value
<1>4. HeadLen(m) \in {5, 9} /\ SealLen(m) \in Nat
  BY MavlinkAssumption DEF HeadLen, SealLen
<1> QED BY <1>1, <1>2, <1>3, <1>4

(* The header, byte by byte.                                               *)
LEMMA HeadShape ==
  ASSUME NEW m \in MavlinkFrame
  PROVE  /\ HeadOf(m) \in Seq(Value) /\ Len(HeadOf(m)) = HeadLen(m)
         /\ HeadOf(m)[1] = Len(m.payload)
         /\ m.v1 => HeadOf(m)[5] = m.msgid
         /\ ~m.v1 => /\ HeadOf(m)[2] = IF m.signed THEN SignedFlag ELSE 0
                     /\ HeadOf(m)[7] = m.msgid /\ HeadOf(m)[8] = 0 /\ HeadOf(m)[9] = 0
<1>1. m.v1 \in BOOLEAN /\ m.msgid \in Value /\ m.seq \in Value /\ Len(m.payload) \in Value
  BY FrameParts
<1>2. 0 \in Value /\ 1 \in Value /\ SignedFlag \in Value
  BY MavlinkAssumption DEF Value
<1> DEFINE n == Len(m.payload)
           flag == IF m.signed THEN SignedFlag ELSE 0
<1>3. n \in Value /\ flag \in Value
  BY <1>1, <1>2
<1> HIDE DEF n, flag
<1>4. CASE m.v1
  <2>1. HeadOf(m) = <<n, m.seq, 1, 1, m.msgid>> /\ HeadLen(m) = 5
    BY <1>4 DEF HeadOf, HeadLen, n
  <2>2. <<n, m.seq, 1, 1, m.msgid>> \in Seq(Value) /\ Len(<<n, m.seq, 1, 1, m.msgid>>) = 5
        /\ <<n, m.seq, 1, 1, m.msgid>>[1] = n /\ <<n, m.seq, 1, 1, m.msgid>>[5] = m.msgid
    BY <1>1, <1>2, <1>3
  <2> QED BY <1>4, <2>1, <2>2 DEF n
<1>5. CASE ~m.v1
  <2> DEFINE h == <<n, flag, 0, m.seq, 1, 1, m.msgid, 0, 0>>
  <2>1. HeadOf(m) = h /\ HeadLen(m) = 9
    BY <1>5 DEF HeadOf, HeadLen, n, flag
  <2>2. h \in Seq(Value) /\ Len(h) = 9 /\ h[1] = n /\ h[2] = flag /\ h[7] = m.msgid
        /\ h[8] = 0 /\ h[9] = 0
    BY <1>1, <1>2, <1>3
  <2> HIDE DEF h
  <2> QED BY <1>5, <2>1, <2>2 DEF n, flag
<1> QED BY <1>1, <1>4, <1>5

(* Two sequences of values, one behind the other.                          *)
LEMMA JoinedValues ==
  ASSUME NEW s \in Seq(Value), NEW t \in Seq(Value)
  PROVE  /\ s \o t \in Seq(Value) /\ Len(s \o t) = Len(s) + Len(t)
         /\ \A i \in 1 .. Len(s) : (s \o t)[i] = s[i]
         /\ \A i \in 1 .. Len(t) : (s \o t)[Len(s) + i] = t[i]
BY JoinedAt

(* The header and the payload.                                             *)
LEMMA BodyShape ==
  ASSUME NEW m \in MavlinkFrame
  PROVE  LET y == BodyOf(m)
             n == Len(m.payload)
             h == HeadLen(m)
         IN  /\ y \in Seq(Value) /\ Len(y) = h + n
             /\ y[1] = n
             /\ m.v1 => y[5] = m.msgid
             /\ ~m.v1 => /\ y[2] = IF m.signed THEN SignedFlag ELSE 0
                         /\ y[7] = m.msgid /\ y[8] = 0 /\ y[9] = 0
             /\ \A i \in 1 .. n : y[h + i] = m.payload[i]
<1> DEFINE y == BodyOf(m)
           n == Len(m.payload)
           h == HeadLen(m)
           d == HeadOf(m)
<1>1. /\ d \in Seq(Value) /\ Len(d) = h /\ d[1] = n
      /\ m.v1 => d[5] = m.msgid
      /\ ~m.v1 => /\ d[2] = IF m.signed THEN SignedFlag ELSE 0
                  /\ d[7] = m.msgid /\ d[8] = 0 /\ d[9] = 0
  BY HeadShape
<1>2. m.payload \in Seq(Value) /\ h = IF m.v1 THEN 5 ELSE 9
  BY FrameParts DEF HeadLen
<1> HIDE DEF d, h
<1>3. /\ d \o m.payload \in Seq(Value) /\ Len(d \o m.payload) = Len(d) + Len(m.payload)
      /\ \A i \in 1 .. Len(d) : (d \o m.payload)[i] = d[i]
      /\ \A i \in 1 .. Len(m.payload) : (d \o m.payload)[Len(d) + i] = m.payload[i]
  BY <1>1, <1>2, JoinedValues
<1>4. y = d \o m.payload
  BY DEF BodyOf, d
<1> HIDE DEF y, n
<1>5. /\ y \in Seq(Value) /\ Len(y) = h + n
      /\ \A i \in 1 .. h : y[i] = d[i]
      /\ \A i \in 1 .. n : y[h + i] = m.payload[i]
  BY <1>1, <1>3, <1>4 DEF n
<1>6. y[1] = n /\ (m.v1 => y[5] = m.msgid)
  <2>1. 1 \in 1 .. h /\ (m.v1 => 5 \in 1 .. h)
    BY <1>2
  <2> QED BY <1>1, <1>5, <2>1
<1>7. ~m.v1 => /\ y[2] = IF m.signed THEN SignedFlag ELSE 0
               /\ y[7] = m.msgid /\ y[8] = 0 /\ y[9] = 0
  <2>1. ~m.v1 => 2 \in 1 .. h /\ 7 \in 1 .. h /\ 8 \in 1 .. h /\ 9 \in 1 .. h
    BY <1>2
  <2> QED BY <1>1, <1>5, <2>1
<1> QED BY <1>5, <1>6, <1>7 DEF y, n, h

(* The same of bytes as the line has them.                                 *)
LEMMA JoinedWords ==
  ASSUME NEW s \in Seq(MavlinkByte), NEW t \in Seq(MavlinkByte)
  PROVE  /\ s \o t \in Seq(MavlinkByte) /\ Len(s \o t) = Len(s) + Len(t)
         /\ \A i \in 1 .. Len(s) : (s \o t)[i] = s[i]
         /\ \A i \in 1 .. Len(t) : (s \o t)[Len(s) + i] = t[i]
BY JoinedAt

(* Values become bytes of the line, one by one.                            *)
LEMMA PlainValues ==
  ASSUME NEW vs \in Seq(Value)
  PROVE  /\ Plains(vs) \in Seq(MavlinkByte) /\ Len(Plains(vs)) = Len(vs)
         /\ \A i \in 1 .. Len(vs) : Plains(vs)[i] = Plain(vs[i])
<1>1. Len(vs) \in Nat /\ DOMAIN vs = 1 .. Len(vs) /\ \A i \in 1 .. Len(vs) : vs[i] \in Value
  BY LenProperties, ElementOfSeq
<1>2. ASSUME NEW i \in 1 .. Len(vs) PROVE Plain(vs[i]) \in MavlinkByte
  BY <1>1, MavlinkAssumption, EmptySeq DEF Plain, Byte, MavlinkByte, Value
<1>3. /\ Plains(vs) \in [1 .. Len(vs) -> MavlinkByte]
      /\ \A i \in 1 .. Len(vs) : Plains(vs)[i] = Plain(vs[i])
  BY <1>1, <1>2 DEF Plains
<1> QED BY <1>1, <1>3, FunctionIsSeq

(* The whole frame.                                                        *)
LEMMA MavlinkBytesShape ==
  ASSUME NEW m \in MavlinkFrame
  PROVE  LET b == MavlinkBytes(m)
             y == BodyOf(m)
             k == HeadLen(m) + Len(m.payload)
         IN  /\ k \in Nat /\ b \in Seq(MavlinkByte) /\ Len(b) = k + 3 + SealLen(m)
             /\ b[1].v = IF m.v1 THEN StxV1 ELSE StxV2
             /\ \A i \in 1 .. k : b[1 + i].v = y[i]
             /\ b[k + 2] = Check(m.check[1], SumOf(m), 1)
             /\ b[k + 3] = Check(m.check[2], SumOf(m), 2)
             /\ \A i \in 1 .. Len(b) : b[i].half = 2 => i = k + 3
<1> DEFINE k == HeadLen(m) + Len(m.payload)
           y == BodyOf(m)
           z == SumOf(m)
           start == <<Plain(IF m.v1 THEN StxV1 ELSE StxV2)>>
           seals == <<Check(m.check[1], z, 1), Check(m.check[2], z, 2)>>
           sign == IF m.signed THEN Plains([i \in 1 .. SignatureLen |-> 1]) ELSE <<>>
           f == start \o Plains(y)
           g == f \o seals
           b == g \o sign
<1>1. k \in Nat /\ y \in Seq(Value) /\ Len(y) = k
  <2>1. HeadLen(m) \in {5, 9} /\ Len(m.payload) \in Value
    BY FrameParts
  <2> QED BY <2>1, BodyShape DEF Value
<1>2. z \in Seq(Nat)
  <2>1. m.msgid \in Value
    BY FrameParts
  <2>2. z \in Seq(Value)
    BY <1>1, <2>1, AppendProperties DEF SumOf
  <2>3. Value \subseteq Nat
    BY MavlinkAssumption DEF Value
  <2> QED BY <2>2, <2>3, SeqMonotonic
<1> HIDE DEF y, z, k
<1>3. start \in Seq(MavlinkByte) /\ Len(start) = 1 /\ start[1].half # 2
      /\ start[1].v = IF m.v1 THEN StxV1 ELSE StxV2
  <2> DEFINE x == IF m.v1 THEN StxV1 ELSE StxV2
  <2>1. x \in Nat /\ x <= MaxPayload
    BY MavlinkAssumption
  <2> HIDE DEF x
  <2>2. Plain(x) \in MavlinkByte /\ Plain(x).v = x /\ Plain(x).half # 2
    BY <2>1, EmptySeq DEF Plain, Byte, MavlinkByte
  <2>3. start = <<Plain(x)>>
    BY DEF x
  <2> QED BY <2>2, <2>3 DEF x
<1>4. seals \in Seq(MavlinkByte) /\ Len(seals) = 2 /\ seals[1] = Check(m.check[1], z, 1)
      /\ seals[2] = Check(m.check[2], z, 2)
      /\ seals[1].half # 2
  <2>1. m.check[1] \in Value /\ m.check[2] \in Value
    BY FrameParts
  <2>2. Check(m.check[1], z, 1) \in MavlinkByte /\ Check(m.check[2], z, 2) \in MavlinkByte
    BY <1>2, <2>1, MavlinkAssumption DEF Check, Byte, MavlinkByte, Value
  <2>3. Check(m.check[1], z, 1).half # 2
    BY DEF Check
  <2> QED BY <2>2, <2>3
<1>5. sign \in Seq(MavlinkByte) /\ Len(sign) = SealLen(m)
      /\ \A i \in 1 .. Len(sign) : sign[i].half # 2
  <2>1. 1 \in Value /\ SignatureLen \in Nat
    BY MavlinkAssumption DEF Value
  <2>2. [i \in 1 .. SignatureLen |-> 1] \in [1 .. SignatureLen -> Value]
    BY <2>1
  <2>3. [i \in 1 .. SignatureLen |-> 1] \in Seq(Value)
        /\ Len([i \in 1 .. SignatureLen |-> 1]) = SignatureLen
    BY <2>1, <2>2, FunctionIsSeq
  <2> DEFINE ones == [i \in 1 .. SignatureLen |-> 1]
  <2> HIDE DEF ones
  <2>4. Plains(ones) \in Seq(MavlinkByte) /\ Len(Plains(ones)) = SignatureLen
        /\ \A i \in 1 .. Len(Plains(ones)) : Plains(ones)[i] = Plain(ones[i])
    BY <2>3, PlainValues DEF ones
  <2>5. \A i \in 1 .. Len(Plains(ones)) : Plains(ones)[i].half # 2
    BY <2>4 DEF Plain
  <2>6. sign = IF m.signed THEN Plains(ones) ELSE <<>>
    BY DEF ones
  <2> HIDE DEF sign
  <2>7. CASE m.signed
    BY <2>4, <2>5, <2>6, <2>7 DEF SealLen
  <2>8. CASE ~m.signed
    BY <2>6, <2>8, EmptySeq DEF SealLen
  <2> QED BY <2>7, <2>8
<1>6. Plains(y) \in Seq(MavlinkByte) /\ Len(Plains(y)) = k
      /\ \A i \in 1 .. k : Plains(y)[i].v = y[i] /\ Plains(y)[i].half # 2
  <2>1. /\ Plains(y) \in Seq(MavlinkByte) /\ Len(Plains(y)) = Len(y)
        /\ \A i \in 1 .. Len(y) : Plains(y)[i] = Plain(y[i])
    BY <1>1, PlainValues
  <2>2. \A i \in 1 .. k : Plain(y[i]).v = y[i] /\ Plain(y[i]).half # 2
    BY DEF Plain
  <2> QED BY <1>1, <2>1, <2>2
<1> DEFINE ps == Plains(y)
<1> HIDE DEF start, seals, sign, ps
<1>7. /\ f \in Seq(MavlinkByte) /\ Len(f) = 1 + k
      /\ f[1] = start[1] /\ \A i \in 1 .. k : f[1 + i] = ps[i]
  <2>1. ps \in Seq(MavlinkByte) /\ Len(ps) = k
    BY <1>6 DEF ps
  <2>2. /\ start \o ps \in Seq(MavlinkByte) /\ Len(start \o ps) = Len(start) + Len(ps)
        /\ \A i \in 1 .. Len(start) : (start \o ps)[i] = start[i]
        /\ \A i \in 1 .. Len(ps) : (start \o ps)[Len(start) + i] = ps[i]
    BY <1>3, <2>1, JoinedWords
  <2>3. f = start \o ps
    BY DEF ps
  <2>4. 1 \in 1 .. Len(start)
    BY <1>3
  <2> HIDE DEF f
  <2> QED BY <1>3, <2>1, <2>2, <2>3, <2>4
<1> HIDE DEF f
<1>8. /\ g \in Seq(MavlinkByte) /\ Len(g) = k + 3
      /\ \A i \in 1 .. 1 + k : g[i] = f[i]
      /\ g[k + 2] = seals[1] /\ g[k + 3] = seals[2]
  <2>1. /\ f \o seals \in Seq(MavlinkByte) /\ Len(f \o seals) = Len(f) + Len(seals)
        /\ \A i \in 1 .. Len(f) : (f \o seals)[i] = f[i]
        /\ \A i \in 1 .. Len(seals) : (f \o seals)[Len(f) + i] = seals[i]
    BY <1>4, <1>7, JoinedWords
  <2>2. 1 \in 1 .. Len(seals) /\ 2 \in 1 .. Len(seals)
        /\ Len(f) + 1 = k + 2 /\ Len(f) + 2 = k + 3 /\ Len(f) + Len(seals) = k + 3
    BY <1>1, <1>4, <1>7
  <2>3. g[Len(f) + 1] = seals[1] /\ g[Len(f) + 2] = seals[2]
    BY <2>1, <2>2
  <2> HIDE DEF g
  <2> QED BY <1>7, <2>1, <2>2, <2>3 DEF g
<1> HIDE DEF g
<1>9. /\ b \in Seq(MavlinkByte) /\ Len(b) = (k + 3) + SealLen(m)
      /\ \A i \in 1 .. k + 3 : b[i] = g[i]
      /\ \A i \in 1 .. Len(sign) : b[(k + 3) + i] = sign[i]
  <2>1. /\ g \o sign \in Seq(MavlinkByte) /\ Len(g \o sign) = Len(g) + Len(sign)
        /\ \A i \in 1 .. Len(g) : (g \o sign)[i] = g[i]
        /\ \A i \in 1 .. Len(sign) : (g \o sign)[Len(g) + i] = sign[i]
    BY <1>5, <1>8, JoinedWords
  <2> QED BY <1>5, <1>8, <2>1
<1> HIDE DEF b
<1>10. b = MavlinkBytes(m)
  BY DEF MavlinkBytes, BodyOf, HeadOf, SumOf, b, g, f, seals, sign, start, y, z
<1>11. b[1].v = IF m.v1 THEN StxV1 ELSE StxV2
  <2>1. 1 \in 1 .. k + 3 /\ 1 \in 1 .. 1 + k
    BY <1>1
  <2> QED BY <1>3, <1>7, <1>8, <1>9, <2>1
<1>12. ASSUME NEW i \in 1 .. k PROVE b[1 + i].v = y[i]
  <2>1. 1 + i \in 1 .. k + 3 /\ 1 + i \in 1 .. 1 + k
    BY <1>1
  <2> QED BY <1>6, <1>7, <1>8, <1>9, <2>1 DEF ps
<1>13. b[k + 2] = Check(m.check[1], z, 1) /\ b[k + 3] = Check(m.check[2], z, 2)
  <2>1. k + 2 \in 1 .. k + 3 /\ k + 3 \in 1 .. k + 3
    BY <1>1
  <2> QED BY <1>4, <1>8, <1>9, <2>1
<1>14. ASSUME NEW i \in 1 .. Len(b), b[i].half = 2 PROVE i = k + 3
  <2>1. SealLen(m) \in Nat /\ Len(sign) = SealLen(m) /\ Len(b) = k + 3 + SealLen(m)
    BY <1>1, <1>5, <1>9, FrameParts
  <2>2. i # 1
    <3>1. 1 \in 1 .. k + 3 /\ 1 \in 1 .. 1 + k
      BY <1>1
    <3> QED BY <1>3, <1>7, <1>8, <1>9, <1>14, <3>1
  <2>3. ASSUME i \in 2 .. k + 1 PROVE FALSE
    <3>1. i - 1 \in 1 .. k /\ 1 + (i - 1) = i /\ i \in 1 .. k + 3 /\ i \in 1 .. 1 + k
      BY <1>1, <2>3
    <3>2. b[i] = ps[i - 1]
      BY <1>7, <1>8, <1>9, <3>1
    <3> QED BY <1>6, <1>14, <3>1, <3>2 DEF ps
  <2>4. i # k + 2
    <3>1. k + 2 \in 1 .. k + 3
      BY <1>1
    <3> QED BY <1>4, <1>8, <1>9, <1>14, <3>1
  <2>5. ASSUME i > k + 3 PROVE FALSE
    <3>1. i - (k + 3) \in 1 .. Len(sign) /\ (k + 3) + (i - (k + 3)) = i
      BY <1>1, <2>1, <2>5
    <3> QED BY <1>5, <1>9, <1>14, <3>1
  <2> QED BY <1>1, <2>1, <2>2, <2>3, <2>4, <2>5
<1> QED BY <1>1, <1>9, <1>10, <1>11, <1>12, <1>13, <1>14 DEF k, y, z

-----------------------------------------------------------------------------
(* The parser.  Its parts, whatever it took last.                          *)
HeaderStates ==
  {"GotLength", "GotIncompatFlags", "GotCompatFlags", "GotSeq", "GotSysid", "GotCompid",
   "GotMsgid1", "GotMsgid2"}

MavStates ==
  HeaderStates \cup
  {"Idle", "GotStx", "GotMsgid3", "GotPayload", "GotCrc1", "GotBadCrc1", "SignatureWait",
   "SignatureWaitBadCrc"}

MavRecord(T) ==
  [state : MavStates, v1 : BOOLEAN, len : Value, idx : Value, signed : BOOLEAN,
   msgid : [1 .. 3 -> Value], sum : Seq(Nat), payload : [1 .. MaxPayload -> Value],
   wait : 0 .. SignatureLen, result : Results, taken : T]

MavKept(p) ==
  /\ p \in MavRecord({p.taken})
  /\ p.state = "GotMsgid3" => p.idx < p.len
  /\ p.state \in HeaderStates => p.idx = 0
  /\ p.state = "GotPayload" => p.idx = p.len
  /\ p.state \in {"GotLength", "GotIncompatFlags", "GotMsgid1", "GotMsgid2"} => ~p.v1
  /\ (p.v1 /\ p.state \notin {"Idle", "GotStx"}) => ~p.signed
  /\ p.state \in {"SignatureWait", "SignatureWaitBadCrc"} => p.signed /\ p.wait # 0

(* Of a step: nothing is completed, and what the frame is said to be, its  *)
(* data and its checksum are as they were.                                 *)
GoesOn(q, r)     == r \in MavRecord({q.taken}) /\ r.result = "Incomplete" /\ r.taken = q.taken
SameFrame(q, r)  == r.v1 = q.v1 /\ r.len = q.len /\ r.signed = q.signed
SameData(q, r)   == r.idx = q.idx /\ r.payload = q.payload /\ r.wait = q.wait
SameNumber(q, r) == r.msgid = q.msgid
Summed(q, r, c)  == r.sum = Append(q.sum, c.v)

Cleared(q) == [q EXCEPT !.result = "Incomplete"]

(* A parser whose result is taken back.                                    *)
LEMMA ClearedFields ==
  ASSUME NEW q, MavKept(q)
  PROVE  /\ GoesOn(q, Cleared(q)) /\ SameFrame(q, Cleared(q)) /\ SameData(q, Cleared(q))
         /\ SameNumber(q, Cleared(q)) /\ Cleared(q).state = q.state /\ Cleared(q).sum = q.sum
<1>1. q \in MavRecord({q.taken})
  BY DEF MavKept
<1> QED BY <1>1 DEF Cleared, MavRecord, Results, GoesOn, SameFrame, SameData, SameNumber

(* A byte of the line has a value, and is not both start bytes.            *)
LEMMA ByteValue ==
  ASSUME NEW c \in MavlinkByte
  PROVE  c.v \in Value /\ c.v \in Nat /\ 0 \in Value /\ 0 \in Nat
BY MavlinkAssumption DEF MavlinkByte, Byte, Value

(* A byte that completes nothing leaves the parser where the frame has it. *)
LEMMA ParsesOn ==
  ASSUME NEW q, NEW c, FrameChar(q, c).result = "Incomplete"
  PROVE  ParseChar(q, c) = FrameChar(q, c)
BY DEF ParseChar

(* A start byte begins a frame.                                            *)
LEMMA StepStarts ==
  ASSUME NEW q, MavKept(q), NEW c \in MavlinkByte, q.state = "Idle", c.v \in {StxV1, StxV2}
  PROVE  LET r == ParseChar(q, c)
         IN  /\ GoesOn(q, r) /\ SameData(q, r) /\ SameNumber(q, r)
             /\ r.state = "GotStx" /\ r.v1 = (c.v = StxV1) /\ r.sum = <<>>
<1> DEFINE p == Cleared(q)
           v == (c.v = StxV1)
           f == Started(p, v)
<1>1. FrameChar(q, c) = f
  BY ClearedFields DEF FrameChar, Cleared, Started
<1>2. /\ GoesOn(q, p) /\ SameFrame(q, p) /\ SameData(q, p) /\ SameNumber(q, p)
      /\ p.state = q.state /\ p.sum = q.sum
  BY ClearedFields
<1> HIDE DEF p
<1>3a. v \in BOOLEAN /\ v = (c.v = StxV1)
  BY <1>2, ByteValue
<1> HIDE DEF v
<1>5. /\ GoesOn(q, f) /\ SameData(q, f) /\ SameNumber(q, f)
      /\ f.state = "GotStx" /\ f.v1 = v /\ f.sum = <<>>
  BY <1>2, <1>3a, ByteValue, AppendProperties, EmptySeq DEF MavRecord, MavStates, HeaderStates,
      Moved,
     Started, GoesOn, SameFrame, SameData, SameNumber, Summed
<1> HIDE DEF f
<1> QED BY <1>1, <1>3a, <1>5, ParsesOn DEF GoesOn

(* Any other byte between two frames is passed over.                       *)
LEMMA StepSilent ==
  ASSUME NEW q, MavKept(q), NEW c \in MavlinkByte, q.state = "Idle", c.v \notin {StxV1, StxV2}
  PROVE  LET r == ParseChar(q, c)
         IN  /\ GoesOn(q, r) /\ SameFrame(q, r) /\ SameData(q, r) /\ SameNumber(q, r)
             /\ r.state = "Idle"
<1> DEFINE p == Cleared(q)
           f == p
<1>1. FrameChar(q, c) = f
  BY ClearedFields DEF FrameChar, Cleared, Started
<1>2. /\ GoesOn(q, p) /\ SameFrame(q, p) /\ SameData(q, p) /\ SameNumber(q, p)
      /\ p.state = q.state /\ p.sum = q.sum
  BY ClearedFields
<1> HIDE DEF p
<1>5. /\ GoesOn(q, f) /\ SameFrame(q, f) /\ SameData(q, f) /\ SameNumber(q, f)
      /\ f.state = "Idle"
  BY <1>2, ByteValue, AppendProperties DEF MavRecord, MavStates, HeaderStates, Moved,
     Started, GoesOn, SameFrame, SameData, SameNumber, Summed
<1> HIDE DEF f
<1> QED BY <1>1, <1>5, ParsesOn DEF GoesOn

(* The length of the payload.                                              *)
LEMMA StepGotStx ==
  ASSUME NEW q, MavKept(q), NEW c \in MavlinkByte, q.state = "GotStx"
  PROVE  LET r == ParseChar(q, c)
         IN  /\ GoesOn(q, r) /\ SameNumber(q, r) /\ Summed(q, r, c)
             /\ r.state = IF q.v1 THEN "GotCompatFlags" ELSE "GotLength"
             /\ r.v1 = q.v1 /\ r.len = c.v /\ r.idx = 0 /\ (q.v1 => ~r.signed)
             /\ r.payload = q.payload
<1> DEFINE p == Cleared(q)
           f == [Moved(p, c, IF p.v1 THEN "GotCompatFlags" ELSE "GotLength")
                  EXCEPT !.len = c.v, !.idx = 0, !.signed = @ /\ ~p.v1]
<1>1. FrameChar(q, c) = f
  BY ClearedFields DEF FrameChar, Cleared, Header, Follows
<1>2. /\ GoesOn(q, p) /\ SameFrame(q, p) /\ SameData(q, p) /\ SameNumber(q, p)
      /\ p.state = q.state /\ p.sum = q.sum
  BY ClearedFields
<1> HIDE DEF p
<1>5. /\ GoesOn(q, f) /\ SameNumber(q, f) /\ Summed(q, f, c)
      /\ f.state = IF q.v1 THEN "GotCompatFlags" ELSE "GotLength"
      /\ f.v1 = q.v1 /\ f.len = c.v /\ f.idx = 0 /\ (q.v1 => ~f.signed)
      /\ f.payload = q.payload
  BY <1>2, ByteValue, AppendProperties DEF MavRecord, MavStates, HeaderStates, Moved,
     Started, GoesOn, SameFrame, SameData, SameNumber, Summed
<1> HIDE DEF f
<1> QED BY <1>1, <1>5, ParsesOn DEF GoesOn

(* Flags that are understood.                                              *)
LEMMA StepFlags ==
  ASSUME NEW q, MavKept(q), NEW c \in MavlinkByte, q.state = "GotLength", c.v \in {0, SignedFlag}
  PROVE  LET r == ParseChar(q, c)
         IN  /\ GoesOn(q, r) /\ SameData(q, r) /\ SameNumber(q, r) /\ Summed(q, r, c)
             /\ r.state = "GotIncompatFlags"
             /\ r.v1 = q.v1 /\ r.len = q.len /\ r.signed = (c.v = SignedFlag)
<1> DEFINE p == Cleared(q)
           f == [Moved(p, c, "GotIncompatFlags") EXCEPT !.signed = (c.v = SignedFlag)]
<1>1. FrameChar(q, c) = f
  BY ClearedFields DEF FrameChar, Cleared, Header, Follows
<1>2. /\ GoesOn(q, p) /\ SameFrame(q, p) /\ SameData(q, p) /\ SameNumber(q, p)
      /\ p.state = q.state /\ p.sum = q.sum
  BY ClearedFields
<1> HIDE DEF p
<1>5. /\ GoesOn(q, f) /\ SameData(q, f) /\ SameNumber(q, f) /\ Summed(q, f, c)
      /\ f.state = "GotIncompatFlags"
      /\ f.v1 = q.v1 /\ f.len = q.len /\ f.signed = (c.v = SignedFlag)
  BY <1>2, ByteValue, AppendProperties DEF MavRecord, MavStates, HeaderStates, Moved,
     Started, GoesOn, SameFrame, SameData, SameNumber, Summed
<1> HIDE DEF f
<1> QED BY <1>1, <1>5, ParsesOn DEF GoesOn

(* Flags that are not: the frame is dropped.                               *)
LEMMA StepRefused ==
  ASSUME NEW q, MavKept(q), NEW c \in MavlinkByte, q.state = "GotLength", c.v \notin {0, SignedFlag}
  PROVE  LET r == ParseChar(q, c)
         IN  /\ GoesOn(q, r) /\ SameFrame(q, r) /\ SameData(q, r) /\ SameNumber(q, r)
             /\ r.state = "Idle"
<1> DEFINE p == Cleared(q)
           f == [p EXCEPT !.state = "Idle"]
<1>1. FrameChar(q, c) = f
  BY ClearedFields DEF FrameChar, Cleared, Header, Follows
<1>2. /\ GoesOn(q, p) /\ SameFrame(q, p) /\ SameData(q, p) /\ SameNumber(q, p)
      /\ p.state = q.state /\ p.sum = q.sum
  BY ClearedFields
<1> HIDE DEF p
<1>5. /\ GoesOn(q, f) /\ SameFrame(q, f) /\ SameData(q, f) /\ SameNumber(q, f)
      /\ f.state = "Idle"
  BY <1>2, ByteValue, AppendProperties DEF MavRecord, MavStates, HeaderStates, Moved,
     Started, GoesOn, SameFrame, SameData, SameNumber, Summed
<1> HIDE DEF f
<1> QED BY <1>1, <1>5, ParsesOn DEF GoesOn

(* A byte of the header that is only summed up.                            *)
LEMMA StepFollows ==
  ASSUME NEW q, MavKept(q), NEW c \in MavlinkByte, q.state \in DOMAIN Follows
  PROVE  LET r == ParseChar(q, c)
         IN  /\ GoesOn(q, r) /\ SameFrame(q, r) /\ SameData(q, r) /\ SameNumber(q, r)
             /\ Summed(q, r, c) /\ r.state = Follows[q.state]
<1> DEFINE p == Cleared(q)
           s == Follows[p.state]
           f == Moved(p, c, s)
<1>1. FrameChar(q, c) = f
  BY ClearedFields DEF FrameChar, Cleared, Header, Follows
<1>2. /\ GoesOn(q, p) /\ SameFrame(q, p) /\ SameData(q, p) /\ SameNumber(q, p)
      /\ p.state = q.state /\ p.sum = q.sum
  BY ClearedFields
<1> HIDE DEF p
<1>3a. s \in MavStates /\ s = Follows[q.state]
  BY <1>2, ByteValue DEF MavRecord, MavStates, HeaderStates, GoesOn, SameFrame, SameData,
      SameNumber, Summed, Follows
<1> HIDE DEF s
<1>5. /\ GoesOn(q, f) /\ SameFrame(q, f) /\ SameData(q, f) /\ SameNumber(q, f) /\ Summed(q, f, c)
      /\ f.state = s
  BY <1>2, <1>3a, ByteValue, AppendProperties DEF MavRecord, MavStates, HeaderStates, Moved,
     Started, GoesOn, SameFrame, SameData, SameNumber, Summed
<1> HIDE DEF f
<1> QED BY <1>1, <1>3a, <1>5, ParsesOn DEF GoesOn

(* The number of the message.                                              *)
LEMMA StepGotCompid ==
  ASSUME NEW q, MavKept(q), NEW c \in MavlinkByte, q.state = "GotCompid"
  PROVE  LET r == ParseChar(q, c)
         IN  /\ GoesOn(q, r) /\ SameFrame(q, r) /\ SameData(q, r) /\ Summed(q, r, c)
             /\ r.state = (IF q.v1 THEN AfterHeader(q) ELSE "GotMsgid1")
             /\ r.msgid = <<c.v, 0, 0>>
<1> DEFINE p == Cleared(q)
           s == IF p.v1 THEN AfterHeader(p) ELSE "GotMsgid1"
           id == <<c.v, 0, 0>>
           f == [Moved(p, c, s) EXCEPT !.msgid = id]
<1>1. FrameChar(q, c) = f
  BY ClearedFields DEF FrameChar, Cleared, Header, Follows
<1>2. /\ GoesOn(q, p) /\ SameFrame(q, p) /\ SameData(q, p) /\ SameNumber(q, p)
      /\ p.state = q.state /\ p.sum = q.sum
  BY ClearedFields
<1> HIDE DEF p
<1>3a. s \in MavStates /\ s = (IF q.v1 THEN AfterHeader(q) ELSE "GotMsgid1")
  BY <1>2, ByteValue DEF MavRecord, MavStates, HeaderStates, GoesOn, SameFrame, SameData,
      SameNumber, Summed, AfterHeader
<1>3b. id \in [1 .. 3 -> Value] /\ id = <<c.v, 0, 0>>
  BY <1>2, ByteValue
<1> HIDE DEF s, id
<1>5. /\ GoesOn(q, f) /\ SameFrame(q, f) /\ SameData(q, f) /\ Summed(q, f, c)
      /\ f.state = s
      /\ f.msgid = id
  BY <1>2, <1>3a, <1>3b, ByteValue, AppendProperties DEF MavRecord, MavStates, HeaderStates, Moved,
     Started, GoesOn, SameFrame, SameData, SameNumber, Summed
<1> HIDE DEF f
<1> QED BY <1>1, <1>3a, <1>3b, <1>5, ParsesOn DEF GoesOn

(* The number of the message, its second byte.                             *)
LEMMA StepGotMsgid1 ==
  ASSUME NEW q, MavKept(q), NEW c \in MavlinkByte, q.state = "GotMsgid1"
  PROVE  LET r == ParseChar(q, c)
         IN  /\ GoesOn(q, r) /\ SameFrame(q, r) /\ SameData(q, r) /\ Summed(q, r, c)
             /\ r.state = "GotMsgid2"
             /\ r.msgid = [q.msgid EXCEPT ![2] = c.v]
<1> DEFINE p == Cleared(q)
           f == [Moved(p, c, "GotMsgid2") EXCEPT !.msgid[2] = c.v]
<1>1. FrameChar(q, c) = f
  BY ClearedFields DEF FrameChar, Cleared, Header, Follows
<1>2. /\ GoesOn(q, p) /\ SameFrame(q, p) /\ SameData(q, p) /\ SameNumber(q, p)
      /\ p.state = q.state /\ p.sum = q.sum
  BY ClearedFields
<1> HIDE DEF p
<1>5. /\ GoesOn(q, f) /\ SameFrame(q, f) /\ SameData(q, f) /\ Summed(q, f, c)
      /\ f.state = "GotMsgid2"
      /\ f.msgid = [q.msgid EXCEPT ![2] = c.v]
  BY <1>2, ByteValue, AppendProperties DEF MavRecord, MavStates, HeaderStates, Moved,
     Started, GoesOn, SameFrame, SameData, SameNumber, Summed
<1> HIDE DEF f
<1> QED BY <1>1, <1>5, ParsesOn DEF GoesOn

(* The number of the message, its last byte.                               *)
LEMMA StepGotMsgid2 ==
  ASSUME NEW q, MavKept(q), NEW c \in MavlinkByte, q.state = "GotMsgid2"
  PROVE  LET r == ParseChar(q, c)
         IN  /\ GoesOn(q, r) /\ SameFrame(q, r) /\ SameData(q, r) /\ Summed(q, r, c)
             /\ r.state = AfterHeader(q)
             /\ r.msgid = [q.msgid EXCEPT ![3] = c.v]
<1> DEFINE p == Cleared(q)
           s == AfterHeader(p)
           f == [Moved(p, c, s) EXCEPT !.msgid[3] = c.v]
<1>1. FrameChar(q, c) = f
  BY ClearedFields DEF FrameChar, Cleared, Header, Follows
<1>2. /\ GoesOn(q, p) /\ SameFrame(q, p) /\ SameData(q, p) /\ SameNumber(q, p)
      /\ p.state = q.state /\ p.sum = q.sum
  BY ClearedFields
<1> HIDE DEF p
<1>3a. s \in MavStates /\ s = AfterHeader(q)
  BY <1>2, ByteValue DEF MavRecord, MavStates, HeaderStates, GoesOn, SameFrame, SameData,
      SameNumber, Summed, AfterHeader
<1> HIDE DEF s
<1>5. /\ GoesOn(q, f) /\ SameFrame(q, f) /\ SameData(q, f) /\ Summed(q, f, c)
      /\ f.state = s
      /\ f.msgid = [q.msgid EXCEPT ![3] = c.v]
  BY <1>2, <1>3a, ByteValue, AppendProperties DEF MavRecord, MavStates, HeaderStates, Moved,
     Started, GoesOn, SameFrame, SameData, SameNumber, Summed
<1> HIDE DEF f
<1> QED BY <1>1, <1>3a, <1>5, ParsesOn DEF GoesOn

(* A byte of the payload.                                                  *)
LEMMA StepGotMsgid3 ==
  ASSUME NEW q, MavKept(q), NEW c \in MavlinkByte, q.state = "GotMsgid3"
  PROVE  LET r == ParseChar(q, c)
         IN  /\ GoesOn(q, r) /\ SameFrame(q, r) /\ SameNumber(q, r) /\ Summed(q, r, c)
             /\ r.state = (IF q.idx + 1 = q.len THEN "GotPayload" ELSE "GotMsgid3")
             /\ r.payload = [q.payload EXCEPT ![q.idx + 1] = c.v] /\ r.idx = q.idx + 1
             /\ r.wait = q.wait
<1> DEFINE p == Cleared(q)
           s == IF p.idx + 1 = p.len THEN "GotPayload" ELSE "GotMsgid3"
           pa == [p.payload EXCEPT ![p.idx + 1] = c.v]
           i == p.idx + 1
           f == [Moved(p, c, s) EXCEPT !.payload = pa, !.idx = i]
<1>1. FrameChar(q, c) = f
  BY ClearedFields DEF FrameChar, Cleared, Body, Moved
<1>2. /\ GoesOn(q, p) /\ SameFrame(q, p) /\ SameData(q, p) /\ SameNumber(q, p)
      /\ p.state = q.state /\ p.sum = q.sum
  BY ClearedFields
<1> HIDE DEF p
<1>3a. s \in MavStates /\ s = (IF q.idx + 1 = q.len THEN "GotPayload" ELSE "GotMsgid3")
  BY <1>2, ByteValue DEF MavRecord, MavStates, HeaderStates, GoesOn, SameFrame, SameData,
      SameNumber, Summed
<1>3b. pa \in [1 .. MaxPayload -> Value] /\ pa = [q.payload EXCEPT ![q.idx + 1] = c.v]
  BY <1>2, ByteValue DEF MavRecord, MavStates, HeaderStates, GoesOn, SameFrame, SameData,
      SameNumber, Summed
<1>3c. i \in Value /\ i = q.idx + 1
  BY <1>2, ByteValue, MavlinkAssumption DEF MavRecord, MavStates, HeaderStates, GoesOn, SameFrame,
      SameData, SameNumber, Summed, MavKept, Value
<1> HIDE DEF s, pa, i
<1>5. /\ GoesOn(q, f) /\ SameFrame(q, f) /\ SameNumber(q, f) /\ Summed(q, f, c)
      /\ f.state = s
      /\ f.payload = pa /\ f.idx = i
      /\ f.wait = q.wait
  BY <1>2, <1>3a, <1>3b, <1>3c, ByteValue, AppendProperties DEF MavRecord, MavStates,
      HeaderStates, Moved,
     Started, GoesOn, SameFrame, SameData, SameNumber, Summed
<1> HIDE DEF f
<1> QED BY <1>1, <1>3a, <1>3b, <1>3c, <1>5, ParsesOn DEF GoesOn

(* The first check of a message that is not known.                         *)
LEMMA StepUnknown ==
  ASSUME NEW q, MavKept(q), NEW c \in MavlinkByte, q.state = "GotPayload", ~Known(q.msgid)
  PROVE  LET r == ParseChar(q, c)
         IN  /\ GoesOn(q, r) /\ SameFrame(q, r) /\ SameData(q, r) /\ SameNumber(q, r)
             /\ r.state = "GotBadCrc1"
<1> DEFINE p == Cleared(q)
           f == [p EXCEPT !.state = "GotBadCrc1"]
<1>1. FrameChar(q, c) = f
  BY ClearedFields DEF FrameChar, Cleared, FirstCheck
<1>2. /\ GoesOn(q, p) /\ SameFrame(q, p) /\ SameData(q, p) /\ SameNumber(q, p)
      /\ p.state = q.state /\ p.sum = q.sum
  BY ClearedFields
<1> HIDE DEF p
<1>5. /\ GoesOn(q, f) /\ SameFrame(q, f) /\ SameData(q, f) /\ SameNumber(q, f)
      /\ f.state = "GotBadCrc1"
  BY <1>2, ByteValue, AppendProperties DEF MavRecord, MavStates, HeaderStates, Moved,
     Started, GoesOn, SameFrame, SameData, SameNumber, Summed
<1> HIDE DEF f
<1> QED BY <1>1, <1>5, ParsesOn DEF GoesOn

(* The first check of a known message; the payload is filled up.           *)
LEMMA StepGotPayload ==
  ASSUME NEW q, MavKept(q), NEW c \in MavlinkByte, q.state = "GotPayload", Known(q.msgid)
  PROVE  LET r == ParseChar(q, c)
         IN  /\ GoesOn(q, r) /\ SameFrame(q, r) /\ SameNumber(q, r)
             /\ r.state = (IF Matches(c, Append(q.sum, q.msgid[1]), 1) THEN "GotCrc1" ELSE "GotBadCrc1")
             /\ r.sum = Append(q.sum, q.msgid[1])
             /\ r.payload = ZeroFilled(q) /\ r.idx = q.idx /\ r.wait = q.wait
<1> DEFINE p == Cleared(q)
           su == Append(p.sum, p.msgid[1])
           s == IF Matches(c, Append(p.sum, p.msgid[1]), 1) THEN "GotCrc1" ELSE "GotBadCrc1"
           pa == ZeroFilled(p)
           f == [p EXCEPT !.sum = su, !.state = s, !.payload = pa]
<1>1. FrameChar(q, c) = f
  BY ClearedFields DEF FrameChar, Cleared, FirstCheck
<1>2. /\ GoesOn(q, p) /\ SameFrame(q, p) /\ SameData(q, p) /\ SameNumber(q, p)
      /\ p.state = q.state /\ p.sum = q.sum
  BY ClearedFields
<1> HIDE DEF p
<1>3a. su \in Seq(Nat) /\ su = Append(q.sum, q.msgid[1])
  BY <1>2, ByteValue, AppendProperties DEF MavRecord, MavStates, HeaderStates, GoesOn, SameFrame,
      SameData, SameNumber, Summed, Value
<1>3b. s \in MavStates /\ s = (IF Matches(c, Append(q.sum, q.msgid[1]), 1) THEN "GotCrc1" ELSE "GotBadCrc1")
  BY <1>2, ByteValue DEF MavRecord, MavStates, HeaderStates, GoesOn, SameFrame, SameData,
      SameNumber, Summed
<1>3c. pa \in [1 .. MaxPayload -> Value] /\ pa = ZeroFilled(q)
  BY <1>2, ByteValue DEF MavRecord, MavStates, HeaderStates, GoesOn, SameFrame, SameData,
      SameNumber, Summed, ZeroFilled
<1> HIDE DEF su, s, pa
<1>5. /\ GoesOn(q, f) /\ SameFrame(q, f) /\ SameNumber(q, f)
      /\ f.state = s
      /\ f.sum = su
      /\ f.payload = pa /\ f.idx = q.idx /\ f.wait = q.wait
  BY <1>2, <1>3a, <1>3b, <1>3c, ByteValue, AppendProperties DEF MavRecord, MavStates,
      HeaderStates, Moved,
     Started, GoesOn, SameFrame, SameData, SameNumber, Summed
<1> HIDE DEF f
<1> QED BY <1>1, <1>3a, <1>3b, <1>3c, <1>5, ParsesOn DEF GoesOn

(* The second check of a signed frame.                                     *)
LEMMA StepSealed ==
  ASSUME NEW q, MavKept(q), NEW c \in MavlinkByte, q.state \in {"GotCrc1", "GotBadCrc1"}, q.signed
  PROVE  LET r == ParseChar(q, c)
         IN  /\ GoesOn(q, r) /\ SameFrame(q, r) /\ SameNumber(q, r)
             /\ r.state = (IF q.state = "GotCrc1" /\ Matches(c, q.sum, 2) THEN "SignatureWait"
                     ELSE "SignatureWaitBadCrc")
             /\ r.wait = SignatureLen /\ r.payload = q.payload /\ r.idx = q.idx
<1> DEFINE p == Cleared(q)
           s == IF p.state = "GotCrc1" /\ Matches(c, p.sum, 2) THEN "SignatureWait"
                ELSE "SignatureWaitBadCrc"
           w == SignatureLen
           f == [p EXCEPT !.state = s, !.wait = w]
<1>1. FrameChar(q, c) = f
  BY ClearedFields DEF FrameChar, Cleared, SecondCheck
<1>2. /\ GoesOn(q, p) /\ SameFrame(q, p) /\ SameData(q, p) /\ SameNumber(q, p)
      /\ p.state = q.state /\ p.sum = q.sum
  BY ClearedFields
<1> HIDE DEF p
<1>3a. s \in MavStates /\ s = (IF q.state = "GotCrc1" /\ Matches(c, q.sum, 2) THEN "SignatureWait"
                     ELSE "SignatureWaitBadCrc")
  BY <1>2, ByteValue DEF MavRecord, MavStates, HeaderStates, GoesOn, SameFrame, SameData,
      SameNumber, Summed
<1>3b. w \in 0 .. SignatureLen /\ w = SignatureLen
  BY <1>2, ByteValue, MavlinkAssumption
<1> HIDE DEF s, w
<1>5. /\ GoesOn(q, f) /\ SameFrame(q, f) /\ SameNumber(q, f)
      /\ f.state = s
      /\ f.wait = w /\ f.payload = q.payload /\ f.idx = q.idx
  BY <1>2, <1>3a, <1>3b, ByteValue, AppendProperties DEF MavRecord, MavStates, HeaderStates, Moved,
     Started, GoesOn, SameFrame, SameData, SameNumber, Summed
<1> HIDE DEF f
<1> QED BY <1>1, <1>3a, <1>3b, <1>5, ParsesOn DEF GoesOn

(* A byte of the signature that is not the last.                           *)
LEMMA StepSignature ==
  ASSUME NEW q, MavKept(q), NEW c \in MavlinkByte, q.state \in {"SignatureWait",
         "SignatureWaitBadCrc"}, q.wait # 1
  PROVE  LET r == ParseChar(q, c)
         IN  /\ GoesOn(q, r) /\ SameFrame(q, r) /\ SameNumber(q, r)
             /\ r.state = q.state /\ r.wait = q.wait - 1 /\ r.payload = q.payload
             /\ r.idx = q.idx
<1> DEFINE p == Cleared(q)
           w == p.wait - 1
           f == [p EXCEPT !.wait = w]
<1>1. FrameChar(q, c) = f
  BY ClearedFields DEF FrameChar, Cleared, Signature
<1>2. /\ GoesOn(q, p) /\ SameFrame(q, p) /\ SameData(q, p) /\ SameNumber(q, p)
      /\ p.state = q.state /\ p.sum = q.sum
  BY ClearedFields
<1> HIDE DEF p
<1>3a. w \in 0 .. SignatureLen /\ w = q.wait - 1
  BY <1>2, ByteValue, MavlinkAssumption DEF MavRecord, MavStates, HeaderStates, GoesOn, SameFrame,
      SameData, SameNumber, Summed, MavKept
<1> HIDE DEF w
<1>5. /\ GoesOn(q, f) /\ SameFrame(q, f) /\ SameNumber(q, f)
      /\ f.state = q.state /\ f.wait = w /\ f.payload = q.payload /\ f.idx = q.idx
  BY <1>2, <1>3a, ByteValue, AppendProperties DEF MavRecord, MavStates, HeaderStates, Moved,
     Started, GoesOn, SameFrame, SameData, SameNumber, Summed
<1> HIDE DEF f
<1> QED BY <1>1, <1>3a, <1>5, ParsesOn DEF GoesOn

(* The last byte of a frame.  A frame that is refused may give way to one  *)
(* that begins with its last byte.                                         *)
Sound(q, c) ==
  \/ q.state = "GotCrc1" /\ Matches(c, q.sum, 2)
  \/ q.state = "SignatureWait"

LastByte(q) ==
  \/ q.state \in {"GotCrc1", "GotBadCrc1"} /\ ~q.signed
  \/ q.state \in {"SignatureWait", "SignatureWaitBadCrc"} /\ q.wait = 1

(* parser.rs:419-424, 429-439: the frame is done with.                     *)
LEMMA StepEnds ==
  ASSUME NEW q, MavKept(q), NEW c \in MavlinkByte, LastByte(q)
  PROVE  LET r == ParseChar(q, c)
         IN  /\ MavKept(r) /\ r.state \in {"Idle", "GotStx"}
             /\ r.state = "GotStx" => c.v = StxV2 /\ r.v1 = q.v1 /\ r.sum = <<>>
             /\ Sound(q, c) => /\ r.state = "Idle" /\ r.result = "Ok"
                               /\ r.taken = <<q.msgid[1], Reading(q)>>
             /\ ~Sound(q, c) => r.taken = q.taken /\ r.result # "Ok"
<1> DEFINE p == Cleared(q)
           v == IF Sound(q, c) THEN "Ok" ELSE "BadCrc"
           w == IF q.state \in {"GotCrc1", "GotBadCrc1"} THEN q.wait ELSE 0
           f == [p EXCEPT !.state = "Idle", !.result = v, !.wait = w]
<1>1. /\ GoesOn(q, p) /\ SameFrame(q, p) /\ SameData(q, p) /\ SameNumber(q, p)
      /\ p.state = q.state /\ p.sum = q.sum
  BY ClearedFields
<1>2. FrameChar(q, c) = f
  <2> DEFINE e == [p EXCEPT !.state = "Idle", !.result = v]
  <2>1. p \in MavRecord({q.taken}) /\ p.wait = q.wait
    BY <1>1 DEF GoesOn, SameData
  <2>2. CASE q.state \in {"GotCrc1", "GotBadCrc1"} /\ ~q.signed
    <3>1. FrameChar(q, c) = SecondCheck(p, c) /\ ~p.signed
      BY <1>1, <2>2 DEF FrameChar, Cleared, SameFrame
    <3>2. SecondCheck(p, c) = Ended(p, p.state = "GotCrc1" /\ Matches(c, p.sum, 2))
      BY <3>1 DEF SecondCheck
    <3>3. (p.state = "GotCrc1" /\ Matches(c, p.sum, 2)) <=> Sound(q, c)
      BY <1>1, <2>2 DEF Sound
    <3>4. SecondCheck(p, c) = e
      BY <3>2, <3>3 DEF Ended
    <3> HIDE DEF p, v
    <3>5. e = [p EXCEPT !.state = "Idle", !.result = v, !.wait = p.wait]
      BY <2>1 DEF MavRecord
    <3> QED BY <2>1, <2>2, <3>1, <3>4, <3>5 DEF v
  <2>3. CASE q.state \in {"SignatureWait", "SignatureWaitBadCrc"} /\ q.wait = 1
    <3>1. FrameChar(q, c) = Signature(p)
      BY <1>1, <2>3 DEF FrameChar, Cleared
    <3>2. Signature(p) = [Ended(p, p.state = "SignatureWait") EXCEPT !.wait = 0]
      BY <2>1, <2>3 DEF Signature
    <3>3. (p.state = "SignatureWait") <=> Sound(q, c)
      BY <1>1, <2>3 DEF Sound
    <3>4. Signature(p) = [e EXCEPT !.wait = 0]
      BY <3>2, <3>3 DEF Ended
    <3>5. w = 0
      BY <2>3
    <3> HIDE DEF p, v, w
    <3>6. [e EXCEPT !.wait = 0] = [p EXCEPT !.state = "Idle", !.result = v, !.wait = 0]
      BY <2>1 DEF MavRecord
    <3> QED BY <3>1, <3>4, <3>5, <3>6
  <2> QED BY <2>2, <2>3 DEF LastByte
<1>3. v \in Results /\ v # "Incomplete" /\ (v = "Ok" <=> Sound(q, c))
  BY DEF Results
<1>4. w \in 0 .. SignatureLen
  BY MavlinkAssumption DEF MavKept, MavRecord
<1> HIDE DEF p, v, w
<1>5. /\ f \in MavRecord({q.taken}) /\ SameFrame(q, f) /\ SameNumber(q, f)
      /\ f.state = "Idle" /\ f.result = v /\ f.payload = q.payload
  BY <1>1, <1>3, <1>4 DEF MavRecord, MavStates, GoesOn, SameFrame, SameData, SameNumber
<1> HIDE DEF f
<1>6. Reading(f) = Reading(q)
  BY <1>5 DEF Reading, SameFrame, SameNumber
<1>7. CASE Sound(q, c)
  <2>1. ParseChar(q, c) = [f EXCEPT !.taken = <<q.msgid[1], Reading(q)>>]
    <3>1. f.result = "Ok" /\ f.msgid = q.msgid
      BY <1>3, <1>5, <1>7 DEF SameNumber
    <3> HIDE DEF Reading
    <3> QED BY <1>2, <1>6, <3>1 DEF ParseChar
  <2> DEFINE x == <<q.msgid[1], Reading(q)>>
             r == [f EXCEPT !.taken = x]
  <2> HIDE DEF x
  <2>2. r \in MavRecord({x}) /\ r.taken = x /\ r.state = "Idle" /\ r.result = "Ok"
    BY <1>3, <1>5, <1>7 DEF MavRecord
  <2>3. MavKept(r)
    BY <2>2 DEF MavKept, HeaderStates
  <2> HIDE DEF r
  <2>4. ParseChar(q, c) = r
    BY <2>1 DEF r, x
  <2> QED BY <1>7, <2>2, <2>3, <2>4 DEF x
<1>8. CASE ~Sound(q, c)
  <2>1. f.result = "BadCrc" /\ f.taken = q.taken
    BY <1>3, <1>5, <1>8 DEF Results, MavRecord
  <2>2. ParseChar(q, c) = IF c.v = StxV2 THEN Started(f, f.v1) ELSE f
    BY <1>2, <2>1 DEF ParseChar
  <2>3. MavKept(f)
    BY <1>5, <2>1 DEF MavKept, HeaderStates
  <2>4. MavKept(Started(f, f.v1)) /\ Started(f, f.v1).state = "GotStx"
        /\ Started(f, f.v1).v1 = q.v1 /\ Started(f, f.v1).taken = q.taken
        /\ Started(f, f.v1).sum = <<>> /\ Started(f, f.v1).result = "BadCrc"
    <3>1. 0 \in Value /\ <<>> \in Seq(Nat)
      BY MavlinkAssumption, EmptySeq DEF Value
    <3> DEFINE g == Started(f, f.v1)
    <3>2. g \in MavRecord({q.taken}) /\ g.state = "GotStx" /\ g.v1 = f.v1 /\ g.taken = f.taken
          /\ g.sum = <<>> /\ g.result = f.result
      BY <1>5, <3>1 DEF Started, MavRecord, MavStates
    <3> HIDE DEF g
    <3>3. g.taken = q.taken
      BY <2>1, <3>2
    <3>4. MavKept(g)
      BY <3>2, <3>3 DEF MavKept, HeaderStates
    <3> QED BY <1>5, <2>1, <3>2, <3>3, <3>4 DEF g, SameFrame
  <2> QED BY <1>5, <1>8, <2>1, <2>2, <2>3, <2>4
<1> QED BY <1>7, <1>8

(* How many bytes of a frame the parser has read.                          *)
Base(p) == IF p.v1 THEN 6 ELSE 10
Skip(p) == IF p.v1 THEN 0 ELSE 2

BytesRead(p) ==
  CASE p.state = "Idle" -> 0
    [] p.state = "GotStx" -> 1
    [] p.state = "GotLength" -> 2
    [] p.state = "GotIncompatFlags" -> 3
    [] p.state = "GotCompatFlags" -> 2 + Skip(p)
    [] p.state = "GotSeq" -> 3 + Skip(p)
    [] p.state = "GotSysid" -> 4 + Skip(p)
    [] p.state = "GotCompid" -> 5 + Skip(p)
    [] p.state = "GotMsgid1" -> 8
    [] p.state = "GotMsgid2" -> 9
    [] p.state = "GotMsgid3" -> Base(p) + p.idx
    [] p.state = "GotPayload" -> Base(p) + p.len
    [] p.state \in {"GotCrc1", "GotBadCrc1"} -> Base(p) + p.len + 1
    [] OTHER -> Base(p) + p.len + 2 + (SignatureLen - p.wait)

(* A frame begins with the byte, or the one at hand goes on.               *)
Anew(q, r, c) ==
  /\ r.state = "GotStx"
  /\ \/ q.state = "Idle" /\ c.v \in {StxV1, StxV2} /\ r.v1 = (c.v = StxV1)
     \/ q.state # "Idle" /\ c.v = StxV2 /\ r.v1 = q.v1

(* The frame at hand goes on by one byte.                                  *)
Onward(q, r, c) ==
  /\ q.state # "Idle" /\ r.state \notin {"Idle", "GotStx"}
  /\ BytesRead(q) \in Nat \ {0} /\ BytesRead(r) = BytesRead(q) + 1
  /\ r.v1 = q.v1
  /\ q.state = "GotStx" => r.len = c.v
  /\ q.state # "GotStx" => r.len = q.len
  /\ q.state = "GotLength" => r.signed = (c.v = SignedFlag)
  /\ q.state \notin {"GotStx", "GotLength"} => r.signed = q.signed

(* What a byte makes of a parser.                                          *)
Result(q, c) ==
  LET r == ParseChar(q, c)
  IN  MavKept(r) /\ (r.state = "Idle" \/ Anew(q, r, c) \/ Onward(q, r, c))

(* No frame is longer than this, its start byte and its checks included.   *)
LongestFrame == 12 + MaxPayload + SignatureLen

(* A parser inside a frame is behind its first byte.                       *)
LEMMA PositionBounds ==
  ASSUME NEW p, MavKept(p)
  PROVE  /\ BytesRead(p) \in 0 .. LongestFrame - 1
         /\ p.state # "Idle" => BytesRead(p) > 0
         /\ p.state \notin {"Idle", "GotStx"} =>
              /\ BytesRead(p) > 1
              /\ BytesRead(p) <= Base(p) + p.len + 1 + (IF p.signed THEN SignatureLen ELSE 0)
<1>1. /\ p.state \in MavStates /\ p.len \in 0 .. MaxPayload /\ p.idx \in 0 .. MaxPayload
      /\ p.wait \in 0 .. SignatureLen /\ SignatureLen \in Nat /\ MaxPayload \in Nat
      /\ LongestFrame = 12 + MaxPayload + SignatureLen
  BY MavlinkAssumption DEF MavKept, MavRecord, Value, LongestFrame
<1>2. Base(p) \in {6, 10} /\ Skip(p) \in {0, 2}
  BY DEF Base, Skip
<1>3. CASE p.state \in HeaderStates \cup {"Idle", "GotStx"}
  <2>1. BytesRead(p) \in 0 .. 9 /\ (p.state # "Idle" => BytesRead(p) > 0)
        /\ (p.state \notin {"Idle", "GotStx"} => BytesRead(p) > 1)
    BY <1>2, <1>3 DEF BytesRead, HeaderStates
  <2>2. (p.v1 /\ p.state \notin {"Idle", "GotStx"}) => BytesRead(p) <= 5
    BY <1>3 DEF BytesRead, HeaderStates, Skip, MavKept
  <2> QED BY <1>1, <1>2, <2>1, <2>2 DEF Base
<1>4. CASE p.state = "GotMsgid3"
  <2>1. BytesRead(p) = Base(p) + p.idx /\ p.idx < p.len
    BY <1>4 DEF BytesRead, MavKept
  <2> QED BY <1>1, <1>2, <1>4, <2>1
<1>5. CASE p.state = "GotPayload"
  <2>1. BytesRead(p) = Base(p) + p.len
    BY <1>5 DEF BytesRead
  <2> QED BY <1>1, <1>2, <1>5, <2>1
<1>6. CASE p.state \in {"GotCrc1", "GotBadCrc1"}
  <2>1. BytesRead(p) = Base(p) + p.len + 1
    BY <1>6 DEF BytesRead
  <2> QED BY <1>1, <1>2, <1>6, <2>1
<1>7. CASE p.state \in {"SignatureWait", "SignatureWaitBadCrc"}
  <2>1. BytesRead(p) = Base(p) + p.len + 2 + (SignatureLen - p.wait) /\ p.signed /\ p.wait # 0
    BY <1>7 DEF BytesRead, MavKept
  <2> QED BY <1>1, <1>2, <1>7, <2>1
<1> QED BY <1>1, <1>3, <1>4, <1>5, <1>6, <1>7 DEF MavStates

(* Flags that are understood.                                              *)
Takes(q, c) == q.state = "GotLength" => c.v \in {0, SignedFlag}

(* The length and the flags.                                               *)
LEMMA OnwardHeader ==
  ASSUME NEW q, MavKept(q), NEW c \in MavlinkByte, q.state \in {"GotStx", "GotLength"}, Takes(q, c)
  PROVE  LET r == ParseChar(q, c)
         IN  MavKept(r) /\ Onward(q, r, c)
<1> DEFINE r == ParseChar(q, c)
<1>1. SignedFlag # 0
  BY MavlinkAssumption
<1>2. CASE q.state = "GotStx"
  <2>1. /\ GoesOn(q, r) /\ r.state = IF q.v1 THEN "GotCompatFlags" ELSE "GotLength"
        /\ r.v1 = q.v1 /\ r.len = c.v /\ r.idx = 0 /\ (q.v1 => ~r.signed)
    BY <1>2, StepGotStx
  <2> HIDE DEF r
  <2>2. MavKept(r)
    BY <2>1 DEF MavKept, GoesOn, HeaderStates
  <2>3. BytesRead(q) = 1 /\ BytesRead(r) = 2
    BY <1>2, <2>1 DEF BytesRead, Skip
  <2> QED BY <1>2, <2>1, <2>2, <2>3 DEF Onward, r
<1>3. CASE q.state = "GotLength"
  <2>1. /\ GoesOn(q, r) /\ SameData(q, r) /\ r.state = "GotIncompatFlags"
        /\ r.v1 = q.v1 /\ r.len = q.len /\ r.signed = (c.v = SignedFlag)
    BY <1>3, StepFlags DEF Takes
  <2> HIDE DEF r
  <2>2. MavKept(r)
    BY <1>3, <2>1 DEF MavKept, GoesOn, HeaderStates, SameData
  <2>3. BytesRead(q) = 2 /\ BytesRead(r) = 3
    BY <1>3, <2>1 DEF BytesRead, Skip
  <2> QED BY <1>3, <2>1, <2>2, <2>3 DEF Onward, r
<1> QED BY <1>2, <1>3

(* What the steps of a header and a payload have in common.                *)
LEMMA OnwardKept ==
  ASSUME NEW q, NEW r, NEW c, SameFrame(q, r), r.state \notin {"Idle", "GotStx"},
         q.state \notin {"Idle", "GotStx", "GotLength"}, MavKept(q),
         BytesRead(r) = BytesRead(q) + 1
  PROVE  Onward(q, r, c)
BY PositionBounds DEF Onward, SameFrame

(* A byte of the header that is only summed up.                            *)
LEMMA OnwardFollows ==
  ASSUME NEW q, MavKept(q), NEW c \in MavlinkByte, q.state \in DOMAIN Follows
  PROVE  LET r == ParseChar(q, c)
         IN  MavKept(r) /\ Onward(q, r, c)
<1> DEFINE r == ParseChar(q, c)
<1>1. GoesOn(q, r) /\ SameFrame(q, r) /\ SameData(q, r) /\ r.state = Follows[q.state]
  BY StepFollows
<1> HIDE DEF r
<1>2. q.state \in {"GotIncompatFlags", "GotCompatFlags", "GotSeq", "GotSysid"}
  BY DEF Follows
<1>3. MavKept(r)
  BY <1>1, <1>2 DEF MavKept, GoesOn, HeaderStates, SameData, SameFrame, Follows
<1>4. BytesRead(r) = BytesRead(q) + 1
  <2>1. Skip(r) = Skip(q) /\ Skip(q) \in {0, 2}
    BY <1>1 DEF Skip, SameFrame
  <2>2. q.state = "GotIncompatFlags" => Skip(q) = 2
    BY DEF MavKept, Skip
  <2> QED BY <1>1, <1>2, <2>1, <2>2 DEF BytesRead, Follows
<1> QED BY <1>1, <1>2, <1>3, <1>4, OnwardKept DEF Follows, r

(* The three bytes of the number of the message.                           *)
LEMMA OnwardNumber ==
  ASSUME NEW q, MavKept(q), NEW c \in MavlinkByte,
         q.state \in {"GotCompid", "GotMsgid1", "GotMsgid2"}
  PROVE  LET r == ParseChar(q, c)
         IN  MavKept(r) /\ Onward(q, r, c)
<1> DEFINE r == ParseChar(q, c)
<1>1. /\ GoesOn(q, r) /\ SameFrame(q, r) /\ SameData(q, r)
      /\ q.state = "GotCompid" => r.state = IF q.v1 THEN AfterHeader(q) ELSE "GotMsgid1"
      /\ q.state = "GotMsgid1" => r.state = "GotMsgid2"
      /\ q.state = "GotMsgid2" => r.state = AfterHeader(q)
  BY StepGotCompid, StepGotMsgid1, StepGotMsgid2
<1> HIDE DEF r
<1>2. /\ q.idx = 0 /\ q.len \in Nat /\ (q.state \in {"GotMsgid1", "GotMsgid2"} => ~q.v1)
      /\ q.v1 => ~q.signed
  BY MavlinkAssumption DEF MavKept, MavRecord, HeaderStates, Value
<1>3. \/ q.state = "GotCompid" /\ ~q.v1 /\ r.state = "GotMsgid1"
      \/ q.state = "GotMsgid1" /\ ~q.v1 /\ r.state = "GotMsgid2"
      \/ /\ q.state = IF q.v1 THEN "GotCompid" ELSE "GotMsgid2"
         /\ r.state = AfterHeader(q)
  BY <1>1, <1>2
<1>4. /\ r.len = q.len /\ r.idx = 0 /\ r.v1 = q.v1 /\ r.signed = q.signed
      /\ AfterHeader(q) = IF q.len > 0 THEN "GotMsgid3" ELSE "GotPayload"
  BY <1>1, <1>2 DEF SameFrame, SameData, AfterHeader
<1>5. MavKept(r)
  BY <1>1, <1>2, <1>3, <1>4 DEF MavKept, GoesOn, HeaderStates
<1>6. BytesRead(r) = BytesRead(q) + 1
  BY <1>2, <1>3, <1>4 DEF BytesRead, Skip, Base
<1> QED BY <1>1, <1>3, <1>4, <1>5, <1>6, OnwardKept DEF r

(* A byte of the payload.                                                  *)
LEMMA OnwardData ==
  ASSUME NEW q, MavKept(q), NEW c \in MavlinkByte, q.state = "GotMsgid3"
  PROVE  LET r == ParseChar(q, c)
         IN  MavKept(r) /\ Onward(q, r, c)
<1> DEFINE r == ParseChar(q, c)
<1>1. /\ GoesOn(q, r) /\ SameFrame(q, r)
      /\ r.state = (IF q.idx + 1 = q.len THEN "GotPayload" ELSE "GotMsgid3")
      /\ r.idx = q.idx + 1
  BY StepGotMsgid3
<1> HIDE DEF r
<1>2. q.idx \in Nat /\ q.len \in Nat /\ q.idx < q.len /\ (q.v1 => ~q.signed)
  BY MavlinkAssumption DEF MavKept, MavRecord, Value
<1>3. /\ r.len = q.len /\ r.v1 = q.v1 /\ r.signed = q.signed /\ Base(r) = Base(q)
      /\ Base(q) \in {6, 10}
  BY <1>1 DEF SameFrame, Base
<1>4. MavKept(r)
  BY <1>1, <1>2, <1>3 DEF MavKept, GoesOn, HeaderStates
<1>5. BytesRead(r) = BytesRead(q) + 1
  BY <1>1, <1>2, <1>3 DEF BytesRead
<1> QED BY <1>1, <1>4, <1>5, OnwardKept DEF r

(* The first check.                                                        *)
LEMMA OnwardCheck ==
  ASSUME NEW q, MavKept(q), NEW c \in MavlinkByte, q.state = "GotPayload"
  PROVE  LET r == ParseChar(q, c)
         IN  MavKept(r) /\ Onward(q, r, c)
<1> DEFINE r == ParseChar(q, c)
<1>1. /\ GoesOn(q, r) /\ SameFrame(q, r)
      /\ r.state \in {"GotCrc1", "GotBadCrc1"}
  BY StepGotPayload, StepUnknown
<1> HIDE DEF r
<1>2. q.len \in Nat /\ (q.v1 => ~q.signed)
  BY MavlinkAssumption DEF MavKept, MavRecord, Value
<1>3. /\ r.len = q.len /\ r.v1 = q.v1 /\ r.signed = q.signed /\ Base(r) = Base(q)
      /\ Base(q) \in {6, 10}
  BY <1>1 DEF SameFrame, Base
<1>4. MavKept(r)
  BY <1>1, <1>2, <1>3 DEF MavKept, GoesOn, HeaderStates
<1>5. BytesRead(r) = BytesRead(q) + 1
  BY <1>1, <1>2, <1>3 DEF BytesRead
<1> QED BY <1>1, <1>4, <1>5, OnwardKept DEF r

(* The second check of a signed frame, and its signature.                  *)
LEMMA OnwardSeal ==
  ASSUME NEW q, MavKept(q), NEW c \in MavlinkByte, ~LastByte(q),
         q.state \in {"GotCrc1", "GotBadCrc1", "SignatureWait", "SignatureWaitBadCrc"}
  PROVE  LET r == ParseChar(q, c)
         IN  MavKept(r) /\ Onward(q, r, c)
<1> DEFINE r == ParseChar(q, c)
           signature == {"SignatureWait", "SignatureWaitBadCrc"}
<1>1. q.signed /\ (q.state \in signature => q.wait # 0 /\ q.wait # 1)
  BY DEF MavKept, LastByte
<1>2. /\ q.len \in Nat /\ q.signed /\ ~q.v1 /\ q.wait \in Nat /\ SignatureLen \in Nat \ {0}
      /\ q.wait <= SignatureLen
  BY <1>1, MavlinkAssumption DEF MavKept, MavRecord, Value
<1>3. /\ GoesOn(q, r) /\ SameFrame(q, r) /\ r.state \in signature
      /\ q.state \in {"GotCrc1", "GotBadCrc1"} => r.wait = SignatureLen
      /\ q.state \in signature => r.wait = q.wait - 1
  BY <1>1, StepSealed, StepSignature
<1> HIDE DEF r
<1>4. /\ r.len = q.len /\ r.v1 = q.v1 /\ r.signed = q.signed /\ Base(r) = Base(q)
      /\ Base(q) \in {6, 10}
  BY <1>3 DEF SameFrame, Base
<1>5. r.wait # 0
  BY <1>1, <1>2, <1>3
<1>6. MavKept(r)
  BY <1>1, <1>2, <1>3, <1>4, <1>5 DEF MavKept, GoesOn, HeaderStates
<1>7. BytesRead(r) = BytesRead(q) + 1
  <2>1. BytesRead(r) = Base(q) + q.len + 2 + (SignatureLen - r.wait)
    BY <1>3, <1>4 DEF BytesRead
  <2>2. CASE q.state \in signature
    <3>1. BytesRead(q) = Base(q) + q.len + 2 + (SignatureLen - q.wait) /\ r.wait = q.wait - 1
      BY <1>3, <2>2 DEF BytesRead
    <3> QED BY <1>2, <1>4, <2>1, <3>1
  <2>3. CASE q.state \in {"GotCrc1", "GotBadCrc1"}
    <3>1. BytesRead(q) = Base(q) + q.len + 1 /\ r.wait = SignatureLen
      BY <1>3, <2>3 DEF BytesRead
    <3> QED BY <1>2, <1>4, <2>1, <3>1
  <2> QED BY <2>2, <2>3
<1> QED BY <1>3, <1>6, <1>7, OnwardKept DEF r

(* In short: what is not the last byte leads one byte on.                  *)
LEMMA OnwardStep ==
  ASSUME NEW q, MavKept(q), NEW c \in MavlinkByte, q.state # "Idle", Takes(q, c), ~LastByte(q)
  PROVE  LET r == ParseChar(q, c)
         IN  MavKept(r) /\ Onward(q, r, c)
<1>1. q.state \in MavStates /\ DOMAIN Follows = {"GotIncompatFlags", "GotCompatFlags", "GotSeq", "GotSysid"}
  BY DEF MavKept, MavRecord, Follows
<1> QED BY <1>1, OnwardHeader, OnwardFollows, OnwardNumber, OnwardData, OnwardCheck, OnwardSeal
        DEF MavStates, HeaderStates

(* Every byte ends the frame at hand, begins one, or leads one byte on.    *)
LEMMA AnyStep ==
  ASSUME NEW q, MavKept(q), NEW c \in MavlinkByte
  PROVE  Result(q, c)
<1> DEFINE r == ParseChar(q, c)
<1>1. CASE q.state = "Idle"
  <2>1. CASE c.v \in {StxV1, StxV2}
    <3>1. GoesOn(q, r) /\ r.state = "GotStx" /\ r.v1 = (c.v = StxV1)
      BY <1>1, <2>1, StepStarts
    <3> HIDE DEF r
    <3>2. MavKept(r)
      BY <3>1 DEF MavKept, GoesOn, HeaderStates
    <3> QED BY <1>1, <2>1, <3>1, <3>2 DEF Result, Anew, r
  <2>2. CASE c.v \notin {StxV1, StxV2}
    <3>1. GoesOn(q, r) /\ r.state = "Idle"
      BY <1>1, <2>2, StepSilent
    <3> HIDE DEF r
    <3>2. MavKept(r)
      BY <3>1 DEF MavKept, GoesOn, HeaderStates
    <3> QED BY <3>1, <3>2 DEF Result, r
  <2> QED BY <2>1, <2>2
<1>2. CASE LastByte(q)
  BY <1>2, StepEnds DEF Result, Anew, LastByte
<1>3. CASE ~Takes(q, c)
  <2>1. GoesOn(q, r) /\ r.state = "Idle"
    BY <1>3, StepRefused DEF Takes
  <2> HIDE DEF r
  <2>2. MavKept(r)
    BY <2>1 DEF MavKept, GoesOn, HeaderStates
  <2> QED BY <2>1, <2>2 DEF Result, r
<1>4. CASE q.state # "Idle" /\ ~LastByte(q) /\ Takes(q, c)
  BY <1>4, OnwardStep DEF Result
<1> QED BY <1>1, <1>2, <1>3, <1>4

-----------------------------------------------------------------------------
(* What a parser may take, and the parsers that took one of these, or t.   *)
Readings == {<<p.msgid[1], Reading(p)>> : p \in MavRecord({0})}

KeptOf(t) == {p \in MavRecord(Readings \cup {t}) : MavKept(p)}

(* What is taken is what was taken before, or is read at the last byte.    *)
LEMMA StepTakes ==
  ASSUME NEW q, MavKept(q), NEW c \in MavlinkByte
  PROVE  ParseChar(q, c).taken \in {q.taken} \cup Readings
<1> DEFINE r == ParseChar(q, c)
<1>1. CASE LastByte(q)
  <2>1. r.taken \in {q.taken, <<q.msgid[1], Reading(q)>>}
    BY <1>1, StepEnds
  <2> DEFINE x == [q EXCEPT !.taken = 0]
  <2>2. x \in MavRecord({0}) /\ x.msgid = q.msgid /\ x.payload = q.payload /\ x.len = q.len
    BY DEF MavKept, MavRecord
  <2> HIDE DEF x, r
  <2>3. <<x.msgid[1], Reading(x)>> = <<q.msgid[1], Reading(q)>>
    BY <2>2 DEF Reading
  <2>4. <<x.msgid[1], Reading(x)>> \in Readings
    BY <2>2 DEF Readings
  <2> QED BY <2>1, <2>3, <2>4 DEF r
<1>2. CASE q.state = "Idle"
  BY <1>2, StepStarts, StepSilent DEF GoesOn
<1>3. CASE ~Takes(q, c)
  BY <1>3, StepRefused DEF Takes, GoesOn
<1>4. CASE q.state # "Idle" /\ ~LastByte(q) /\ Takes(q, c)
  <2>1. /\ q.state \in MavStates /\ q.state # "Idle"
        /\ DOMAIN Follows = {"GotIncompatFlags", "GotCompatFlags", "GotSeq", "GotSysid"}
    BY <1>4 DEF MavKept, MavRecord, Follows
  <2>2. CASE q.state \in {"GotStx", "GotCompid"}
    BY <2>2, StepGotStx, StepGotCompid DEF GoesOn
  <2>8. CASE q.state \in {"GotMsgid1", "GotMsgid2"}
    BY <2>8, StepGotMsgid1, StepGotMsgid2 DEF GoesOn
  <2>9. CASE q.state = "GotMsgid3"
    BY <2>9, StepGotMsgid3 DEF GoesOn
  <2>3. CASE q.state = "GotLength"
    BY <1>4, <2>3, StepFlags DEF GoesOn, Takes
  <2>4. CASE q.state \in DOMAIN Follows
    BY <2>4, StepFollows DEF GoesOn
  <2>5. CASE q.state = "GotPayload"
    BY <2>5, StepUnknown, StepGotPayload DEF GoesOn
  <2>6. CASE q.state \in {"GotCrc1", "GotBadCrc1"}
    BY <1>4, <2>6, StepSealed DEF GoesOn, LastByte
  <2>7. CASE q.state \in {"SignatureWait", "SignatureWaitBadCrc"}
    BY <1>4, <2>7, StepSignature DEF GoesOn, LastByte
  <2> HIDE DEF r
  <2> QED BY <2>1, <2>2, <2>3, <2>4, <2>5, <2>6, <2>7, <2>8, <2>9 DEF MavStates, HeaderStates
<1> QED BY <1>1, <1>2, <1>3, <1>4

(* So a set of parsers is closed under what a byte makes of them.          *)
LEMMA StepKeepsOf ==
  ASSUME NEW t, NEW q \in KeptOf(t), NEW c \in MavlinkByte
  PROVE  ParseChar(q, c) \in KeptOf(t)
<1> DEFINE r == ParseChar(q, c)
<1>1. MavKept(q) /\ q.taken \in Readings \cup {t}
  BY DEF KeptOf, MavRecord
<1>2. MavKept(r)
  BY <1>1, AnyStep DEF Result
<1>3. r.taken \in Readings \cup {t}
  BY <1>1, StepTakes
<1> HIDE DEF r
<1>4. r \in MavRecord({r.taken})
  BY <1>2 DEF MavKept
<1>5. r \in MavRecord(Readings \cup {t})
  BY <1>3, <1>4 DEF MavRecord
<1> QED BY <1>2, <1>5 DEF KeptOf, r

-----------------------------------------------------------------------------
(* The parser has read the first g bytes of the frame m, and nothing else  *)
(* since it was between two frames.                                        *)
Summing == HeaderStates \cup {"GotStx", "GotMsgid3", "GotPayload"}
Checking == {"GotCrc1", "GotBadCrc1", "SignatureWait", "SignatureWaitBadCrc"}
Numbered == {"GotMsgid1", "GotMsgid2", "GotMsgid3", "GotPayload"} \cup Checking

(* The checks of a readable frame agree, and its payload is filled up.     *)
Agrees(p, m) ==
  /\ p.state \in {"GotCrc1", "SignatureWait"} /\ p.idx = p.len
  /\ p.state = "GotCrc1" => p.sum = SumOf(m)
  /\ \A i \in 1 .. MaxPayload : i > p.len /\ i <= MaxLen[m.msgid] => p.payload[i] = 0

(* The parser has read g bytes of m, in the version of m.                  *)
InFrame(p, m, g) ==
  /\ p.state # "Idle" /\ p.v1 = m.v1 /\ BytesRead(p) = g
  /\ p.state # "GotStx" =>
       /\ p.len = Len(m.payload)
       /\ \A i \in 1 .. p.idx : i <= p.len /\ p.payload[i] = m.payload[i]
  /\ p.state \notin {"GotStx", "GotLength"} => p.signed = m.signed
  /\ p.state \in Summing => p.sum = SubSeq(BodyOf(m), 1, g - 1)
  /\ p.state \in Numbered => p.msgid = <<m.msgid, 0, 0>>
  /\ (p.state \in Checking /\ m.msgid \in DOMAIN MaxLen) => Agrees(p, m)

(* A frame that is followed from its first byte to its last.               *)
Followed(p, m, g) ==
  \/ g = 0 /\ p.state = "Idle"
  \/ 0 < g /\ g < Len(MavlinkBytes(m)) /\ InFrame(p, m, g)
  \/ /\ g = Len(MavlinkBytes(m))
     /\ m.msgid \in DOMAIN MaxLen => p.result = "Ok" /\ p.taken = MavlinkMeans(m)

-----------------------------------------------------------------------------
(* What process reads of a payload.                                        *)
LEMMA TextEmpty ==
  ASSUME NEW s, Len(s) \in Nat, Len(s) # 0, s[1] = 0
  PROVE  UpToNul(s) = <<>>
<1> DEFINE I == {i \in 1 .. Len(s) : s[i] = 0}
           j == SelectInSeq(s, LAMBDA x : x = 0)
<1>1. 1 \in I /\ \A i \in I : 1 <= i /\ i \in Nat
  OBVIOUS
<1>2. j = Min(I)
  BY <1>1 DEF SelectInSeq
<1> HIDE DEF I
<1>3. Min(I) = 1
  <2>1. \E x \in I : \A y \in I : x =< y
    BY <1>1
  <2>2. Min(I) \in I /\ \A y \in I : Min(I) =< y
    BY <2>1 DEF Min
  <2> QED BY <1>1, <2>2
<1>4. UpToNul(s) = IF j = 0 THEN s ELSE SubSeq(s, 1, j - 1)
  BY DEF UpToNul
<1> HIDE DEF j
<1>5. UpToNul(s) = SubSeq(s, 1, 0)
  BY <1>2, <1>3, <1>4
<1> QED BY <1>5, SubSeqEmpty

(* No text is an empty text.                                               *)
LEMMA TextNone == UpToNul(<<>>) = <<>>
<1> DEFINE I == {i \in 1 .. Len(<<>>) : <<>>[i] = 0}
           j == SelectInSeq(<<>>, LAMBDA x : x = 0)
<1>1. I = {}
  OBVIOUS
<1>2. j = 0
  BY <1>1 DEF SelectInSeq
<1>3. UpToNul(<<>>) = IF j = 0 THEN <<>> ELSE SubSeq(<<>>, 1, j - 1)
  BY DEF UpToNul
<1> HIDE DEF j
<1> QED BY <1>2, <1>3

(* A part of a sequence of values.                                         *)
LEMMA PartOfValues ==
  ASSUME NEW s \in Seq(Value), NEW a \in Nat, NEW n \in Nat, a + n <= Len(s)
  PROVE  /\ SubSeq(s, a + 1, a + n) \in Seq(Value) /\ Len(SubSeq(s, a + 1, a + n)) = n
         /\ \A i \in 1 .. n : SubSeq(s, a + 1, a + n)[i] = s[a + i]
BY PartAt

(* A payload that is filled up is what the message means.                  *)
LEMMA JoinedPayload ==
  ASSUME NEW s \in [1 .. MaxPayload -> Value], NEW t \in Seq(Value), NEW n \in Value,
         Len(t) <= n,
         \A i \in 1 .. Len(t) : s[i] = t[i],
         \A i \in 1 .. MaxPayload : i > Len(t) /\ i <= n => s[i] = 0
  PROVE  SubSeq(s, 1, n) = t \o [i \in 1 .. n - Len(t) |-> 0]
<1> DEFINE k == Len(t)
           z == [i \in 1 .. n - k |-> 0]
           a == SubSeq(s, 1, n)
           b == t \o z
<1>1. k \in Nat /\ n \in Nat /\ n - k \in Nat /\ k <= n /\ MaxPayload \in Nat /\ n <= MaxPayload
  BY LenProperties, MavlinkAssumption DEF Value
<1>2. z \in [1 .. n - k -> Value] /\ \A i \in 1 .. n - k : z[i] = 0
  BY MavlinkAssumption DEF Value
<1> HIDE DEF z
<1>3. z \in Seq(Value) /\ Len(z) = n - k
  BY <1>1, <1>2, FunctionIsSeq
<1>4. /\ b \in Seq(Value) /\ Len(b) = k + (n - k)
      /\ \A i \in 1 .. k : b[i] = t[i]
      /\ \A i \in 1 .. n - k : b[k + i] = z[i]
  <2>1. /\ t \o z \in Seq(Value) /\ Len(t \o z) = Len(t) + Len(z)
        /\ \A i \in 1 .. Len(t) : (t \o z)[i] = t[i]
        /\ \A i \in 1 .. Len(z) : (t \o z)[Len(t) + i] = z[i]
    BY <1>3, JoinedValues
  <2> HIDE DEF b
  <2>2. b = t \o z /\ k = Len(t)
    BY DEF b
  <2> HIDE DEF k
  <2> QED BY <1>3, <2>1, <2>2
<1>5. s \in Seq(Value) /\ Len(s) = MaxPayload
  BY <1>1, FunctionIsSeq
<1>6. a \in Seq(Value) /\ Len(a) = n /\ \A i \in 1 .. n : a[i] = s[i]
  <2>1. \A i \in 1 .. n : s[i] \in Value
    BY <1>1
  <2>2. /\ a \in Seq(Value) /\ Len(a) = IF 1 <= n THEN n - 1 + 1 ELSE 0
        /\ \A i \in 1 .. n - 1 + 1 : a[i] = s[1 + i - 1]
    BY <1>1, <2>1, SubSeqProperties
  <2> HIDE DEF a
  <2>3. Len(a) = n
    BY <1>1, <2>2
  <2>4. ASSUME NEW i \in 1 .. n PROVE a[i] = s[i]
    <3>1. i \in 1 .. n - 1 + 1 /\ 1 + i - 1 = i
      BY <1>1
    <3> QED BY <2>2, <3>1
  <2> QED BY <2>2, <2>3, <2>4
<1> HIDE DEF a, b, k
<1>7. Len(a) = Len(b)
  BY <1>1, <1>4, <1>6
<1>8. ASSUME NEW i \in 1 .. Len(a) PROVE a[i] = b[i]
  <2>1. i \in 1 .. n /\ i \in 1 .. MaxPayload
    BY <1>1, <1>6
  <2>2. CASE i <= k
    <3>1. i \in 1 .. k
      BY <1>1, <2>1, <2>2
    <3> QED BY <1>4, <1>6, <2>1, <3>1 DEF k
  <2>3. CASE ~(i <= k)
    <3> DEFINE j == i - k
    <3>1. j \in 1 .. n - k /\ k + j = i /\ i > k
      BY <1>1, <2>1, <2>3
    <3> HIDE DEF j
    <3>2. b[i] = 0
      BY <1>2, <1>4, <3>1
    <3>3. s[i] = 0
      BY <1>1, <2>1, <3>1 DEF k
    <3> QED BY <1>6, <2>1, <3>2, <3>3
  <2> QED BY <2>2, <2>3
<1>9. a = b
  BY <1>4, <1>6, <1>7, <1>8, SeqEqual
<1> QED BY <1>9 DEF a, b, k, z

(* parser.rs:507-508: the text of an ID is read to its end, no further.    *)
LEMMA TextRead ==
  ASSUME NEW s \in [1 .. MaxPayload -> Value], NEW t \in Seq(Value), BasicId \in DOMAIN MaxLen,
         Len(t) <= MaxLen[BasicId],
         \A i \in 1 .. Len(t) : s[i] = t[i],
         \A i \in 1 .. MaxPayload : i > Len(t) /\ i <= MaxLen[BasicId] => s[i] = 0
  PROVE  UpToNul(SubSeq(s, IdOffset + 1, IdOffset + IdLength(Len(t))))
           = UpToNul(SubSeq(t, IdOffset + 1, Len(t)))
<1> DEFINE k == Len(t)
           o == IdOffset
           n == MaxLen[BasicId]
           l == IdLength(k)
           a == SubSeq(s, o + 1, o + l)
           b == SubSeq(t, o + 1, k)
<1>1. /\ k \in Nat /\ o \in Nat /\ n \in Nat /\ k <= n /\ MaxPayload \in Nat /\ n <= MaxPayload
      /\ o < n /\ n <= o + MaxStr /\ MaxStr \in Nat
  BY LenProperties, MavlinkAssumption
<1>2. s \in Seq(Value) /\ Len(s) = MaxPayload /\ \A i \in 1 .. MaxPayload : s[i] \in Value
  BY <1>1, FunctionIsSeq
<1>3. l = IF k < o \/ k - o > MaxStr THEN MaxStr ELSE k - o
  BY DEF IdLength
<1> HIDE DEF l, k, o, n
<1>4. CASE k < o
  <2>1. b = <<>>
    BY <1>1, <1>4, SubSeqEmpty
  <2>2. l = MaxStr /\ MaxStr # 0 /\ o + 1 <= o + l /\ (o + l) - (o + 1) + 1 = l
    BY <1>1, <1>3, <1>4
  <2>3. s[o + 1] = 0
    <3>1. o + 1 \in 1 .. MaxPayload /\ o + 1 > k /\ o + 1 <= n
      BY <1>1, <1>4
    <3> QED BY <3>1 DEF k, n
  <2>4. Len(a) = l /\ a[1] = s[o + 1]
    <3>1. o + 1 \in Int /\ o + l \in Int
      BY <1>1, <2>2
    <3>2. \A i \in o + 1 .. o + l : s[i] \in {s[j] : j \in o + 1 .. o + l}
      OBVIOUS
    <3>3. /\ Len(a) = IF o + 1 <= o + l THEN (o + l) - (o + 1) + 1 ELSE 0
          /\ \A i \in 1 .. (o + l) - (o + 1) + 1 : a[i] = s[(o + 1) + i - 1]
      BY <3>1, <3>2, SubSeqProperties
    <3> HIDE DEF a
    <3>4. 1 \in 1 .. (o + l) - (o + 1) + 1 /\ (o + 1) + 1 - 1 = o + 1
      BY <1>1, <2>2
    <3> QED BY <2>2, <3>3, <3>4
  <2> HIDE DEF a, b
  <2>5. UpToNul(a) = <<>>
    BY <1>1, <2>2, <2>3, <2>4, TextEmpty
  <2>6. UpToNul(a) = UpToNul(b)
    BY <2>1, <2>5, TextNone
  <2> QED BY <2>6 DEF a, b, k, o, l
<1>5. CASE ~(k < o)
  <2>1. l = k - o /\ l \in Nat /\ o + l = k /\ o + l <= MaxPayload
    BY <1>1, <1>3, <1>5
  <2>2. t \in Seq(Value) /\ Len(t) = k
    BY DEF k
  <2>3. a \in Seq(Value) /\ Len(a) = l /\ \A i \in 1 .. l : a[i] = s[o + i]
    BY <1>1, <1>2, <2>1, PartOfValues
  <2>4. /\ SubSeq(t, o + 1, o + l) \in Seq(Value) /\ Len(SubSeq(t, o + 1, o + l)) = l
        /\ \A i \in 1 .. l : SubSeq(t, o + 1, o + l)[i] = t[o + i]
    BY <1>1, <2>1, <2>2, PartOfValues
  <2>5. b = SubSeq(t, o + 1, o + l)
    BY <2>1
  <2> HIDE DEF a, b
  <2>6. ASSUME NEW i \in 1 .. Len(a) PROVE a[i] = b[i]
    <3>1. i \in 1 .. l /\ o + i \in 1 .. k
      BY <1>1, <2>1, <2>3
    <3> QED BY <2>3, <2>4, <2>5, <3>1 DEF k
  <2>7. a = b
    BY <2>3, <2>4, <2>5, <2>6, SeqEqual
  <2> QED BY <2>7 DEF a, b, k, o, l
<1> QED BY <1>4, <1>5

(* The last byte of a frame that agrees: what is read is what was meant.   *)
LEMMA ReadsWhatWasMeant ==
  ASSUME NEW q, MavKept(q), NEW m \in MavlinkFrame, m.msgid \in DOMAIN MaxLen,
         q.len = Len(m.payload), q.idx = q.len, q.msgid = <<m.msgid, 0, 0>>,
         \A i \in 1 .. q.idx : q.payload[i] = m.payload[i],
         \A i \in 1 .. MaxPayload : i > q.len /\ i <= MaxLen[m.msgid] => q.payload[i] = 0
  PROVE  <<q.msgid[1], Reading(q)>> = MavlinkMeans(m)
<1>1. /\ q.payload \in [1 .. MaxPayload -> Value] /\ m.payload \in Seq(Value)
      /\ Len(m.payload) <= MaxLen[m.msgid] /\ MaxLen[m.msgid] \in Value
      /\ q.msgid[1] = m.msgid
  BY FrameParts, MavlinkAssumption DEF MavKept, MavRecord, Value
<1> DEFINE s == q.payload
           t == m.payload
<1>2. /\ q.len = Len(t) /\ \A i \in 1 .. Len(t) : s[i] = t[i]
      /\ \A i \in 1 .. MaxPayload : i > Len(t) /\ i <= MaxLen[m.msgid] => s[i] = 0
  OBVIOUS
<1>3. s \in [1 .. MaxPayload -> Value] /\ t \in Seq(Value) /\ Len(t) <= MaxLen[m.msgid]
  BY <1>1
<1>4. Reading(q) = IF m.msgid = BasicId
                   THEN UpToNul(SubSeq(s, IdOffset + 1, IdOffset + IdLength(Len(t))))
                   ELSE SubSeq(s, 1, MaxLen[m.msgid])
  BY <1>1, <1>2 DEF Reading
<1>5. MavlinkMeans(m) = <<m.msgid, IF m.msgid = BasicId THEN UpToNul(SubSeq(t, IdOffset + 1, Len(t)))
                                   ELSE t \o [i \in 1 .. MaxLen[m.msgid] - Len(t) |-> 0]>>
  BY DEF MavlinkMeans
<1> HIDE DEF s, t
<1>6. CASE m.msgid = BasicId
  <2>1. UpToNul(SubSeq(s, IdOffset + 1, IdOffset + IdLength(Len(t))))
          = UpToNul(SubSeq(t, IdOffset + 1, Len(t)))
    BY <1>2, <1>3, <1>6, TextRead
  <2> QED BY <1>1, <1>4, <1>5, <1>6, <2>1
<1>7. CASE m.msgid # BasicId
  <2> DEFINE n == MaxLen[m.msgid]
  <2>2. n \in Value /\ Len(t) <= n /\ \A i \in 1 .. MaxPayload : i > Len(t) /\ i <= n => s[i] = 0
    BY <1>1, <1>2, <1>3
  <2> HIDE DEF n
  <2>3. SubSeq(s, 1, n) = t \o [i \in 1 .. n - Len(t) |-> 0]
    BY <1>2, <1>3, <2>2, JoinedPayload
  <2>1. SubSeq(s, 1, MaxLen[m.msgid]) = t \o [i \in 1 .. MaxLen[m.msgid] - Len(t) |-> 0]
    BY <2>3 DEF n
  <2> QED BY <1>1, <1>4, <1>5, <1>7, <2>1
<1> QED BY <1>6, <1>7

(* How long a frame is, and which of its bytes is which.                   *)
LEMMA FrameBytes ==
  ASSUME NEW m \in MavlinkFrame
  PROVE  LET b == MavlinkBytes(m)
             h == HeadLen(m)
             n == Len(m.payload)
             y == BodyOf(m)
         IN  /\ b \in Seq(MavlinkByte) /\ Len(b) = h + n + 3 + SealLen(m)
             /\ \A i \in 1 .. Len(b) : b[i] \in MavlinkByte
             /\ h = (IF m.v1 THEN 5 ELSE 9) /\ n \in Nat /\ SealLen(m) \in Nat
             /\ SealLen(m) = IF m.signed THEN SignatureLen ELSE 0
             /\ SignatureLen \in Nat \ {0}
             /\ b[1].v = IF m.v1 THEN StxV1 ELSE StxV2
             /\ \A i \in 1 .. h + n : b[i + 1].v = y[i]
             /\ b[h + n + 2] = Check(m.check[1], SumOf(m), 1)
             /\ b[h + n + 3] = Check(m.check[2], SumOf(m), 2)
<1> DEFINE b == MavlinkBytes(m)
           h == HeadLen(m)
           n == Len(m.payload)
           y == BodyOf(m)
<1>1. /\ h = (IF m.v1 THEN 5 ELSE 9) /\ n \in Nat /\ SealLen(m) \in Nat
      /\ SealLen(m) = IF m.signed THEN SignatureLen ELSE 0
      /\ SignatureLen \in Nat \ {0}
  BY FrameParts, MavlinkAssumption DEF HeadLen, SealLen, Value
<1>2. /\ b \in Seq(MavlinkByte) /\ Len(b) = (h + n) + 3 + SealLen(m)
      /\ b[1].v = IF m.v1 THEN StxV1 ELSE StxV2
      /\ \A i \in 1 .. h + n : b[1 + i].v = y[i]
      /\ b[(h + n) + 2] = Check(m.check[1], SumOf(m), 1)
      /\ b[(h + n) + 3] = Check(m.check[2], SumOf(m), 2)
  BY MavlinkBytesShape
<1>3. \A i \in 1 .. Len(b) : b[i] \in MavlinkByte
  BY <1>2, ElementOfSeq
<1> HIDE DEF b, h, n, y
<1>4. ASSUME NEW i \in 1 .. h + n PROVE b[i + 1].v = y[i]
  <2>1. i + 1 = 1 + i
    BY <1>1
  <2> QED BY <1>2, <2>1
<1> QED BY <1>1, <1>2, <1>3, <1>4 DEF b, h, n, y

(* The bytes of the number of the message.                                 *)
LEMMA FrameNumbers ==
  ASSUME NEW m \in MavlinkFrame
  PROVE  /\ HeadLen(m) + Len(m.payload) \in Nat /\ HeadLen(m) + Len(m.payload) > 2
         /\ Len(MavlinkBytes(m)) \in Nat
         /\ Len(MavlinkBytes(m)) >= HeadLen(m) + Len(m.payload) + 3
<1> DEFINE h == HeadLen(m)
           n == Len(m.payload)
           t == SealLen(m)
           a == Len(MavlinkBytes(m))
<1>1. h \in {5, 9} /\ t \in Nat /\ n \in Nat /\ a = h + n + 3 + t
  BY FrameParts, FrameBytes
<1> HIDE DEF h, n, t, a
<1>2. h + n \in Nat /\ h + n > 2 /\ a \in Nat /\ a >= h + n + 3
  BY <1>1
<1> QED BY <1>2 DEF h, n, t, a

(* A frame that is read on is not at its end.                              *)
LEMMA NotTheEnd ==
  ASSUME NEW p, MavKept(p), NEW m \in MavlinkFrame, NEW g, BytesRead(p) = g,
         p.state # "Idle", p.v1 \/ ~m.v1,
         p.state # "GotStx" => p.len = Len(m.payload),
         (p.state \notin {"GotStx", "GotLength"} /\ ~p.v1) => p.signed = m.signed
  PROVE  g \in Nat /\ 0 < g /\ g < Len(MavlinkBytes(m))
<1> DEFINE b == MavlinkBytes(m)
           n == Len(m.payload)
           t == SealLen(m)
<1>1. /\ Len(b) = HeadLen(m) + n + 3 + t /\ HeadLen(m) = (IF m.v1 THEN 5 ELSE 9)
      /\ n \in Nat /\ t \in Nat /\ t = (IF m.signed THEN SignatureLen ELSE 0)
  BY FrameBytes
<1>2. /\ g \in 0 .. LongestFrame - 1 /\ g > 0 /\ LongestFrame \in Nat
      /\ p.state \notin {"Idle", "GotStx"} =>
              g <= Base(p) + p.len + 1 + (IF p.signed THEN SignatureLen ELSE 0)
  BY PositionBounds, MavlinkAssumption DEF LongestFrame
<1>3. Base(p) = (IF p.v1 THEN 6 ELSE 10) /\ m.v1 \in BOOLEAN /\ p.v1 \in BOOLEAN
      /\ (p.v1 /\ p.state \notin {"Idle", "GotStx"} => ~p.signed)
  BY FrameParts DEF Base, MavKept, MavRecord
<1> HIDE DEF b, n, t
<1>4. CASE p.state \in {"GotStx", "GotLength"}
  <2>1. g <= 2
    BY <1>4 DEF BytesRead
  <2> QED BY <1>1, <1>2, <2>1 DEF b
<1>5. CASE p.state \notin {"GotStx", "GotLength"}
  <2>1. p.len = n /\ g <= Base(p) + n + 1 + (IF p.signed THEN SignatureLen ELSE 0)
    BY <1>2, <1>5 DEF n
  <2>2. CASE p.v1
    <3>1. g <= 6 + n + 1
      BY <1>1, <1>2, <1>3, <1>5, <2>1, <2>2
    <3> QED BY <1>1, <1>2, <3>1 DEF b
  <2>3. CASE ~p.v1
    <3>1. HeadLen(m) = 9 /\ p.signed = m.signed
      BY <1>1, <1>3, <1>5, <2>3
    <3>2. g <= 10 + n + 1 + t
      BY <1>1, <1>3, <2>1, <2>3, <3>1
    <3> QED BY <1>1, <1>2, <3>1, <3>2 DEF b
  <2> QED BY <1>3, <2>2, <2>3
<1> QED BY <1>4, <1>5

(* A byte more is summed up.                                               *)
LEMMA SumGrows ==
  ASSUME NEW y \in Seq(Value), NEW i \in 1 .. Len(y)
  PROVE  Append(SubSeq(y, 1, i - 1), y[i]) = SubSeq(y, 1, i)
<1>1. Len(y) \in Nat /\ y[i] \in Value /\ \A j \in 1 .. Len(y) : y[j] \in Value
  BY LenProperties, ElementOfSeq
<1>2. 1 \in 1 .. Len(y) /\ i \in 1 .. Len(y)
  BY <1>1
<1>3. SubSeq(y, 1, i) = SubSeq(y, 1, i - 1) \o <<y[i]>>
  BY <1>2, SubSeqRecursiveSecond
<1>4. SubSeq(y, 1, i - 1) \in Seq(Value)
  <2>1. 1 \in Int /\ i - 1 \in Int /\ \A j \in 1 .. i - 1 : y[j] \in Value
    BY <1>1
  <2> QED BY <2>1, SubSeqProperties
<1> QED BY <1>1, <1>3, <1>4, AppendIsConcat

(* Which byte is next, by what the parser waits for.                       *)
LEMMA WhereItIs ==
  ASSUME NEW q, MavKept(q), NEW m \in MavlinkFrame, NEW g, InFrame(q, m, g)
  PROVE  LET h == HeadLen(m)
             n == Len(m.payload)
         IN  /\ g \in Nat /\ h \in Nat /\ n \in Nat
             /\ q.state = "GotStx" => g = 1
             /\ q.state = "GotLength" => g = 2 /\ ~m.v1
             /\ q.state \in HeaderStates \cup {"GotStx"} => g >= 1 /\ g <= h
             /\ q.state = "GotCompid" => g = (IF m.v1 THEN 5 ELSE 7)
             /\ q.state = "GotMsgid1" => g = 8 /\ ~m.v1
             /\ q.state = "GotMsgid2" => g = 9 /\ ~m.v1
             /\ q.state = "GotMsgid3" => q.idx \in Nat /\ q.idx < n /\ g = h + q.idx + 1
             /\ q.state = "GotPayload" => g = h + n + 1
             /\ q.state \in {"GotCrc1", "GotBadCrc1"} => g = h + n + 2
             /\ q.state \in {"SignatureWait", "SignatureWaitBadCrc"} =>
                  q.wait \in Nat /\ g = h + n + 3 + (SignatureLen - q.wait)
<1> DEFINE h == HeadLen(m)
           n == Len(m.payload)
<1>0a. h = (IF m.v1 THEN 5 ELSE 9) /\ m.v1 \in BOOLEAN /\ n \in Nat /\ h \in Nat
  BY FrameParts, MavlinkAssumption DEF HeadLen, Value
<1>0b. q.state \in MavStates /\ q.idx \in Nat /\ q.wait \in Nat /\ SignatureLen \in Nat
  BY MavlinkAssumption DEF MavKept, MavRecord, Value
<1>0c. /\ q.state # "Idle" /\ q.v1 = m.v1 /\ g = BytesRead(q)
       /\ q.state # "GotStx" => q.len = n
  BY DEF InFrame
<1>1. /\ h = (IF m.v1 THEN 5 ELSE 9) /\ m.v1 \in BOOLEAN /\ n \in Nat /\ h \in Nat
      /\ q.state \in MavStates /\ q.idx \in Nat /\ q.wait \in Nat /\ SignatureLen \in Nat
      /\ q.state # "Idle" /\ q.v1 = m.v1 /\ g = BytesRead(q)
      /\ q.state # "GotStx" => q.len = n
  BY <1>0a, <1>0b, <1>0c
<1>2. /\ q.state = "GotMsgid3" => q.idx < q.len
      /\ q.state = "GotPayload" => q.idx = q.len
      /\ q.state \in {"GotLength", "GotIncompatFlags", "GotMsgid1", "GotMsgid2"} => ~m.v1
  BY <1>1 DEF MavKept
<1>3. Base(q) = h + 1 /\ Skip(q) = (IF m.v1 THEN 0 ELSE 2)
  BY <1>1 DEF Base, Skip
<1>4. g \in Nat
  BY <1>1, PositionBounds
<1> HIDE DEF h, n
<1>5. /\ q.state = "GotStx" => g = 1
      /\ q.state = "GotLength" => g = 2
      /\ q.state = "GotIncompatFlags" => g = 3
      /\ q.state = "GotCompatFlags" => g = 2 + Skip(q)
      /\ q.state = "GotSeq" => g = 3 + Skip(q)
      /\ q.state = "GotSysid" => g = 4 + Skip(q)
      /\ q.state = "GotCompid" => g = 5 + Skip(q)
      /\ q.state = "GotMsgid1" => g = 8
      /\ q.state = "GotMsgid2" => g = 9
      /\ q.state = "GotMsgid3" => g = Base(q) + q.idx
  BY <1>1 DEF BytesRead
<1>6. /\ q.state = "GotPayload" => g = Base(q) + q.len
      /\ q.state \in {"GotCrc1", "GotBadCrc1"} => g = Base(q) + q.len + 1
      /\ q.state \in {"SignatureWait", "SignatureWaitBadCrc"} =>
           g = Base(q) + q.len + 2 + (SignatureLen - q.wait)
  BY <1>1 DEF BytesRead
<1>7. q.state \in HeaderStates \cup {"GotStx"} => g >= 1 /\ g <= h
  <2>1. CASE m.v1
    <3>1. Skip(q) = 0 /\ h = 5
      BY <1>1, <1>3, <2>1
    <3>2. q.state \in HeaderStates \cup {"GotStx"} => g \in {1, 2, 3, 4, 5}
      BY <1>2, <1>5, <2>1, <3>1 DEF HeaderStates
    <3> QED BY <3>1, <3>2
  <2>2. CASE ~m.v1
    <3>1. Skip(q) = 2 /\ h = 9
      BY <1>1, <1>3, <2>2
    <3>2. q.state \in HeaderStates \cup {"GotStx"} => g \in 1 .. 9
      BY <1>5, <3>1 DEF HeaderStates
    <3> QED BY <3>1, <3>2
  <2> QED BY <1>1, <2>1, <2>2
<1>8. /\ q.state = "GotMsgid3" => q.idx < n /\ g = h + q.idx + 1
      /\ q.state = "GotPayload" => g = h + n + 1
  <2>1. CASE q.state = "GotMsgid3"
    <3>1. q.idx < n /\ g = (h + 1) + q.idx
      BY <1>1, <1>2, <1>3, <1>5, <2>1
    <3> QED BY <1>1, <2>1, <3>1
  <2>2. CASE q.state = "GotPayload"
    <3>1. g = (h + 1) + n
      BY <1>1, <1>3, <1>6, <2>2
    <3> QED BY <1>1, <2>2, <3>1
  <2> QED BY <2>1, <2>2
<1>9. /\ q.state \in {"GotCrc1", "GotBadCrc1"} => g = h + n + 2
      /\ q.state \in {"SignatureWait", "SignatureWaitBadCrc"} => g = h + n + 3 + (SignatureLen - q.wait)
  <2>1. CASE q.state \in {"GotCrc1", "GotBadCrc1"}
    <3>1. g = (h + 1) + n + 1
      BY <1>1, <1>3, <1>6, <2>1
    <3> QED BY <1>1, <2>1, <3>1
  <2>2. CASE q.state \in {"SignatureWait", "SignatureWaitBadCrc"}
    <3>1. g = (h + 1) + n + 2 + (SignatureLen - q.wait)
      BY <1>1, <1>3, <1>6, <2>2
    <3> QED BY <1>1, <2>2, <3>1
  <2> QED BY <2>1, <2>2
<1>10. q.state = "GotCompid" => g = (IF m.v1 THEN 5 ELSE 7)
  BY <1>1, <1>3, <1>5
<1> QED BY <1>1, <1>2, <1>4, <1>5, <1>7, <1>8, <1>9, <1>10 DEF h, n

(* The byte at hand.                                                       *)
LEMMA NextByte ==
  ASSUME NEW m \in MavlinkFrame, NEW g \in Nat, g >= 1, g <= HeadLen(m) + Len(m.payload)
  PROVE  LET c == MavlinkBytes(m)[g + 1]
         IN  /\ c \in MavlinkByte /\ c.v = BodyOf(m)[g]
             /\ Append(SubSeq(BodyOf(m), 1, g - 1), c.v) = SubSeq(BodyOf(m), 1, (g + 1) - 1)
<1> DEFINE b == MavlinkBytes(m)
           k == HeadLen(m) + Len(m.payload)
           y == BodyOf(m)
<1>1. k \in Nat /\ Len(b) \in Nat /\ Len(b) >= k + 3
  BY FrameNumbers
<1>2. /\ \A i \in 1 .. k : b[i + 1].v = y[i]
      /\ \A i \in 1 .. Len(b) : b[i] \in MavlinkByte
  BY FrameBytes
<1>3. y \in Seq(Value) /\ Len(y) = k
  BY BodyShape
<1>4. g <= k
  OBVIOUS
<1> HIDE DEF b, k, y
<1>5. g \in 1 .. k /\ g + 1 \in 1 .. Len(b) /\ (g + 1) - 1 = g
  BY <1>1, <1>4
<1>6. b[g + 1] \in MavlinkByte /\ b[g + 1].v = y[g]
  BY <1>2, <1>5
<1>7. Append(SubSeq(y, 1, g - 1), y[g]) = SubSeq(y, 1, g)
  BY <1>3, <1>5, SumGrows
<1> QED BY <1>5, <1>6, <1>7 DEF b, k, y

(* A step through the header or the payload.                               *)
LEMMA HeaderOn ==
  ASSUME NEW q, MavKept(q), NEW m \in MavlinkFrame, NEW g, InFrame(q, m, g),
         q.state \in HeaderStates \cup {"GotStx", "GotMsgid3"},
         NEW c, c = MavlinkBytes(m)[g + 1],
         NEW r, r = ParseChar(q, c)
  PROVE  /\ c \in MavlinkByte /\ c.v = BodyOf(m)[g] /\ MavKept(r) /\ Takes(q, c)
         /\ r.state \notin {"Idle", "GotStx"} /\ r.v1 = m.v1 /\ BytesRead(r) = g + 1
         /\ r.len = Len(m.payload)
         /\ r.state \notin {"GotStx", "GotLength"} => r.signed = m.signed
         /\ Summed(q, r, c) => r.sum = SubSeq(BodyOf(m), 1, (g + 1) - 1)
<1> DEFINE h == HeadLen(m)
           n == Len(m.payload)
           y == BodyOf(m)
<1>1. /\ g \in Nat /\ h \in Nat /\ n \in Nat
      /\ q.state = "GotStx" => g = 1
      /\ q.state = "GotLength" => g = 2 /\ ~m.v1
      /\ q.state \in HeaderStates \cup {"GotStx"} => g >= 1 /\ g <= h
      /\ q.state = "GotMsgid3" => q.idx \in Nat /\ q.idx < n /\ g = h + q.idx + 1
  BY WhereItIs
<1>2. g >= 1 /\ g <= h + n
  <2> HIDE DEF h, n
  <2> QED BY <1>1
<1>3. c \in MavlinkByte /\ c.v = y[g] /\ Append(SubSeq(y, 1, g - 1), c.v) = SubSeq(y, 1, (g + 1) - 1)
  BY <1>1, <1>2, NextByte
<1>4. /\ y[1] = n /\ (~m.v1 => y[2] = IF m.signed THEN SignedFlag ELSE 0)
      /\ m.signed \in BOOLEAN /\ ~(m.v1 /\ m.signed) /\ SignedFlag # 0
  BY BodyShape, FrameParts, MavlinkAssumption
<1> HIDE DEF h, n, y
<1>5. Takes(q, c)
  BY <1>1, <1>3, <1>4 DEF Takes
<1>6. q.state # "Idle" /\ ~LastByte(q)
  BY DEF LastByte, HeaderStates
<1>7. MavKept(r) /\ Onward(q, r, c)
  BY <1>3, <1>5, <1>6, OnwardStep
<1>8. /\ q.v1 = m.v1 /\ BytesRead(q) = g /\ (q.state # "GotStx" => q.len = n)
      /\ q.state \notin {"GotStx", "GotLength"} => q.signed = m.signed
      /\ q.sum = SubSeq(y, 1, g - 1)
  BY DEF InFrame, Summing, n, y
<1>9. /\ r.state \notin {"Idle", "GotStx"}
      /\ BytesRead(r) = BytesRead(q) + 1 /\ r.v1 = q.v1
      /\ q.state = "GotStx" => r.len = c.v
      /\ q.state # "GotStx" => r.len = q.len
      /\ q.state = "GotLength" => r.signed = (c.v = SignedFlag)
      /\ q.state \notin {"GotStx", "GotLength"} => r.signed = q.signed
  BY <1>7 DEF Onward
<1>10. r.len = n
  BY <1>1, <1>3, <1>4, <1>8, <1>9
<1>11. ASSUME r.state # "GotLength" PROVE r.signed = m.signed
  <2>1. CASE q.state = "GotStx"
    <3>1. q.v1 /\ ~r.signed
      <4>1. r.state = (IF q.v1 THEN "GotCompatFlags" ELSE "GotLength") /\ (q.v1 => ~r.signed)
        BY <1>3, <2>1, StepGotStx
      <4> QED BY <1>11, <4>1
    <3>2. r.signed \in BOOLEAN
      BY <1>7 DEF MavKept, MavRecord
    <3> QED BY <1>4, <1>8, <3>1, <3>2
  <2>2. CASE q.state = "GotLength"
    <3>1. r.signed = (c.v = SignedFlag) /\ c.v = IF m.signed THEN SignedFlag ELSE 0
      BY <1>1, <1>3, <1>4, <1>9, <2>2
    <3> QED BY <1>4, <3>1
  <2>3. CASE q.state \notin {"GotStx", "GotLength"}
    BY <1>8, <1>9, <2>3
  <2> QED BY <2>1, <2>2, <2>3
<1>12. Summed(q, r, c) => r.sum = SubSeq(y, 1, (g + 1) - 1)
  BY <1>3, <1>8 DEF Summed
<1> QED BY <1>3, <1>5, <1>7, <1>8, <1>9, <1>10, <1>11, <1>12 DEF n, y

(* The header of a frame that is followed.                                 *)
LEMMA HeaderFollowed ==
  ASSUME NEW q, MavKept(q), NEW m \in MavlinkFrame, NEW g, InFrame(q, m, g),
         q.state \in HeaderStates \cup {"GotStx"}
  PROVE  InFrame(ParseChar(q, MavlinkBytes(m)[g + 1]), m, g + 1)
<1> DEFINE c == MavlinkBytes(m)[g + 1]
           r == ParseChar(q, c)
           id == <<m.msgid, 0, 0>>
<1>1. /\ c \in MavlinkByte /\ c.v = BodyOf(m)[g] /\ MavKept(r) /\ Takes(q, c)
      /\ r.state \notin {"Idle", "GotStx"} /\ r.v1 = m.v1 /\ BytesRead(r) = g + 1
      /\ r.len = Len(m.payload)
      /\ r.state \notin {"GotStx", "GotLength"} => r.signed = m.signed
      /\ Summed(q, r, c) => r.sum = SubSeq(BodyOf(m), 1, (g + 1) - 1)
  BY HeaderOn
<1>2. /\ q.state = "GotLength" => c.v \in {0, SignedFlag}
      /\ q.state = "GotMsgid1" => g = 8 /\ ~m.v1
      /\ q.state = "GotMsgid2" => g = 9 /\ ~m.v1
      /\ q.state = "GotCompid" => g = (IF m.v1 THEN 5 ELSE 7)
  BY <1>1, WhereItIs DEF Takes
<1>3. /\ q.state # "GotStx" => q.idx = 0
      /\ q.state \in {"GotMsgid1", "GotMsgid2"} => q.msgid = id
      /\ q.v1 = m.v1
  BY DEF MavKept, InFrame, Numbered
<1>4. /\ m.v1 => BodyOf(m)[5] = m.msgid
      /\ ~m.v1 => BodyOf(m)[7] = m.msgid /\ BodyOf(m)[8] = 0 /\ BodyOf(m)[9] = 0
      /\ m.v1 \in BOOLEAN
  BY BodyShape, FrameParts
<1> HIDE DEF c, r
<1>5. /\ r.idx = 0 /\ Summed(q, r, c)
      /\ r.state \in HeaderStates \cup {"GotMsgid3", "GotPayload"}
      /\ r.state \in Numbered => r.msgid = id
  <2>1. CASE q.state = "GotStx"
    BY <1>1, <2>1, StepGotStx DEF HeaderStates, Numbered, Checking, r
  <2>2. CASE q.state = "GotLength"
    BY <1>1, <1>2, <1>3, <2>2, StepFlags DEF HeaderStates, Numbered, Checking, r, SameData
  <2>3. CASE q.state \in DOMAIN Follows
    <3>1. /\ SameData(q, r) /\ Summed(q, r, c) /\ r.state = Follows[q.state]
      BY <1>1, <2>3, StepFollows DEF r
    <3>2. q.state \in {"GotIncompatFlags", "GotCompatFlags", "GotSeq", "GotSysid"}
      BY <2>3 DEF Follows
    <3>3. r.state \in {"GotCompatFlags", "GotSeq", "GotSysid", "GotCompid"}
      BY <3>1, <3>2 DEF Follows
    <3>4. r.state \notin Numbered /\ r.state \in HeaderStates
      BY <3>3 DEF HeaderStates, Numbered, Checking
    <3> QED BY <1>3, <3>1, <3>2, <3>4 DEF SameData
  <2>4. CASE q.state = "GotCompid"
    <3>1. /\ SameData(q, r) /\ Summed(q, r, c) /\ r.msgid = <<c.v, 0, 0>>
          /\ r.state = (IF q.v1 THEN AfterHeader(q) ELSE "GotMsgid1")
      BY <1>1, <2>4, StepGotCompid DEF r
    <3>2. c.v = m.msgid
      BY <1>1, <1>2, <1>4, <2>4
    <3>3. r.state \in {"GotMsgid1", "GotMsgid3", "GotPayload"}
      BY <3>1 DEF AfterHeader
    <3> QED BY <1>3, <2>4, <3>1, <3>2, <3>3 DEF SameData, HeaderStates
  <2>5. CASE q.state = "GotMsgid1"
    <3>1. /\ SameData(q, r) /\ Summed(q, r, c) /\ r.msgid = [q.msgid EXCEPT ![2] = c.v]
          /\ r.state = "GotMsgid2"
      BY <1>1, <2>5, StepGotMsgid1 DEF r
    <3>2. c.v = 0
      BY <1>1, <1>2, <1>4, <2>5
    <3>3. r.msgid = id
      BY <1>3, <2>5, <3>1, <3>2
    <3> QED BY <1>3, <2>5, <3>1, <3>3 DEF SameData, HeaderStates
  <2>6. CASE q.state = "GotMsgid2"
    <3>1. /\ SameData(q, r) /\ Summed(q, r, c) /\ r.msgid = [q.msgid EXCEPT ![3] = c.v]
          /\ r.state = AfterHeader(q)
      BY <1>1, <2>6, StepGotMsgid2 DEF r
    <3>2. c.v = 0
      BY <1>1, <1>2, <1>4, <2>6
    <3>3. r.msgid = id
      BY <1>3, <2>6, <3>1, <3>2
    <3>4. r.state \in {"GotMsgid3", "GotPayload"}
      BY <3>1 DEF AfterHeader
    <3> QED BY <1>3, <2>6, <3>1, <3>3, <3>4 DEF SameData, HeaderStates
  <2> QED BY <2>1, <2>2, <2>3, <2>4, <2>5, <2>6 DEF HeaderStates, Follows
<1>6. r.state \notin Checking /\ r.state # "Idle"
  BY <1>1, <1>5 DEF Checking, HeaderStates
<1>7. \A i \in 1 .. r.idx : FALSE
  BY <1>5
<1>8. InFrame(r, m, g + 1)
  BY <1>1, <1>5, <1>6, <1>7 DEF InFrame
<1> QED BY <1>8 DEF r, c

(* The payload of a frame that is followed.                                *)
LEMMA DataFollowed ==
  ASSUME NEW q, MavKept(q), NEW m \in MavlinkFrame, NEW g, InFrame(q, m, g),
         q.state = "GotMsgid3"
  PROVE  InFrame(ParseChar(q, MavlinkBytes(m)[g + 1]), m, g + 1)
<1> DEFINE c == MavlinkBytes(m)[g + 1]
           r == ParseChar(q, c)
           n == Len(m.payload)
           h == HeadLen(m)
           t == m.payload
<1>1. /\ c \in MavlinkByte /\ c.v = BodyOf(m)[g] /\ MavKept(r)
      /\ r.state \notin {"Idle", "GotStx"} /\ r.v1 = m.v1 /\ BytesRead(r) = g + 1
      /\ r.len = n
      /\ r.state \notin {"GotStx", "GotLength"} => r.signed = m.signed
      /\ Summed(q, r, c) => r.sum = SubSeq(BodyOf(m), 1, (g + 1) - 1)
  BY HeaderOn
<1>2. q.idx \in Nat /\ q.idx < n /\ g = h + q.idx + 1 /\ n \in Nat /\ h \in Nat
  BY WhereItIs
<1>3. \A i \in 1 .. n : BodyOf(m)[h + i] = t[i]
  BY BodyShape
<1>4. /\ \A i \in 1 .. q.idx : q.payload[i] = t[i]
      /\ q.msgid = <<m.msgid, 0, 0>>
  BY DEF InFrame, Numbered
<1>5. q.payload \in [1 .. MaxPayload -> Value] /\ q.idx \in Value /\ n <= MaxPayload
      /\ MaxPayload \in Nat
  BY FrameParts, MavlinkAssumption DEF MavKept, MavRecord, Value
<1>6. /\ r.msgid = q.msgid /\ Summed(q, r, c)
      /\ r.state \in {"GotPayload", "GotMsgid3"}
      /\ r.payload = [q.payload EXCEPT ![q.idx + 1] = c.v] /\ r.idx = q.idx + 1
  BY <1>1, StepGotMsgid3 DEF SameNumber
<1> HIDE DEF c, r, n, h, t
<1>7. c.v = t[q.idx + 1]
  <2>1. q.idx + 1 \in 1 .. n /\ h + (q.idx + 1) = g
    BY <1>2
  <2> QED BY <1>1, <1>3, <2>1
<1>8. ASSUME NEW i \in 1 .. r.idx PROVE i <= r.len /\ r.payload[i] = t[i]
  <2>1. i \in 1 .. q.idx \/ i = q.idx + 1
    BY <1>2, <1>6
  <2>2. i \in 1 .. MaxPayload /\ i <= n
    BY <1>2, <1>5, <2>1
  <2> QED BY <1>1, <1>2, <1>4, <1>5, <1>6, <1>7, <2>1, <2>2
<1>9. r.state \notin Checking
  BY <1>6 DEF Checking
<1>10. InFrame(r, m, g + 1)
  BY <1>1, <1>4, <1>6, <1>8, <1>9 DEF InFrame, n, t
<1> QED BY <1>10 DEF r, c

(* The first check.                                                        *)
LEMMA CheckFollowed ==
  ASSUME NEW q, MavKept(q), NEW m \in MavlinkFrame, NEW g, InFrame(q, m, g),
         q.state = "GotPayload"
  PROVE  InFrame(ParseChar(q, MavlinkBytes(m)[g + 1]), m, g + 1)
<1> DEFINE b == MavlinkBytes(m)
           c == b[g + 1]
           r == ParseChar(q, c)
           n == Len(m.payload)
           h == HeadLen(m)
           y == BodyOf(m)
<1>1. g \in Nat /\ n \in Nat /\ h \in Nat /\ g = h + n + 1 /\ h + n \in Nat
      /\ Len(b) \in Nat /\ Len(b) >= h + n + 3
  BY WhereItIs, FrameNumbers
<1>2. /\ b[h + n + 2] = Check(m.check[1], SumOf(m), 1)
      /\ \A i \in 1 .. Len(b) : b[i] \in MavlinkByte
  BY FrameBytes
<1>3. /\ q.sum = SubSeq(y, 1, g - 1) /\ q.msgid = <<m.msgid, 0, 0>> /\ q.v1 = m.v1
      /\ q.len = n /\ q.signed = m.signed /\ BytesRead(q) = g
      /\ \A i \in 1 .. q.idx : q.payload[i] = m.payload[i]
  BY DEF InFrame, Numbered, Summing
<1>4. q.idx = q.len /\ q.payload \in [1 .. MaxPayload -> Value]
  BY DEF MavKept, MavRecord
<1>5. y \in Seq(Value) /\ Len(y) = h + n
  BY BodyShape
<1> HIDE DEF b, n, h, y
<1>6. c \in MavlinkByte /\ c = Check(m.check[1], SumOf(m), 1)
  <2>1. g + 1 \in 1 .. Len(b) /\ g + 1 = h + n + 2
    BY <1>1
  <2> QED BY <1>2, <2>1
<1>7. q.sum = y
  <2>1. g - 1 = h + n
    BY <1>1
  <2>2. SubSeq(y, 1, Len(y)) = y
    BY <1>5, SubSeqFull
  <2> QED BY <1>3, <1>5, <2>1, <2>2
<1>8. Append(q.sum, q.msgid[1]) = SumOf(m)
  <2>1. q.msgid[1] = m.msgid
    BY <1>3
  <2> QED BY <1>7, <2>1 DEF SumOf, y
<1> HIDE DEF c
<1>9. /\ MavKept(r) /\ Onward(q, r, c)
  BY <1>6, OnwardCheck
<1>10. /\ SameFrame(q, r) /\ SameNumber(q, r) /\ r.idx = q.idx
       /\ r.state \in {"GotCrc1", "GotBadCrc1"}
       /\ Known(q.msgid) => /\ r.state = (IF Matches(c, SumOf(m), 1) THEN "GotCrc1" ELSE "GotBadCrc1")
                            /\ r.sum = SumOf(m) /\ r.payload = ZeroFilled(q)
       /\ ~Known(q.msgid) => r.payload = q.payload
  BY <1>6, <1>8, StepUnknown, StepGotPayload DEF SameData
<1>11. Known(q.msgid) <=> m.msgid \in DOMAIN MaxLen
  BY <1>3 DEF Known
<1>12. Matches(c, SumOf(m), 1)
  BY <1>6 DEF Matches, Check
<1> HIDE DEF r
<1>13. \A i \in 1 .. r.idx : i <= r.len /\ r.payload[i] = m.payload[i]
  <2> SUFFICES ASSUME NEW i \in 1 .. r.idx PROVE i <= r.len /\ r.payload[i] = m.payload[i]
    OBVIOUS
  <2>1. r.len = n /\ r.idx = n /\ i \in 1 .. n /\ i <= n /\ i \in 1 .. q.idx /\ ~(i > q.idx)
    BY <1>1, <1>3, <1>4, <1>10 DEF SameFrame
  <2>2. i \in 1 .. MaxPayload
    <3>1. n <= MaxPayload /\ MaxPayload \in Nat
      BY FrameParts, MavlinkAssumption DEF Value, n
    <3> QED BY <1>1, <2>1, <3>1
  <2>3. ZeroFilled(q)[i] = q.payload[i]
    BY <1>4, <2>1, <2>2 DEF ZeroFilled
  <2> QED BY <1>3, <1>10, <2>1, <2>3
<1>14. ASSUME m.msgid \in DOMAIN MaxLen PROVE Agrees(r, m)
  <2>1. r.state = "GotCrc1" /\ r.sum = SumOf(m) /\ r.payload = ZeroFilled(q)
        /\ r.idx = r.len /\ r.len = q.idx /\ q.msgid[1] = m.msgid
    BY <1>3, <1>4, <1>10, <1>11, <1>12, <1>14 DEF SameFrame
  <2>2. ASSUME NEW i \in 1 .. MaxPayload, i > r.len /\ i <= MaxLen[m.msgid]
        PROVE  r.payload[i] = 0
    BY <1>4, <2>1, <2>2 DEF ZeroFilled
  <2> QED BY <2>1, <2>2 DEF Agrees
<1>15. InFrame(r, m, g + 1)
  <2>1. BytesRead(r) = g + 1 /\ r.v1 = m.v1 /\ r.len = n /\ r.signed = m.signed
    BY <1>3, <1>9, <1>10 DEF Onward, SameFrame
  <2>2. r.msgid = <<m.msgid, 0, 0>>
    BY <1>3, <1>10 DEF SameNumber
  <2>3. r.state # "Idle" /\ r.state \notin Summing
    BY <1>10 DEF Summing, HeaderStates
  <2> QED BY <1>13, <1>14, <2>1, <2>2, <2>3 DEF InFrame, n
<1> QED BY <1>15 DEF r, c, b

(* The second check of a signed frame, and its signature.                  *)
LEMMA SealFollowed ==
  ASSUME NEW q, MavKept(q), NEW m \in MavlinkFrame, NEW g, InFrame(q, m, g),
         q.state \in Checking, ~LastByte(q), g < Len(MavlinkBytes(m))
  PROVE  InFrame(ParseChar(q, MavlinkBytes(m)[g + 1]), m, g + 1)
<1> DEFINE b == MavlinkBytes(m)
           c == b[g + 1]
           r == ParseChar(q, c)
           n == Len(m.payload)
           h == HeadLen(m)
           waits == {"SignatureWait", "SignatureWaitBadCrc"}
<1>1. /\ g \in Nat /\ n \in Nat /\ h \in Nat
      /\ q.state \in {"GotCrc1", "GotBadCrc1"} => g = h + n + 2
      /\ Len(b) \in Nat
  BY WhereItIs, FrameNumbers
<1>2. /\ b[h + n + 3] = Check(m.check[2], SumOf(m), 2)
      /\ \A i \in 1 .. Len(b) : b[i] \in MavlinkByte
  BY FrameBytes
<1>3. /\ q.msgid = <<m.msgid, 0, 0>> /\ q.v1 = m.v1
      /\ q.len = n /\ q.signed = m.signed /\ BytesRead(q) = g
      /\ \A i \in 1 .. q.idx : i <= q.len /\ q.payload[i] = m.payload[i]
      /\ m.msgid \in DOMAIN MaxLen => Agrees(q, m)
  BY DEF InFrame, Numbered, Checking
<1>4. g < Len(b)
  OBVIOUS
<1> HIDE DEF b, n, h
<1>5. c \in MavlinkByte
  <2>1. g + 1 \in 1 .. Len(b)
    BY <1>1, <1>4
  <2> QED BY <1>2, <2>1
<1>6. q.state \in {"GotCrc1", "GotBadCrc1"} => c = Check(m.check[2], SumOf(m), 2)
  <2>1. q.state \in {"GotCrc1", "GotBadCrc1"} => g + 1 = h + n + 3
    BY <1>1
  <2> QED BY <1>2, <2>1
<1> HIDE DEF c
<1>7. MavKept(r) /\ Onward(q, r, c)
  BY <1>5, OnwardSeal DEF Checking
<1>8. q.signed /\ (q.state \in waits => q.wait # 1)
  BY DEF MavKept, LastByte, Checking
<1>9. /\ SameFrame(q, r) /\ SameNumber(q, r) /\ r.payload = q.payload
      /\ r.state = (IF q.state \in waits THEN q.state
                    ELSE IF q.state = "GotCrc1" /\ Matches(c, q.sum, 2) THEN "SignatureWait"
                    ELSE "SignatureWaitBadCrc")
  BY <1>5, <1>8, StepSealed, StepSignature DEF Checking
<1>10. r.idx = q.idx
  BY <1>5, <1>8, StepSealed, StepSignature DEF Checking
<1> HIDE DEF r
<1>11. ASSUME m.msgid \in DOMAIN MaxLen PROVE Agrees(r, m)
  <2>1. /\ q.state \in {"GotCrc1", "SignatureWait"} /\ q.idx = q.len
        /\ q.state = "GotCrc1" => q.sum = SumOf(m)
        /\ \A i \in 1 .. MaxPayload : i > q.len /\ i <= MaxLen[m.msgid] => q.payload[i] = 0
    BY <1>3, <1>11 DEF Agrees
  <2>2. q.state = "GotCrc1" => Matches(c, q.sum, 2)
    BY <1>6, <2>1 DEF Matches, Check
  <2>3. r.state = "SignatureWait"
    BY <1>9, <2>1, <2>2
  <2>4. r.len = q.len
    BY <1>9 DEF SameFrame
  <2> QED BY <1>9, <1>10, <2>1, <2>3, <2>4 DEF Agrees
<1>12. InFrame(r, m, g + 1)
  <2>1. BytesRead(r) = g + 1 /\ r.v1 = m.v1 /\ r.len = n /\ r.signed = m.signed
    BY <1>3, <1>7, <1>9 DEF Onward, SameFrame
  <2>2. r.msgid = <<m.msgid, 0, 0>>
    BY <1>3, <1>9 DEF SameNumber
  <2>3. r.state # "Idle" /\ r.state \notin Summing
    BY <1>9 DEF Summing, HeaderStates
  <2>4. \A i \in 1 .. r.idx : i <= r.len /\ r.payload[i] = m.payload[i]
    BY <1>3, <1>9, <1>10 DEF SameFrame
  <2> QED BY <1>11, <2>1, <2>2, <2>3, <2>4 DEF InFrame, n
<1> QED BY <1>12 DEF r, c, b

(* The last byte.                                                          *)
LEMMA LastFollowed ==
  ASSUME NEW q, MavKept(q), NEW m \in MavlinkFrame, NEW g, InFrame(q, m, g),
         LastByte(q), g < Len(MavlinkBytes(m))
  PROVE  LET r == ParseChar(q, MavlinkBytes(m)[g + 1])
         IN  /\ g + 1 = Len(MavlinkBytes(m))
             /\ m.msgid \in DOMAIN MaxLen => r.result = "Ok" /\ r.taken = MavlinkMeans(m)
<1> DEFINE b == MavlinkBytes(m)
           c == b[g + 1]
           r == ParseChar(q, c)
           n == Len(m.payload)
           h == HeadLen(m)
           t == SealLen(m)
           waits == {"SignatureWait", "SignatureWaitBadCrc"}
<1>1. /\ g \in Nat /\ n \in Nat /\ h \in Nat
      /\ q.state \in {"GotCrc1", "GotBadCrc1"} => g = h + n + 2
      /\ q.state \in waits => g = h + n + 3 + (SignatureLen - q.wait)
  BY WhereItIs
<1>2. /\ b[h + n + 3] = Check(m.check[2], SumOf(m), 2)
      /\ \A i \in 1 .. Len(b) : b[i] \in MavlinkByte
      /\ Len(b) = h + n + 3 + t /\ t = (IF m.signed THEN SignatureLen ELSE 0)
      /\ SignatureLen \in Nat \ {0}
  BY FrameBytes
<1>3. /\ q.msgid = <<m.msgid, 0, 0>> /\ q.len = n /\ q.signed = m.signed
      /\ \A i \in 1 .. q.idx : i <= q.len /\ q.payload[i] = m.payload[i]
      /\ m.msgid \in DOMAIN MaxLen => Agrees(q, m)
  BY DEF InFrame, Numbered, Checking, LastByte
<1>4. g < Len(b)
  OBVIOUS
<1> HIDE DEF b, h, t
<1>5. /\ g + 1 = Len(b) /\ g + 1 \in 1 .. Len(b)
      /\ q.state \in {"GotCrc1", "GotBadCrc1"} => g + 1 = h + n + 3
  <2> HIDE DEF n
  <2>1. CASE q.state \in {"GotCrc1", "GotBadCrc1"}
    <3>1. ~q.signed
      BY <2>1 DEF LastByte
    <3>2. t = 0
      BY <1>2, <1>3, <3>1
    <3> QED BY <1>1, <1>2, <2>1, <3>2
  <2>2. CASE q.state \in waits
    <3>1. q.wait = 1
      BY <2>2 DEF LastByte
    <3>2. q.signed
      BY <2>2 DEF MavKept
    <3>3. t = SignatureLen
      BY <1>2, <1>3, <3>2
    <3> QED BY <1>1, <1>2, <2>2, <3>1, <3>3
  <2> QED BY <2>1, <2>2 DEF LastByte
<1>6. c \in MavlinkByte
  BY <1>2, <1>5
<1>7. q.state \in {"GotCrc1", "GotBadCrc1"} => c = Check(m.check[2], SumOf(m), 2)
  BY <1>2, <1>5
<1> HIDE DEF c
<1>8. ASSUME m.msgid \in DOMAIN MaxLen
      PROVE  r.result = "Ok" /\ r.taken = MavlinkMeans(m)
  <2>1. /\ q.state \in {"GotCrc1", "SignatureWait"} /\ q.idx = q.len
        /\ q.state = "GotCrc1" => q.sum = SumOf(m)
        /\ \A i \in 1 .. MaxPayload : i > q.len /\ i <= MaxLen[m.msgid] => q.payload[i] = 0
    BY <1>3, <1>8 DEF Agrees
  <2>2. Sound(q, c)
    BY <1>7, <2>1 DEF Sound, Matches, Check
  <2>3. r.result = "Ok" /\ r.taken = <<q.msgid[1], Reading(q)>>
    BY <1>6, <2>2, StepEnds
  <2>4. <<q.msgid[1], Reading(q)>> = MavlinkMeans(m)
    BY <1>3, <1>8, <2>1, ReadsWhatWasMeant
  <2> QED BY <2>3, <2>4
<1> QED BY <1>5, <1>8 DEF r, c, b

(* A byte of a frame that is followed from its first byte on.              *)
LEMMA FollowedOn ==
  ASSUME NEW q, MavKept(q), NEW m \in MavlinkFrame,
         NEW g \in Nat, g < Len(MavlinkBytes(m)), Followed(q, m, g)
  PROVE  Followed(ParseChar(q, MavlinkBytes(m)[g + 1]), m, g + 1)
<1> DEFINE b == MavlinkBytes(m)
           c == b[g + 1]
           r == ParseChar(q, c)
<1>1. Len(b) \in Nat /\ Len(b) > 1 /\ g < Len(b)
  BY FrameNumbers
<1>2. /\ b[1].v = (IF m.v1 THEN StxV1 ELSE StxV2) /\ StxV1 # StxV2 /\ m.v1 \in BOOLEAN
      /\ \A i \in 1 .. Len(b) : b[i] \in MavlinkByte
  BY FrameBytes, FrameParts, MavlinkAssumption
<1>3. (g = 0 /\ q.state = "Idle") \/ (0 < g /\ InFrame(q, m, g))
  <2> HIDE DEF b
  <2>1. g # Len(b)
    BY <1>1
  <2> QED BY <2>1 DEF Followed, b
<1> HIDE DEF b
<1>4. c \in MavlinkByte /\ g + 1 \in 1 .. Len(b)
  BY <1>1, <1>2
<1>5. CASE g = 0 /\ q.state = "Idle"
  <2>1. c.v \in {StxV1, StxV2} /\ (c.v = StxV1) = m.v1
    BY <1>2, <1>5
  <2>2. /\ r.state = "GotStx" /\ r.v1 = m.v1 /\ r.sum = <<>>
    BY <1>4, <1>5, <2>1, StepStarts
  <2>3. BytesRead(r) = 1
    BY <2>2 DEF BytesRead
  <2>4. SubSeq(BodyOf(m), 1, 1 - 1) = <<>>
    BY SubSeqEmpty
  <2> HIDE DEF r
  <2>5. InFrame(r, m, 1)
    BY <2>2, <2>3, <2>4 DEF InFrame, Numbered, Checking
  <2> QED BY <1>1, <1>5, <2>5 DEF Followed, r, c, b
<1>6. CASE 0 < g /\ InFrame(q, m, g) /\ LastByte(q)
  <2>1. /\ g + 1 = Len(b)
        /\ m.msgid \in DOMAIN MaxLen => r.result = "Ok" /\ r.taken = MavlinkMeans(m)
    BY <1>6, LastFollowed DEF b
  <2> QED BY <2>1 DEF Followed, b
<1>7. CASE 0 < g /\ InFrame(q, m, g) /\ ~LastByte(q)
  <2>1. q.state \in MavStates /\ q.state # "Idle"
    BY <1>7 DEF MavKept, MavRecord, InFrame
  <2>2. InFrame(r, m, g + 1)
    BY <1>7, <2>1, HeaderFollowed, DataFollowed, CheckFollowed, SealFollowed DEF MavStates,
        Checking, b
  <2>3. MavKept(r)
    BY <1>4, AnyStep DEF Result
  <2>4. /\ BytesRead(r) = g + 1 /\ r.state # "Idle" /\ (r.v1 \/ ~m.v1)
        /\ r.state # "GotStx" => r.len = Len(m.payload)
        /\ (r.state \notin {"GotStx", "GotLength"} /\ ~r.v1) => r.signed = m.signed
    BY <2>2 DEF InFrame
  <2>5. 0 < g + 1 /\ g + 1 < Len(b)
    BY <2>3, <2>4, NotTheEnd DEF b
  <2> QED BY <2>2, <2>5 DEF Followed, b
<1> QED BY <1>3, <1>5, <1>6, <1>7

(* A new parser.                                                           *)
LEMMA NewKept == MavKept(MavlinkNew) /\ MavlinkNew.state = "Idle"
<1> DEFINE pa == [i \in 1 .. MaxPayload |-> 0]
           id == <<0, 0, 0>>
<1>1. 0 \in Value /\ <<>> \in Seq(Nat) /\ 0 \in 0 .. SignatureLen
  BY MavlinkAssumption, EmptySeq DEF Value
<1>2. pa \in [1 .. MaxPayload -> Value] /\ id \in [1 .. 3 -> Value]
  BY <1>1
<1> HIDE DEF pa, id
<1>3. MavlinkNew =
        [state |-> "Idle", v1 |-> FALSE, len |-> 0, idx |-> 0, signed |-> FALSE, msgid |-> id,
         sum |-> <<>>, payload |-> pa, wait |-> 0, result |-> "Incomplete", taken |-> <<>>]
  BY DEF MavlinkNew, pa, id
<1>4. MavlinkNew \in MavRecord({<<>>}) /\ MavlinkNew.state = "Idle" /\ MavlinkNew.taken = <<>>
  BY <1>1, <1>2, <1>3 DEF MavRecord, MavStates, Results
<1> QED BY <1>4 DEF MavKept, HeaderStates

-----------------------------------------------------------------------------
(* What was summed up tells what was read, so that a check which matches   *)
(* belongs to the frame that was read.                                     *)

(* The first byte of n is the length, the second of version 2 says whether *)
(* there is a signature, and the payload comes behind the header.          *)
Said(p, n) ==
  /\ Len(p.sum) = n /\ p.sum[1] = p.len
  /\ (p.state # "GotLength" /\ ~p.v1) => (p.signed <=> p.sum[2] = SignedFlag)
  /\ \A i \in 1 .. p.idx : p.payload[i] = p.sum[(Base(p) - 1) + i]

(* With the number of the message behind it once the first check matched.  *)
Tells(p) ==
  /\ p.state = "GotStx" => p.sum = <<>>
  /\ p.state \in Summing \ {"GotStx"} => Said(p, BytesRead(p) - 1)
  /\ p.state = "GotCrc1" =>
       /\ Said(p, BytesRead(p) - 1) /\ p.sum[Base(p) + p.len] = p.msgid[1]
       /\ Known(p.msgid) /\ p.idx = p.len
       /\ \A i \in 1 .. MaxPayload : i > p.len /\ i <= MaxLen[p.msgid[1]] => p.payload[i] = 0

(* A number more.                                                          *)
LEMMA SummedAt ==
  ASSUME NEW s \in Seq(Nat), NEW x \in Nat
  PROVE  /\ Len(s) \in Nat /\ Append(s, x) \in Seq(Nat) /\ Len(Append(s, x)) = Len(s) + 1
         /\ \A i \in 1 .. Len(s) : Append(s, x)[i] = s[i]
         /\ Append(s, x)[Len(s) + 1] = x
<1>1. Len(s) \in Nat
  BY LenProperties
<1>2. /\ Append(s, x) \in Seq(Nat) /\ Len(Append(s, x)) = Len(s) + 1
      /\ \A i \in 1 .. Len(s) : Append(s, x)[i] = s[i]
      /\ Append(s, x)[Len(s) + 1] = x
  BY AppendProperties
<1> QED BY <1>1, <1>2

(* How many numbers there are, by what the parser waits for.               *)
LEMMA SumLength ==
  ASSUME NEW p, MavKept(p), Tells(p), p.state \in (Summing \ {"GotStx"}) \cup {"GotCrc1"}
  PROVE  /\ p.sum \in Seq(Nat) /\ Len(p.sum) \in Nat /\ BytesRead(p) \in Nat
         /\ Len(p.sum) = BytesRead(p) - 1
         /\ p.len \in Nat /\ p.idx \in Nat /\ p.v1 \in BOOLEAN /\ p.signed \in BOOLEAN
         /\ p.payload \in [1 .. MaxPayload -> Value]
         /\ Base(p) = (IF p.v1 THEN 6 ELSE 10)
         /\ Len(p.sum) >= 1 /\ (p.state # "GotLength" /\ ~p.v1 => Len(p.sum) >= 2)
         /\ p.state \in HeaderStates => p.idx = 0
         /\ p.state \notin HeaderStates => Len(p.sum) >= (Base(p) - 1) + p.idx
         /\ p.state = "GotMsgid3" => Len(p.sum) = (Base(p) - 1) + p.idx /\ p.idx < p.len
         /\ p.state = "GotPayload" => Len(p.sum) = (Base(p) - 1) + p.len /\ p.idx = p.len
<1>1. p \in MavRecord({p.taken})
  BY DEF MavKept
<1>2. /\ p.sum \in Seq(Nat) /\ p.len \in Nat /\ p.idx \in Nat /\ p.v1 \in BOOLEAN
      /\ p.signed \in BOOLEAN /\ p.payload \in [1 .. MaxPayload -> Value]
  BY <1>1, MavlinkAssumption DEF MavRecord, Value
<1>3. Len(p.sum) = BytesRead(p) - 1 /\ (p.state = "GotCrc1" => p.idx = p.len)
  BY DEF Tells, Said
<1>4. Len(p.sum) \in Nat
  BY <1>2, LenProperties
<1>5. /\ p.state \in HeaderStates => p.idx = 0
      /\ p.state = "GotMsgid3" => p.idx < p.len
      /\ p.state = "GotPayload" => p.idx = p.len
      /\ p.state \in {"GotLength", "GotIncompatFlags", "GotMsgid1", "GotMsgid2"} => ~p.v1
  BY DEF MavKept
<1>6. /\ BytesRead(p) \in Nat /\ BytesRead(p) >= 2
      /\ (p.state # "GotLength" /\ ~p.v1 => BytesRead(p) >= 3)
      /\ p.state = "GotMsgid3" => BytesRead(p) = Base(p) + p.idx
      /\ p.state = "GotPayload" => BytesRead(p) = Base(p) + p.len
      /\ p.state = "GotCrc1" => BytesRead(p) = Base(p) + p.len + 1
  <2>1. Base(p) \in {6, 10} /\ Skip(p) \in {0, 2} /\ (~p.v1 => Skip(p) = 2)
    BY DEF Base, Skip
  <2>2. /\ p.state = "GotMsgid3" => BytesRead(p) = Base(p) + p.idx
        /\ p.state = "GotPayload" => BytesRead(p) = Base(p) + p.len
        /\ p.state = "GotCrc1" => BytesRead(p) = Base(p) + p.len + 1
    BY DEF BytesRead
  <2>3. p.state \in {"GotLength", "GotIncompatFlags", "GotMsgid1", "GotMsgid2"} =>
          /\ BytesRead(p) \in {2, 3, 8, 9}
          /\ p.state # "GotLength" => BytesRead(p) >= 3
    BY DEF BytesRead
  <2>4. p.state \in {"GotCompatFlags", "GotSeq", "GotSysid", "GotCompid"} =>
          BytesRead(p) \in {2 + Skip(p), 3 + Skip(p), 4 + Skip(p), 5 + Skip(p)}
    BY DEF BytesRead
  <2>5. p.state \in {"GotLength", "GotIncompatFlags", "GotMsgid1", "GotMsgid2"}
                    \cup {"GotCompatFlags", "GotSeq", "GotSysid", "GotCompid"}
                    \cup {"GotMsgid3", "GotPayload", "GotCrc1"}
    BY DEF Summing, HeaderStates
  <2> QED BY <1>2, <2>1, <2>2, <2>3, <2>4, <2>5
<1>7. Base(p) \in Nat /\ Base(p) = (IF p.v1 THEN 6 ELSE 10)
  BY DEF Base
<1>8. p.state \notin HeaderStates => p.state \in {"GotMsgid3", "GotPayload", "GotCrc1"}
  BY DEF Summing
<1>9. p.state \notin HeaderStates => Len(p.sum) >= (Base(p) - 1) + p.idx
  BY <1>2, <1>3, <1>5, <1>6, <1>7, <1>8
<1>10. /\ p.state = "GotMsgid3" => Len(p.sum) = (Base(p) - 1) + p.idx
       /\ p.state = "GotPayload" => Len(p.sum) = (Base(p) - 1) + p.len
  BY <1>2, <1>3, <1>6, <1>7
<1>11. Len(p.sum) >= 1 /\ (p.state # "GotLength" /\ ~p.v1 => Len(p.sum) >= 2)
  BY <1>3, <1>6
<1> QED BY <1>2, <1>3, <1>4, <1>5, <1>6, <1>7, <1>9, <1>10, <1>11

(* What was told stays told when a byte of the header follows.             *)
LEMMA SaidOn ==
  ASSUME NEW q, MavKept(q), Tells(q), NEW r, NEW c \in MavlinkByte,
         q.state \in Summing \ {"GotStx", "GotLength"}, r.state # "GotLength",
         Summed(q, r, c), SameFrame(q, r), r.idx = q.idx, r.payload = q.payload,
         BytesRead(r) = BytesRead(q) + 1
  PROVE  Said(r, BytesRead(r) - 1)
<1>1. /\ q.sum \in Seq(Nat) /\ Len(q.sum) \in Nat /\ BytesRead(q) \in Nat /\ Len(q.sum) = BytesRead(q) - 1
      /\ q.idx \in Nat /\ q.v1 \in BOOLEAN
      /\ Base(q) = (IF q.v1 THEN 6 ELSE 10)
      /\ Len(q.sum) >= 1 /\ (~q.v1 => Len(q.sum) >= 2)
      /\ q.idx # 0 => Len(q.sum) >= (Base(q) - 1) + q.idx
  BY SumLength
<1>2. /\ q.sum[1] = q.len /\ (~q.v1 => (q.signed <=> q.sum[2] = SignedFlag))
      /\ \A i \in 1 .. q.idx : q.payload[i] = q.sum[(Base(q) - 1) + i]
  BY DEF Tells, Said
<1>3. c.v \in Nat
  BY ByteValue
<1>4. r.sum = Append(q.sum, c.v)
  BY DEF Summed
<1>5. /\ Len(r.sum) = Len(q.sum) + 1 /\ \A i \in 1 .. Len(q.sum) : r.sum[i] = q.sum[i]
  BY <1>1, <1>3, <1>4, SummedAt
<1>6. r.v1 = q.v1 /\ r.len = q.len /\ r.signed = q.signed /\ Base(r) = Base(q)
  BY DEF SameFrame, Base
<1>7. r.sum[1] = q.sum[1] /\ (~q.v1 => r.sum[2] = q.sum[2])
  <2>1. 1 \in 1 .. Len(q.sum) /\ (~q.v1 => 2 \in 1 .. Len(q.sum))
    BY <1>1
  <2> QED BY <1>5, <2>1
<1>8. ASSUME NEW i \in 1 .. r.idx PROVE r.payload[i] = r.sum[(Base(r) - 1) + i]
  <2>1. i \in 1 .. q.idx /\ q.idx # 0
    BY <1>1
  <2>2. (Base(q) - 1) + i \in 1 .. Len(q.sum)
    BY <1>1, <2>1
  <2> QED BY <1>2, <1>5, <1>6, <2>1, <2>2
<1>9. Len(r.sum) = BytesRead(r) - 1
  BY <1>1, <1>5
<1> QED BY <1>2, <1>6, <1>7, <1>8, <1>9 DEF Said

(* The length.                                                             *)
LEMMA TellsFirst ==
  ASSUME NEW q, MavKept(q), Tells(q), NEW c \in MavlinkByte, q.state = "GotStx"
  PROVE  Tells(ParseChar(q, c))
<1> DEFINE r == ParseChar(q, c)
<1>1. /\ Summed(q, r, c) /\ r.state = (IF q.v1 THEN "GotCompatFlags" ELSE "GotLength")
      /\ r.v1 = q.v1 /\ r.len = c.v /\ r.idx = 0
  BY StepGotStx
<1>2. c.v \in Nat /\ <<>> \in Seq(Nat) /\ Len(<<>>) = 0
  BY ByteValue, EmptySeq
<1> HIDE DEF r
<1>3. r.sum = Append(<<>>, c.v)
  BY <1>1 DEF Tells, Summed
<1>4. Len(r.sum) = 1 /\ r.sum[1] = c.v
  BY <1>2, <1>3, SummedAt
<1>5. BytesRead(r) = 2
  BY <1>1 DEF BytesRead, Skip
<1>6. Said(r, BytesRead(r) - 1)
  BY <1>1, <1>4, <1>5 DEF Said
<1>7. Tells(r)
  BY <1>1, <1>6 DEF Tells
<1> QED BY <1>7 DEF r

(* The flags, understood or not.                                           *)
LEMMA TellsFlags ==
  ASSUME NEW q, MavKept(q), Tells(q), NEW c \in MavlinkByte, q.state = "GotLength"
  PROVE  Tells(ParseChar(q, c))
<1> DEFINE r == ParseChar(q, c)
<1>1. CASE c.v \notin {0, SignedFlag}
  <2>1. r.state = "Idle"
    BY <1>1, StepRefused
  <2> HIDE DEF r
  <2>2. Tells(r)
    BY <2>1 DEF Tells, Summing, HeaderStates
  <2> QED BY <2>2 DEF r
<1>2. CASE c.v \in {0, SignedFlag}
  <2>1. /\ SameData(q, r) /\ Summed(q, r, c) /\ r.state = "GotIncompatFlags"
        /\ r.v1 = q.v1 /\ r.len = q.len /\ r.signed = (c.v = SignedFlag)
    BY <1>2, StepFlags
  <2>2. /\ q.sum \in Seq(Nat) /\ Len(q.sum) \in Nat /\ BytesRead(q) \in Nat /\ Len(q.sum) = BytesRead(q) - 1
        /\ q.idx = 0
    BY SumLength DEF Summing, HeaderStates
  <2>3. q.sum[1] = q.len
    BY DEF Tells, Said, Summing, HeaderStates
  <2>4. c.v \in Nat
    BY ByteValue
  <2>5. BytesRead(q) = 2
    BY DEF BytesRead
  <2> HIDE DEF r
  <2>6. Len(r.sum) = 2 /\ r.sum[1] = q.sum[1] /\ r.sum[2] = c.v
    <3>1. 1 \in 1 .. Len(q.sum) /\ Len(q.sum) + 1 = 2
      BY <2>2, <2>5
    <3>2. r.sum = Append(q.sum, c.v)
      BY <2>1 DEF Summed
    <3>3. /\ Len(r.sum) = Len(q.sum) + 1 /\ \A i \in 1 .. Len(q.sum) : r.sum[i] = q.sum[i]
          /\ r.sum[Len(q.sum) + 1] = c.v
      BY <2>2, <2>4, <3>2, SummedAt
    <3> QED BY <3>1, <3>3
  <2>7. BytesRead(r) = 3 /\ r.idx = 0
    BY <2>1, <2>2 DEF BytesRead, SameData
  <2>8. Said(r, BytesRead(r) - 1)
    <3>1. Len(r.sum) = BytesRead(r) - 1 /\ r.sum[1] = r.len
      BY <2>1, <2>3, <2>6, <2>7
    <3>2. r.signed <=> r.sum[2] = SignedFlag
      BY <2>1, <2>6
    <3>3. \A i \in 1 .. r.idx : r.payload[i] = r.sum[(Base(r) - 1) + i]
      BY <2>7
    <3> QED BY <3>1, <3>2, <3>3 DEF Said
  <2>9. Tells(r)
    BY <2>1, <2>8 DEF Tells
  <2> QED BY <2>9 DEF r
<1> QED BY <1>1, <1>2

(* The rest of the header.                                                 *)
LEMMA TellsHeader ==
  ASSUME NEW q, MavKept(q), Tells(q), NEW c \in MavlinkByte, q.state \in HeaderStates \ {"GotLength"}
  PROVE  Tells(ParseChar(q, c))
<1> DEFINE r == ParseChar(q, c)
<1>1. q.state \in DOMAIN Follows \cup {"GotCompid", "GotMsgid1", "GotMsgid2"}
  BY DEF HeaderStates, Follows
<1>2. /\ SameFrame(q, r) /\ SameData(q, r) /\ Summed(q, r, c)
      /\ r.state \notin {"Idle", "GotStx", "GotLength", "GotCrc1"}
  <2>1. CASE q.state \in DOMAIN Follows
    <3>1. Follows[q.state] \notin {"Idle", "GotStx", "GotLength", "GotCrc1"}
      BY <2>1 DEF Follows
    <3> QED BY <2>1, <3>1, StepFollows
  <2>2. CASE q.state = "GotCompid"
    BY <2>2, StepGotCompid DEF AfterHeader
  <2>3. CASE q.state = "GotMsgid1"
    BY <2>3, StepGotMsgid1
  <2>4. CASE q.state = "GotMsgid2"
    BY <2>4, StepGotMsgid2 DEF AfterHeader
  <2> QED BY <1>1, <2>1, <2>2, <2>3, <2>4
<1>3. Result(q, c)
  BY AnyStep
<1>4. BytesRead(r) = BytesRead(q) + 1
  BY <1>2, <1>3 DEF Result, Anew, Onward
<1> HIDE DEF r
<1>5. Said(r, BytesRead(r) - 1)
  BY <1>2, <1>4, SaidOn DEF SameData, Summing, HeaderStates
<1>6. Tells(r)
  BY <1>2, <1>5 DEF Tells
<1> QED BY <1>6 DEF r

(* A byte of the payload.                                                  *)
LEMMA TellsData ==
  ASSUME NEW q, MavKept(q), Tells(q), NEW c \in MavlinkByte, q.state = "GotMsgid3"
  PROVE  Tells(ParseChar(q, c))
<1> DEFINE r == ParseChar(q, c)
<1>1. /\ SameFrame(q, r) /\ Summed(q, r, c)
      /\ r.state = (IF q.idx + 1 = q.len THEN "GotPayload" ELSE "GotMsgid3")
      /\ r.payload = [q.payload EXCEPT ![q.idx + 1] = c.v] /\ r.idx = q.idx + 1
  BY StepGotMsgid3
<1>2. Result(q, c)
  BY AnyStep
<1>3. BytesRead(r) = BytesRead(q) + 1
  BY <1>1, <1>2 DEF Result, Anew, Onward
<1> HIDE DEF r
<1>4. /\ q.sum \in Seq(Nat) /\ Len(q.sum) \in Nat /\ BytesRead(q) \in Nat /\ Len(q.sum) = BytesRead(q) - 1
      /\ q.idx \in Nat /\ q.v1 \in BOOLEAN /\ q.payload \in [1 .. MaxPayload -> Value]
      /\ Base(q) = (IF q.v1 THEN 6 ELSE 10)
      /\ Len(q.sum) = (Base(q) - 1) + q.idx
  BY SumLength DEF Summing, HeaderStates
<1>5. /\ q.sum[1] = q.len /\ (~q.v1 => (q.signed <=> q.sum[2] = SignedFlag))
      /\ \A i \in 1 .. q.idx : q.payload[i] = q.sum[(Base(q) - 1) + i]
  BY DEF Tells, Said, Summing, HeaderStates
<1>6. c.v \in Nat
  BY ByteValue
<1>7. /\ Len(r.sum) = Len(q.sum) + 1 /\ \A i \in 1 .. Len(q.sum) : r.sum[i] = q.sum[i]
      /\ r.sum[Len(q.sum) + 1] = c.v
  BY <1>1, <1>4, <1>6, SummedAt DEF Summed
<1>8. r.v1 = q.v1 /\ r.len = q.len /\ r.signed = q.signed /\ Base(r) = Base(q)
  BY <1>1 DEF SameFrame, Base
<1>9. r.sum[1] = q.sum[1] /\ (~q.v1 => r.sum[2] = q.sum[2])
  <2>1. 1 \in 1 .. Len(q.sum) /\ (~q.v1 => 2 \in 1 .. Len(q.sum))
    BY <1>4
  <2> QED BY <1>7, <2>1
<1>10. q.idx + 1 \in 1 .. MaxPayload
  <2>1. q.idx < q.len /\ q.len \in Value
    BY DEF MavKept, MavRecord
  <2>2. q.len \in Nat /\ q.len <= MaxPayload /\ MaxPayload \in Nat
    BY <2>1, MavlinkAssumption DEF Value
  <2> QED BY <1>4, <2>1, <2>2
<1>11. ASSUME NEW i \in 1 .. r.idx PROVE r.payload[i] = r.sum[(Base(r) - 1) + i]
  <2>1. CASE i = q.idx + 1
    <3>1. (Base(q) - 1) + i = Len(q.sum) + 1
      BY <1>4, <2>1
    <3> QED BY <1>1, <1>4, <1>7, <1>8, <1>10, <2>1, <3>1
  <2>2. CASE i # q.idx + 1
    <3>1. i \in 1 .. q.idx /\ i \in 1 .. MaxPayload
      <4>1. r.idx = q.idx + 1 /\ MaxPayload \in Nat
        BY <1>1, MavlinkAssumption
      <4> QED BY <1>4, <1>10, <2>2, <4>1
    <3>2. (Base(q) - 1) + i \in 1 .. Len(q.sum)
      BY <1>4, <3>1
    <3>3. r.payload[i] = q.payload[i]
      BY <1>1, <1>4, <2>2, <3>1
    <3> QED BY <1>5, <1>7, <1>8, <3>1, <3>2, <3>3
  <2> QED BY <2>1, <2>2
<1>12. Len(r.sum) = BytesRead(r) - 1
  BY <1>3, <1>4, <1>7
<1>13. Said(r, BytesRead(r) - 1)
  BY <1>5, <1>8, <1>9, <1>11, <1>12 DEF Said
<1>14. Tells(r)
  BY <1>1, <1>13 DEF Tells
<1> QED BY <1>14 DEF r

(* The first check.                                                        *)
LEMMA TellsCheck ==
  ASSUME NEW q, MavKept(q), Tells(q), NEW c \in MavlinkByte, q.state = "GotPayload"
  PROVE  Tells(ParseChar(q, c))
<1> DEFINE r == ParseChar(q, c)
<1>1. Result(q, c)
  BY AnyStep
<1>2. CASE ~Known(q.msgid)
  <2>1. r.state = "GotBadCrc1"
    BY <1>2, StepUnknown
  <2> HIDE DEF r
  <2>2. Tells(r)
    BY <2>1 DEF Tells, Summing, HeaderStates
  <2> QED BY <2>2 DEF r
<1>3. CASE Known(q.msgid)
  <2> DEFINE x == q.msgid[1]
  <2>1. /\ SameFrame(q, r) /\ SameNumber(q, r) /\ r.state \in {"GotCrc1", "GotBadCrc1"}
        /\ r.sum = Append(q.sum, x)
        /\ r.payload = ZeroFilled(q) /\ r.idx = q.idx
    BY <1>3, StepGotPayload
  <2>2. BytesRead(r) = BytesRead(q) + 1
    BY <1>1, <2>1 DEF Result, Anew, Onward
  <2> HIDE DEF r
  <2>3. /\ q.sum \in Seq(Nat) /\ Len(q.sum) \in Nat /\ BytesRead(q) \in Nat /\ Len(q.sum) = BytesRead(q) - 1
        /\ q.len \in Nat /\ q.v1 \in BOOLEAN /\ q.payload \in [1 .. MaxPayload -> Value]
        /\ Base(q) = (IF q.v1 THEN 6 ELSE 10)
        /\ Len(q.sum) = (Base(q) - 1) + q.len /\ q.idx = q.len
    BY SumLength DEF Summing, HeaderStates
  <2>4. /\ q.sum[1] = q.len /\ (~q.v1 => (q.signed <=> q.sum[2] = SignedFlag))
        /\ \A i \in 1 .. q.idx : q.payload[i] = q.sum[(Base(q) - 1) + i]
    BY DEF Tells, Said, Summing, HeaderStates
  <2>5. x \in Nat /\ q.len <= MaxPayload
    BY MavlinkAssumption DEF MavKept, MavRecord, Value
  <2> HIDE DEF x
  <2>6. /\ Len(r.sum) = Len(q.sum) + 1 /\ \A i \in 1 .. Len(q.sum) : r.sum[i] = q.sum[i]
        /\ r.sum[Len(q.sum) + 1] = x
    BY <2>1, <2>3, <2>5, SummedAt
  <2>7. r.v1 = q.v1 /\ r.len = q.len /\ r.signed = q.signed /\ Base(r) = Base(q)
    BY <2>1 DEF SameFrame, Base
  <2>8. r.sum[1] = q.sum[1] /\ (~q.v1 => r.sum[2] = q.sum[2])
    <3>1. 1 \in 1 .. Len(q.sum) /\ (~q.v1 => 2 \in 1 .. Len(q.sum))
      BY <2>3
    <3> QED BY <2>6, <3>1
  <2>9. ASSUME NEW i \in 1 .. r.idx PROVE r.payload[i] = r.sum[(Base(r) - 1) + i]
    <3>1. i \in 1 .. q.idx /\ ~(i > q.idx) /\ i \in 1 .. MaxPayload
      <4>1. r.idx = q.idx /\ q.idx = q.len /\ MaxPayload \in Nat
        BY <2>1, <2>3, MavlinkAssumption
      <4> QED BY <2>3, <2>5, <4>1
    <3>2. (Base(q) - 1) + i \in 1 .. Len(q.sum)
      <4> DEFINE w == Base(q)
                 k == q.len
                 l == Len(q.sum)
      <4>1. w \in {6, 10} /\ k \in Nat /\ l = (w - 1) + k
        BY <2>3
      <4>2. i <= k /\ i \in Nat /\ i >= 1
        BY <2>3, <3>1
      <4> HIDE DEF w, k, l
      <4>3. (w - 1) + i \in 1 .. l
        BY <4>1, <4>2
      <4> QED BY <4>3 DEF w, l
    <3>3. r.payload[i] = q.payload[i]
      BY <2>1, <2>3, <3>1 DEF ZeroFilled
    <3> QED BY <2>4, <2>6, <2>7, <3>1, <3>2, <3>3
  <2>10. Len(r.sum) = BytesRead(r) - 1
    BY <2>2, <2>3, <2>6
  <2>11. Said(r, BytesRead(r) - 1)
    BY <2>4, <2>7, <2>8, <2>9, <2>10 DEF Said
  <2>12. r.sum[Base(r) + r.len] = r.msgid[1]
    <3>1. Base(r) + r.len = Len(q.sum) + 1
      BY <2>3, <2>7
    <3> QED BY <2>1, <2>6, <3>1 DEF SameNumber, x
  <2>13. ASSUME NEW i \in 1 .. MaxPayload, i > r.len /\ i <= MaxLen[r.msgid[1]]
         PROVE  r.payload[i] = 0
    <3>1. i > q.idx /\ i <= MaxLen[q.msgid[1]]
      BY <2>1, <2>3, <2>7, <2>13 DEF SameNumber
    <3> QED BY <2>1, <2>3, <3>1 DEF ZeroFilled
  <2>14. Known(r.msgid) /\ r.idx = r.len
    BY <1>3, <2>1, <2>3, <2>7 DEF SameNumber
  <2>15. Tells(r)
    BY <2>1, <2>11, <2>12, <2>13, <2>14 DEF Tells, Summing, HeaderStates
  <2> QED BY <2>15 DEF r
<1> QED BY <1>2, <1>3

(* In short: what is summed up always tells what was read.                 *)
LEMMA TellsOn ==
  ASSUME NEW q, MavKept(q), Tells(q), NEW c \in MavlinkByte
  PROVE  Tells(ParseChar(q, c))
<1> DEFINE r == ParseChar(q, c)
<1>1. q.state \in MavStates
  BY DEF MavKept, MavRecord
<1>2. CASE q.state = "Idle"
  <2>1. r.state \in {"Idle", "GotStx"} /\ (r.state = "GotStx" => r.sum = <<>>)
    BY <1>2, StepStarts, StepSilent
  <2> HIDE DEF r
  <2>2. Tells(r)
    BY <2>1 DEF Tells, Summing, HeaderStates
  <2> QED BY <2>2 DEF r
<1>3. CASE LastByte(q)
  <2>1. r.state \in {"Idle", "GotStx"} /\ (r.state = "GotStx" => r.sum = <<>>)
    BY <1>3, StepEnds
  <2> HIDE DEF r
  <2>2. Tells(r)
    BY <2>1 DEF Tells, Summing, HeaderStates
  <2> QED BY <2>2 DEF r
<1>4. CASE q.state \in Checking /\ ~LastByte(q)
  <2>1. r.state \in {"SignatureWait", "SignatureWaitBadCrc"}
    BY <1>4, StepSealed, StepSignature DEF Checking, LastByte
  <2> HIDE DEF r
  <2>2. Tells(r)
    BY <2>1 DEF Tells, Summing, HeaderStates
  <2> QED BY <2>2 DEF r
<1> QED BY <1>1, <1>2, <1>3, <1>4, TellsFirst, TellsFlags, TellsHeader, TellsData, TellsCheck
        DEF MavStates, HeaderStates, Checking

(* The sum of a frame.                                                     *)
LEMMA SumShape ==
  ASSUME NEW m \in MavlinkFrame
  PROVE  LET z == SumOf(m)
             h == HeadLen(m)
             n == Len(m.payload)
         IN  /\ h = (IF m.v1 THEN 5 ELSE 9) /\ n \in Nat
             /\ Len(z) = (h + n) + 1 /\ z[1] = n /\ z[(h + n) + 1] = m.msgid
             /\ ~m.v1 => z[2] = IF m.signed THEN SignedFlag ELSE 0
             /\ \A i \in 1 .. n : z[h + i] = m.payload[i]
<1> DEFINE y == BodyOf(m)
           z == SumOf(m)
           h == HeadLen(m)
           n == Len(m.payload)
<1>1. /\ y \in Seq(Value) /\ Len(y) = h + n /\ y[1] = n
      /\ ~m.v1 => y[2] = IF m.signed THEN SignedFlag ELSE 0
      /\ \A i \in 1 .. n : y[h + i] = m.payload[i]
  BY BodyShape
<1>2. h = (IF m.v1 THEN 5 ELSE 9) /\ n \in Nat /\ m.msgid \in Nat
  BY FrameParts, MavlinkAssumption DEF HeadLen, Value
<1>3. y \in Seq(Nat)
  <2>1. Value \subseteq Nat
    BY MavlinkAssumption DEF Value
  <2> QED BY <1>1, <2>1, SeqMonotonic
<1>4. z = Append(y, m.msgid)
  BY DEF SumOf
<1> HIDE DEF y, z, h, n
<1>5. /\ Len(z) = (h + n) + 1 /\ z[(h + n) + 1] = m.msgid
      /\ \A i \in 1 .. h + n : z[i] = y[i]
  BY <1>1, <1>2, <1>3, <1>4, SummedAt
<1>6. z[1] = y[1] /\ z[2] = y[2]
  <2>1. 1 \in 1 .. h + n /\ 2 \in 1 .. h + n
    BY <1>2
  <2> QED BY <1>5, <2>1
<1>7. ASSUME NEW i \in 1 .. n PROVE z[h + i] = m.payload[i]
  <2>1. h + i \in 1 .. h + n
    BY <1>2
  <2> QED BY <1>1, <1>5, <2>1
<1> QED BY <1>1, <1>2, <1>5, <1>6, <1>7 DEF z, h, n

(* A parser whose sum is the sum of a frame has read this frame.           *)
LEMMA Unmixed ==
  ASSUME NEW q, MavKept(q), Tells(q), q.state = "GotCrc1",
         NEW m \in MavlinkFrame, q.sum = SumOf(m)
  PROVE  m.msgid \in DOMAIN MaxLen /\ InFrame(q, m, BytesRead(q))
<1> DEFINE h == HeadLen(m)
           n == Len(m.payload)
           z == SumOf(m)
<1>1. /\ h = (IF m.v1 THEN 5 ELSE 9) /\ n \in Nat
      /\ Len(z) = (h + n) + 1 /\ z[1] = n /\ z[(h + n) + 1] = m.msgid
      /\ ~m.v1 => z[2] = IF m.signed THEN SignedFlag ELSE 0
      /\ \A i \in 1 .. n : z[h + i] = m.payload[i]
  BY SumShape
<1>2. /\ Len(q.sum) = BytesRead(q) - 1 /\ q.sum[1] = q.len
      /\ ~q.v1 => (q.signed <=> q.sum[2] = SignedFlag)
      /\ \A i \in 1 .. q.idx : q.payload[i] = q.sum[(Base(q) - 1) + i]
      /\ q.sum[Base(q) + q.len] = q.msgid[1] /\ Known(q.msgid) /\ q.idx = q.len
      /\ \A i \in 1 .. MaxPayload : i > q.len /\ i <= MaxLen[q.msgid[1]] => q.payload[i] = 0
  BY DEF Tells, Said
<1>3. BytesRead(q) = Base(q) + q.len + 1
  BY DEF BytesRead
<1>4. m.v1 \in BOOLEAN /\ m.signed \in BOOLEAN /\ ~(m.v1 /\ m.signed) /\ m.msgid \in Value
  BY FrameParts
<1>5. q.v1 \in BOOLEAN /\ q.signed \in BOOLEAN /\ q.msgid \in [1 .. 3 -> Value]
      /\ (q.v1 => ~q.signed)
  BY DEF MavKept, MavRecord
<1>6. Base(q) = IF q.v1 THEN 6 ELSE 10
  BY DEF Base
<1> HIDE DEF h, n
<1>7. q.len = n
  BY <1>1, <1>2 DEF z
<1>8. Len(z) = Base(q) + q.len
  BY <1>1, <1>2, <1>3, <1>6, <1>7 DEF z
<1>9. q.v1 = m.v1 /\ Base(q) = h + 1
  BY <1>1, <1>4, <1>5, <1>6, <1>7, <1>8
<1>10. q.signed = m.signed
  <2>1. SignedFlag # 0
    BY MavlinkAssumption
  <2>2. CASE m.v1
    BY <1>4, <1>5, <1>9, <2>2
  <2>3. CASE ~m.v1
    <3>1. q.signed <=> z[2] = SignedFlag
      BY <1>2, <1>9, <2>3 DEF z
    <3>2. z[2] = SignedFlag <=> m.signed
      BY <1>1, <2>1, <2>3
    <3> QED BY <1>4, <1>5, <3>1, <3>2
  <2> QED BY <2>2, <2>3
<1>11. q.msgid[1] = m.msgid
  <2>1. Base(q) + q.len = (h + n) + 1
    BY <1>1, <1>7, <1>9
  <2> QED BY <1>1, <1>2, <2>1 DEF z
<1>12. m.msgid \in DOMAIN MaxLen /\ q.msgid = <<m.msgid, 0, 0>>
  <2>1. q.msgid[2] = 0 /\ q.msgid[3] = 0 /\ q.msgid[1] \in DOMAIN MaxLen
    BY <1>2 DEF Known
  <2>2. q.msgid = <<q.msgid[1], q.msgid[2], q.msgid[3]>>
    BY <1>5
  <2> QED BY <1>11, <2>1, <2>2
<1>13. ASSUME NEW i \in 1 .. q.idx PROVE i <= q.len /\ q.payload[i] = m.payload[i]
  <2>1. i \in 1 .. n /\ (Base(q) - 1) + i = h + i
    BY <1>1, <1>2, <1>7, <1>9
  <2> QED BY <1>1, <1>2, <1>7, <2>1 DEF z
<1>14. Agrees(q, m)
  BY <1>2, <1>11 DEF Agrees
<1>15. q.state \notin Summing
  BY DEF Summing, HeaderStates
<1> QED BY <1>7, <1>9, <1>10, <1>12, <1>13, <1>14, <1>15 DEF InFrame, n

(* While a signature is waited for, any byte is as good as its own.        *)
LEMMA AnySeal ==
  ASSUME NEW q, q.state = "SignatureWait", NEW c, NEW d
  PROVE  ParseChar(q, c) = ParseChar(q, d)
<1> DEFINE p == [q EXCEPT !.result = "Incomplete"]
<1>1. p.state = "SignatureWait"
  OBVIOUS
<1>2. FrameChar(q, c) = Signature(p) /\ FrameChar(q, d) = Signature(p)
  BY <1>1 DEF FrameChar
<1>3. Signature(p).result # "BadCrc"
  BY <1>1 DEF Signature, Ended
<1> QED BY <1>2, <1>3 DEF ParseChar

(* What is not a last byte completes nothing.                              *)
LEMMA NothingTaken ==
  ASSUME NEW q, MavKept(q), NEW c \in MavlinkByte, ~LastByte(q)
  PROVE  GoesOn(q, ParseChar(q, c))
<1>1. q.state \in MavStates
  BY DEF MavKept, MavRecord
<1>2. CASE q.state \in {"Idle", "GotStx", "GotLength"}
  BY <1>2, StepStarts, StepSilent, StepGotStx, StepFlags, StepRefused
<1>3. CASE q.state \in DOMAIN Follows
  BY <1>3, StepFollows
<1>4. CASE q.state \in {"GotCompid", "GotMsgid1", "GotMsgid2"}
  BY <1>4, StepGotCompid, StepGotMsgid1, StepGotMsgid2
<1>5. CASE q.state \in {"GotMsgid3", "GotPayload"}
  BY <1>5, StepGotMsgid3, StepUnknown, StepGotPayload
<1>6. CASE q.state \in Checking
  <2>1. CASE q.state \in {"GotCrc1", "GotBadCrc1"}
    BY <2>1, StepSealed DEF LastByte
  <2>2. CASE q.state \in {"SignatureWait", "SignatureWaitBadCrc"}
    BY <2>2, StepSignature DEF LastByte
  <2> QED BY <1>6, <2>1, <2>2 DEF Checking
<1> QED BY <1>1, <1>2, <1>3, <1>4, <1>5, <1>6 DEF MavStates, HeaderStates, Follows, Checking

(* A signature is waited for behind a second check that matched.           *)
LEMMA SealWaited ==
  ASSUME NEW q, MavKept(q), NEW c \in MavlinkByte, ParseChar(q, c).state = "SignatureWait"
  PROVE  /\ ~LastByte(q)
         /\ \/ q.state = "GotCrc1" /\ Matches(c, q.sum, 2) /\ q.signed
            \/ q.state = "SignatureWait" /\ q.wait # 1
<1> DEFINE r == ParseChar(q, c)
<1>1. q.state \in MavStates
  BY DEF MavKept, MavRecord
<1>2. ~LastByte(q)
  <2> SUFFICES ASSUME LastByte(q) PROVE FALSE
    OBVIOUS
  <2>1. r.state \in {"Idle", "GotStx"}
    BY StepEnds
  <2> QED BY <2>1
<1>3. CASE q.state \notin Checking
  <2>1. r.state # "SignatureWait"
    <3>1. CASE q.state \in {"Idle", "GotStx", "GotLength"}
      BY <3>1, StepStarts, StepSilent, StepGotStx, StepFlags, StepRefused
    <3>2. CASE q.state \in DOMAIN Follows
      <4>1. Follows[q.state] # "SignatureWait"
        BY <3>2 DEF Follows
      <4> QED BY <3>2, <4>1, StepFollows
    <3>3. CASE q.state \in {"GotCompid", "GotMsgid1", "GotMsgid2"}
      BY <3>3, StepGotCompid, StepGotMsgid1, StepGotMsgid2 DEF AfterHeader
    <3>4. CASE q.state \in {"GotMsgid3", "GotPayload"}
      BY <3>4, StepGotMsgid3, StepUnknown, StepGotPayload
    <3> QED BY <1>1, <1>3, <3>1, <3>2, <3>3, <3>4 DEF MavStates, HeaderStates, Follows, Checking
  <2> QED BY <2>1
<1>4. CASE q.state \in {"GotCrc1", "GotBadCrc1"}
  <2>1. q.signed
    BY <1>2, <1>4 DEF LastByte, MavKept, MavRecord
  <2>2. r.state = (IF q.state = "GotCrc1" /\ Matches(c, q.sum, 2) THEN "SignatureWait"
                   ELSE "SignatureWaitBadCrc")
    BY <1>4, <2>1, StepSealed
  <2> HIDE DEF r
  <2>3. r.state = "SignatureWait"
    BY DEF r
  <2> QED BY <1>2, <2>1, <2>2, <2>3
<1>5. CASE q.state \in {"SignatureWait", "SignatureWaitBadCrc"}
  <2>1. q.wait # 1
    BY <1>2, <1>5 DEF LastByte
  <2>2. r.state = q.state
    BY <1>5, <2>1, StepSignature
  <2> QED BY <1>2, <2>1, <2>2
<1> QED BY <1>3, <1>4, <1>5 DEF Checking

-----------------------------------------------------------------------------
(* Sequences of sequences.                                                 *)

(* f[k] is what the first k of n sequences make one after the other.       *)
Flattens(S, n, seqs, f) ==
  /\ f[1] = seqs[1] /\ f[n] = FlattenSeq(seqs)
  /\ \A k \in 1 .. n : f[k] \in Seq(S)
  /\ \A k \in 1 .. n - 1 : f[k + 1] = f[k] \o seqs[k + 1]

(* A flattened sequence is put together part by part.                      *)
LEMMA FlattenStepwise ==
  ASSUME NEW S, NEW n \in Nat \ {0}, NEW seqs \in [1 .. n -> Seq(S)]
  PROVE  \E f : Flattens(S, n, seqs, f)
<1> DEFINE Flat(g) == [i \in 1 .. n |-> IF i = 1 THEN seqs[i] ELSE g[i - 1] \o seqs[i]]
           flat == CHOOSE g : g = Flat(g)
           Good(k, g) == /\ g \in [1 .. n -> Seq(S)]
                         /\ \A i \in 1 .. n : i <= k =>
                              g[i] = IF i = 1 THEN seqs[i] ELSE g[i - 1] \o seqs[i]
           T == {k \in Nat : \E g : Good(k, g)}
<1>1. FlattenSeq(seqs) = flat[n]
  <2>1. Len(seqs) = n
    BY FunctionIsSeq
  <2> QED BY <2>1 DEF FlattenSeq
<1>2. 0 \in T
  <2>1. Good(0, seqs)
    OBVIOUS
  <2> QED BY <2>1
<1>3. ASSUME NEW k \in Nat, k \in T
      PROVE  k + 1 \in T
  <2>1. PICK g : Good(k, g)
    BY <1>3
  <2> DEFINE new == IF k = 0 THEN seqs[1] ELSE g[k] \o seqs[k + 1]
             h == [i \in 1 .. n |-> IF i = k + 1 THEN new ELSE g[i]]
  <2>2. k + 1 \in 1 .. n => new \in Seq(S)
    <3>1. CASE k = 0
      BY <3>1
    <3>2. CASE k # 0 /\ k + 1 \in 1 .. n
      <4>1. g[k] \in Seq(S) /\ seqs[k + 1] \in Seq(S)
        BY <2>1, <3>2
      <4> QED BY <3>2, <4>1, JoinedAt
    <3> QED BY <3>1, <3>2
  <2>3. h \in [1 .. n -> Seq(S)]
    <3> HIDE DEF new
    <3> QED BY <2>1, <2>2
  <2>4. ASSUME NEW i \in 1 .. n, i <= k + 1
        PROVE  h[i] = IF i = 1 THEN seqs[i] ELSE h[i - 1] \o seqs[i]
    <3>1. CASE i = k + 1
      BY <3>1
    <3>2. CASE i # k + 1
      <4>1. i <= k /\ h[i] = g[i]
        BY <2>4, <3>2
      <4>2. i # 1 => h[i - 1] = g[i - 1]
        <5>1. i # 1 => i - 1 \in 1 .. n /\ i - 1 # k + 1
          BY <4>1
        <5> QED BY <5>1
      <4>3. g[i] = IF i = 1 THEN seqs[i] ELSE g[i - 1] \o seqs[i]
        BY <2>1, <4>1
      <4> HIDE DEF h, Good
      <4> QED BY <4>1, <4>2, <4>3
    <3> QED BY <3>1, <3>2
  <2> HIDE DEF h
  <2>5. Good(k + 1, h)
    BY <2>3, <2>4
  <2> HIDE DEF Good
  <2> QED BY <2>5
<1>4. n \in T
  <2> HIDE DEF T
  <2> QED BY <1>2, <1>3, SetInduction
<1>5. PICK g : Good(n, g)
  BY <1>4
<1>6. g = Flat(g)
  BY <1>5
<1> HIDE DEF Flat
<1>7. flat = Flat(flat)
  BY <1>6
<1> HIDE DEF flat
<1>8. \A i \in 1 .. n : flat[i] = IF i = 1 THEN seqs[i] ELSE flat[i - 1] \o seqs[i]
  BY <1>7 DEF Flat
<1> DEFINE U == {k \in Nat : k + 1 <= n => flat[k + 1] \in Seq(S)}
<1>9. 0 \in U
  BY <1>8
<1>10. ASSUME NEW k \in Nat, k \in U
       PROVE  k + 1 \in U
  <2> SUFFICES ASSUME k + 1 + 1 <= n PROVE flat[k + 1 + 1] \in Seq(S)
    OBVIOUS
  <2>1. k + 2 \in 1 .. n /\ k + 2 # 1 /\ k + 1 \in 1 .. n /\ (k + 2) - 1 = k + 1 /\ k + 1 + 1 = k + 2
    OBVIOUS
  <2>2. flat[k + 2] = flat[k + 1] \o seqs[k + 2]
    BY <1>8, <2>1
  <2>3. flat[k + 1] \in Seq(S) /\ seqs[k + 2] \in Seq(S)
    BY <1>10, <2>1
  <2> QED BY <2>1, <2>2, <2>3, JoinedAt
<1>11. Nat \subseteq U
  <2> HIDE DEF U
  <2> QED BY <1>9, <1>10, SetInduction
<1>12. ASSUME NEW k \in 1 .. n PROVE flat[k] \in Seq(S)
  <2>1. k - 1 \in Nat /\ (k - 1) + 1 = k /\ k <= n
    OBVIOUS
  <2> QED BY <1>11, <2>1
<1>13. ASSUME NEW k \in 1 .. n - 1 PROVE flat[k + 1] = flat[k] \o seqs[k + 1]
  <2>1. k + 1 \in 1 .. n /\ k + 1 # 1 /\ (k + 1) - 1 = k
    OBVIOUS
  <2> QED BY <1>8, <2>1
<1>14. flat[1] = seqs[1]
  BY <1>8
<1>15. Flattens(S, n, seqs, flat)
  BY <1>1, <1>12, <1>13, <1>14 DEF Flattens
<1> QED BY <1>15
=============================================================================
