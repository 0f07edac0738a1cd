-------------------------- MODULE MavlinkFraming --------------------------
(***************************************************************************)
(* The MAVLink framing: one byte at a time through the states of           *)
(* frame_char, the resynchronisation of parse_char and what process reads  *)
(* of the payload.  The header, the payload and the signature are shorter  *)
(* than on the line; the states, and the order they follow in, are the     *)
(* code's.                                                                 *)
(***************************************************************************)
EXTENDS SerialBytes

CONSTANTS
  StxV2, StxV1,      (* the two start bytes                                  *)
  SignedFlag,        (* IFLAG_SIGNED; the only flag of IFLAG_MASK            *)
  SignatureLen,      (* SIGNATURE_BLOCK_LEN                                  *)
  MaxPayload,        (* MAX_PAYLOAD_LEN, the largest value of a byte         *)
  MaxLen,            (* msg_entry: the longest payload of each known message *)
  BasicId,           (* OPEN_DRONE_ID_BASIC_ID, whose text starts            *)
  IdOffset, MaxStr   (* after IdOffset bytes and has MaxStr at most          *)

(* The text of an ID starts within its message and has room for all of it. *)
ASSUME MavlinkAssumption ==
  /\ StxV1 # StxV2 /\ SignedFlag # 0
  /\ SignatureLen \in Nat \ {0} /\ MaxPayload \in Nat \ {0}
  /\ {StxV2, StxV1, SignedFlag} \subseteq 0 .. MaxPayload
  /\ DOMAIN MaxLen \subseteq 0 .. MaxPayload /\ MaxLen \in [DOMAIN MaxLen -> 0 .. MaxPayload]
  /\ IdOffset \in Nat /\ MaxStr \in Nat
  /\ BasicId \in DOMAIN MaxLen =>
       IdOffset < MaxLen[BasicId] /\ MaxLen[BasicId] <= IdOffset + MaxStr

Known(msgid) == msgid[2] = 0 /\ msgid[3] = 0 /\ msgid[1] \in DOMAIN MaxLen

(* A new parser; taken is what process read of the last accepted frame. *)
MavlinkNew ==
  [state |-> "Idle", v1 |-> FALSE, len |-> 0, idx |-> 0, signed |-> FALSE,
   msgid |-> <<0, 0, 0>>, sum |-> <<>>, payload |-> [i \in 1 .. MaxPayload |-> 0],
   wait |-> 0, result |-> "Incomplete", taken |-> <<>>]

-----------------------------------------------------------------------------
(* frame_char. *)

Started(p, v1) == [p EXCEPT !.state = "GotStx", !.len = 0, !.v1 = v1, !.sum = <<>>]

Moved(p, c, to) == [p EXCEPT !.state = to, !.sum = Append(@, c.v)]

(* The header bytes that are only summed up. *)
Follows ==
  [GotIncompatFlags |-> "GotCompatFlags", GotCompatFlags |-> "GotSeq",
   GotSeq |-> "GotSysid", GotSysid |-> "GotCompid"]

AfterHeader(p) == IF p.len > 0 THEN "GotMsgid3" ELSE "GotPayload"

Header(p, c) ==
  CASE p.state = "GotStx" ->
         [Moved(p, c, IF p.v1 THEN "GotCompatFlags" ELSE "GotLength")
            EXCEPT !.len = c.v, !.idx = 0, !.signed = @ /\ ~p.v1]
    [] p.state = "GotLength" ->
         IF c.v \in {0, SignedFlag}
         THEN [Moved(p, c, "GotIncompatFlags") EXCEPT !.signed = (c.v = SignedFlag)]
         ELSE [p EXCEPT !.state = "Idle"]
    [] p.state \in DOMAIN Follows -> Moved(p, c, Follows[p.state])
    [] p.state = "GotCompid" ->
         [Moved(p, c, IF p.v1 THEN AfterHeader(p) ELSE "GotMsgid1") EXCEPT !.msgid = <<c.v, 0, 0>>]
    [] p.state = "GotMsgid1" -> [Moved(p, c, "GotMsgid2") EXCEPT !.msgid[2] = c.v]
    [] p.state = "GotMsgid2" -> [Moved(p, c, AfterHeader(p)) EXCEPT !.msgid[3] = c.v]

Body(p, c) ==
  [Moved(p, c, IF p.idx + 1 = p.len THEN "GotPayload" ELSE "GotMsgid3")
     EXCEPT !.payload[p.idx + 1] = c.v, !.idx = @ + 1]

(* Mutant: what an earlier frame left behind the payload is kept. *)
ZeroFilledNot(p) == p.payload

(* Short payloads are filled up to the length of the message. *)
ZeroFilled(p) ==
  [i \in DOMAIN p.payload |->
     IF i > p.idx /\ i <= MaxLen[p.msgid[1]] THEN 0 ELSE p.payload[i]]

(* The checksum is also of a number that belongs to the message. *)
FirstCheck(p, c) ==
  IF ~Known(p.msgid) THEN [p EXCEPT !.state = "GotBadCrc1"]
  ELSE LET q == [p EXCEPT !.sum = Append(@, p.msgid[1])]
       IN  [q EXCEPT !.state = IF Matches(c, q.sum, 1) THEN "GotCrc1" ELSE "GotBadCrc1",
                     !.payload = ZeroFilled(p)]

Ended(p, good) == [p EXCEPT !.state = "Idle", !.result = IF good THEN "Ok" ELSE "BadCrc"]

SecondCheck(p, c) ==
  LET good == p.state = "GotCrc1" /\ Matches(c, p.sum, 2)
  IN  IF p.signed
      THEN [p EXCEPT !.state = IF good THEN "SignatureWait" ELSE "SignatureWaitBadCrc",
                     !.wait = SignatureLen]
      ELSE Ended(p, good)

(* The signature is waited for and not checked. *)
Signature(p) ==
  IF p.wait = 1 THEN [Ended(p, p.state = "SignatureWait") EXCEPT !.wait = 0]
                ELSE [p EXCEPT !.wait = @ - 1]

FrameChar(q, c) ==
  LET p == [q EXCEPT !.result = "Incomplete"]
  IN  CASE p.state = "Idle" ->
             IF c.v \in {StxV2, StxV1} THEN Started(p, c.v = StxV1) ELSE p
        [] p.state = "GotMsgid3"  -> Body(p, c)
        [] p.state = "GotPayload" -> FirstCheck(p, c)
        [] p.state \in {"GotCrc1", "GotBadCrc1"} -> SecondCheck(p, c)
        [] p.state \in {"SignatureWait", "SignatureWaitBadCrc"} -> Signature(p)
        [] OTHER -> Header(p, c)

-----------------------------------------------------------------------------
(* parse_char and feed. *)

(* The number of characters of a BASIC_ID.  A version 2 frame comes        *)
(* without its trailing zeros: when the text is empty the subtraction      *)
(* wraps (the release profile has no overflow checks), and MaxStr are read.*)
IdLength(len) == IF len < IdOffset \/ len - IdOffset > MaxStr THEN MaxStr ELSE len - IdOffset

(* What process reads: the ID, or the fields of another message. *)
Reading(p) ==
  IF p.msgid[1] = BasicId
  THEN UpToNul(SubSeq(p.payload, IdOffset + 1, IdOffset + IdLength(p.len)))
  ELSE SubSeq(p.payload, 1, MaxLen[p.msgid[1]])

(* Mutant: a frame that is refused leaves the parser where it was. *)
ParseCharStuck(q, c) ==
  LET p == FrameChar(q, c)
  IN  IF p.result = "BadCrc" THEN [p EXCEPT !.state = "GotStx"]
      ELSE IF p.result = "Ok" THEN [p EXCEPT !.taken = <<p.msgid[1], Reading(p)>>]
      ELSE p

(* A frame that is refused is dropped; when its last byte is a start byte  *)
(* of version 2 the next frame begins there, and is read in the version of *)
(* the refused one.                                                        *)
ParseChar(q, c) ==
  LET p == FrameChar(q, c)
  IN  IF p.result = "BadCrc"
      THEN IF c.v = StxV2 THEN Started(p, p.v1) ELSE p
      ELSE IF p.result = "Ok" THEN [p EXCEPT !.taken = <<p.msgid[1], Reading(p)>>]
      ELSE p

-----------------------------------------------------------------------------
(* The sender: m has a version, flags, a sequence number, a message, a     *)
(* payload and the values its two checksum bytes happen to have.           *)

(* A byte of the line, and a frame there can be: no longer than its length *)
(* byte can say and than its message is; only version 2 has signatures.    *)
MavlinkByte == {c \in Byte : c.v <= MaxPayload}

MavlinkFrame ==
  {m \in [v1 : BOOLEAN, signed : BOOLEAN, seq : 0 .. MaxPayload, msgid : 0 .. MaxPayload,
          payload : Seq(0 .. MaxPayload), check : [1 .. 2 -> 0 .. MaxPayload]] :
     /\ Len(m.payload) <= MaxPayload /\ ~(m.v1 /\ m.signed)
     /\ m.msgid \in DOMAIN MaxLen => Len(m.payload) <= MaxLen[m.msgid]}

MavlinkBytes(m) ==
  LET len  == Len(m.payload)
      body == (IF m.v1 THEN <<len, m.seq, 1, 1, m.msgid>>
                       ELSE <<len, IF m.signed THEN SignedFlag ELSE 0, 0, m.seq, 1, 1, m.msgid, 0, 0>>)
                \o m.payload
      sum  == Append(body, m.msgid)
  IN  <<Plain(IF m.v1 THEN StxV1 ELSE StxV2)>> \o Plains(body)
        \o <<Check(m.check[1], sum, 1), Check(m.check[2], sum, 2)>>
        \o (IF m.signed THEN Plains([i \in 1 .. SignatureLen |-> 1]) ELSE <<>>)

(* What the receiver is to make of it. *)
MavlinkMeans(m) ==
  <<m.msgid, IF m.msgid = BasicId THEN UpToNul(SubSeq(m.payload, IdOffset + 1, Len(m.payload)))
             ELSE m.payload \o [i \in 1 .. MaxLen[m.msgid] - Len(m.payload) |-> 0]>>
=============================================================================
