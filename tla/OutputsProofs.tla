------------------------- MODULE OutputsProofs ---------------------------
(***************************************************************************)
(* What the transmitter guarantees for every number of pages, every room   *)
(* in a pack and every width of the rotation counter, whatever the encoder *)
(* refuses; what the lights tell, for every table of position lights; that *)
(* a host reads the telemetry, for every message table and cut; and that a *)
(* receiver reads the frames and adverts of the radios, for every name and *)
(* all messages.                                                           *)
(***************************************************************************)
EXTENDS Outputs, MavlinkProofs, FiniteSetTheorems

Typed ==
  /\ region \in RegionChoices /\ fields \in SUBSET Optional
  /\ received \in SUBSET (0 .. AuthMaxPages - 1) /\ last_page \in 0 .. AuthMaxPages
  /\ rotation \in 0 .. RotMod - 1
  /\ since \in [Messages -> 0 .. 2 * PackMax]

-----------------------------------------------------------------------------
(* The list of valid messages. *)

One(b) == IF b THEN 1 ELSE 0

(* A part of the list that is there when its field is set.                 *)
LEMMA IfSetPart ==
  ASSUME NEW f, NEW name \in Optional
  PROVE  /\ IfSet(f, name) \in Seq(Messages)
         /\ Len(IfSet(f, name)) = One(name \in f)
         /\ Range(IfSet(f, name)) = IF name \in f THEN {<<name, 0>>} ELSE {}
  BY DEF IfSet, One, Messages, Range

(* A region only takes fields away.                                        *)
LEMMA GatedOptional ==
  ASSUME Typed
  PROVE  Gated(fields, region) \in SUBSET Optional
  BY DEF Typed, Gated

(* The room that is kept for what is not a page.                           *)
LEMMA FixedCounted ==
  ASSUME NEW f \in SUBSET Optional
  PROVE  FixedMessages(f) = 4 + One("basic_id_2" \in f) + One("self_id" \in f)
<1> DEFINE two == f \cap {"basic_id_2", "self_id"}
<1>1. IsFiniteSet({}) /\ Cardinality({}) = 0
  BY FS_EmptySet
<1>2. /\ IsFiniteSet({"basic_id_2"}) /\ Cardinality({"basic_id_2"}) = 1
      /\ IsFiniteSet({"self_id"}) /\ Cardinality({"self_id"}) = 1
  BY FS_Singleton
<1>3. Cardinality({"basic_id_2"} \cup {"self_id"}) = 2
  BY <1>2, FS_AddElement
<1>4. CASE "basic_id_2" \in f /\ "self_id" \in f
  <2>1. two = {"basic_id_2"} \cup {"self_id"}
    BY <1>4
  <2> QED BY <1>3, <1>4, <2>1 DEF FixedMessages, One
<1>5. CASE "basic_id_2" \in f /\ "self_id" \notin f
  <2>1. two = {"basic_id_2"}
    BY <1>5
  <2> QED BY <1>2, <1>5, <2>1 DEF FixedMessages, One
<1>6. CASE "basic_id_2" \notin f /\ "self_id" \in f
  <2>1. two = {"self_id"}
    BY <1>6
  <2> QED BY <1>2, <1>6, <2>1 DEF FixedMessages, One
<1>7. CASE "basic_id_2" \notin f /\ "self_id" \notin f
  <2>1. two = {}
    BY <1>7
  <2> QED BY <1>1, <1>7, <2>1 DEF FixedMessages, One
<1> QED BY <1>4, <1>5, <1>6, <1>7

(* A signature is taken in whole, when it fits beside the rest.            *)
LEMMA AuthCountCases ==
  ASSUME Typed, NEW f \in SUBSET Optional
  PROVE  /\ AuthCount(f) \in 0 .. AuthMaxPages
         /\ AuthCount(f) # 0 =>
              /\ AuthCount(f) = last_page + 1 /\ 0 .. last_page \subseteq received
              /\ AuthCount(f) + FixedMessages(f) <= PackMax
<1>1. FixedMessages(f) \in Nat /\ PackMax \in Nat /\ AuthMaxPages \in Nat
  BY FixedCounted, TransmitterAssumption DEF One
<1>2. /\ ResolveAuth \in 0 .. AuthMaxPages
      /\ ResolveAuth # 0 => ResolveAuth = last_page + 1 /\ 0 .. last_page \subseteq received
  BY <1>1 DEF ResolveAuth, Typed
<1> HIDE DEF FixedMessages
<1> QED BY <1>1, <1>2 DEF AuthCount

(* The range of two sequences one after the other.                         *)
LEMMA RangeConcat ==
  ASSUME NEW s \in Seq(Messages), NEW t \in Seq(Messages)
  PROVE  /\ s \o t \in Seq(Messages) /\ Len(s \o t) = Len(s) + Len(t)
         /\ Range(s \o t) = Range(s) \cup Range(t)
<1>1. s \o t \in Seq(Messages) /\ Len(s \o t) = Len(s) + Len(t)
  OBVIOUS
<1>2. \A i \in 1 .. Len(s \o t) :
        (s \o t)[i] = IF i <= Len(s) THEN s[i] ELSE t[i - Len(s)]
  OBVIOUS
<1>3. Range(s \o t) \subseteq Range(s) \cup Range(t)
  BY <1>1, <1>2 DEF Range
<1>4. ASSUME NEW i \in 1 .. Len(s) PROVE s[i] \in Range(s \o t)
  <2>1. i \in 1 .. Len(s \o t) /\ (s \o t)[i] = s[i]
    BY <1>1, <1>2
  <2> QED BY <1>1, <2>1 DEF Range
<1>5. ASSUME NEW i \in 1 .. Len(t) PROVE t[i] \in Range(s \o t)
  <2>1. i + Len(s) \in 1 .. Len(s \o t) /\ (s \o t)[i + Len(s)] = t[i]
    BY <1>1, <1>2
  <2> QED BY <1>1, <2>1 DEF Range
<1>6. /\ Range(s) = {s[i] : i \in 1 .. Len(s)} /\ Range(t) = {t[i] : i \in 1 .. Len(t)}
  BY DEF Range
<1>7. Range(s) \subseteq Range(s \o t) /\ Range(t) \subseteq Range(s \o t)
  BY <1>4, <1>5, <1>6
<1> QED BY <1>1, <1>3, <1>7

(* The first n pages.                                                      *)
LEMMA PagesTaken ==
  ASSUME NEW n \in 0 .. AuthMaxPages
  PROVE  /\ SubSeq(AuthPages, 1, n) \in Seq(Messages)
         /\ Len(SubSeq(AuthPages, 1, n)) = n
         /\ Range(SubSeq(AuthPages, 1, n)) = {<<"auth", p>> : p \in 0 .. n - 1}
<1> DEFINE s == SubSeq(AuthPages, 1, n)
<1>1. AuthMaxPages \in Nat /\ AuthPages \in Seq(Messages) /\ Len(AuthPages) = AuthMaxPages
  <2>1. AuthMaxPages \in Nat
    BY TransmitterAssumption
  <2>2. AuthPages \in [1 .. AuthMaxPages -> Messages]
    BY DEF AuthPages, Messages, Range
  <2> QED BY <2>1, <2>2
<1>2. s \in Seq(Messages) /\ Len(s) = n /\ \A i \in 1 .. n : s[i] = <<"auth", i - 1>>
  BY <1>1 DEF AuthPages
<1>3. Range(s) = {<<"auth", i - 1>> : i \in 1 .. n}
  <2> HIDE DEF s
  <2>1. DOMAIN s = 1 .. n
    BY <1>2
  <2>2. Range(s) = {s[i] : i \in 1 .. n}
    BY <2>1 DEF Range
  <2> QED BY <1>2, <2>2
<1>4. {<<"auth", i - 1>> : i \in 1 .. n} = {<<"auth", p>> : p \in 0 .. n - 1}
  <2>1. \A p \in 0 .. n - 1 : p + 1 \in 1 .. n /\ (p + 1) - 1 = p
    OBVIOUS
  <2>2. \A i \in 1 .. n : i - 1 \in 0 .. n - 1
    OBVIOUS
  <2> QED BY <2>1, <2>2
<1> QED BY <1>2, <1>3, <1>4

(* How long the list is, and which pages are in it: the room of a pack is  *)
(* never exceeded, because the signature yields to the rest.               *)
LEMMA ValidMessagesFit ==
  ASSUME Typed
  PROVE  LET n == AuthCount(Gated(fields, region))
         IN  /\ ValidMessages \in Seq(Messages)
             /\ Len(ValidMessages) \in 1 .. PackMax
             /\ \A p \in Nat : <<"auth", p>> \in Range(ValidMessages) <=> p \in 0 .. n - 1
<1> DEFINE f == Gated(fields, region)
           n == AuthCount(f)
           a == <<BasicIdMsg>>
           b == IfSet(f, "basic_id_2")
           c == <<LocationMsg>>
           d == SubSeq(AuthPages, 1, n)
           e == IfSet(f, "self_id")
           g == <<SystemMsg>>
           h == IfSet(f, "operator_id")
<1>1. f \in SUBSET Optional /\ {"basic_id_2", "self_id", "operator_id"} \subseteq Optional
  BY GatedOptional DEF Optional
<1>2. n \in 0 .. AuthMaxPages /\ n \in Nat
  BY <1>1, AuthCountCases, TransmitterAssumption
<1>3. /\ a \in Seq(Messages) /\ Len(a) = 1 /\ Range(a) = {BasicIdMsg}
      /\ c \in Seq(Messages) /\ Len(c) = 1 /\ Range(c) = {LocationMsg}
      /\ g \in Seq(Messages) /\ Len(g) = 1 /\ Range(g) = {SystemMsg}
  <2>1. ASSUME NEW m \in Messages
        PROVE  <<m>> \in Seq(Messages) /\ Len(<<m>>) = 1 /\ Range(<<m>>) = {m}
    <3>1. DOMAIN <<m>> = {1} /\ <<m>>[1] = m
      OBVIOUS
    <3> QED BY <3>1 DEF Range
  <2>2. {BasicIdMsg, LocationMsg, SystemMsg} \subseteq Messages
    BY DEF Messages
  <2> QED BY <2>1, <2>2
<1>4. /\ b \in Seq(Messages) /\ Len(b) = One("basic_id_2" \in f)
      /\ Range(b) \subseteq {<<"basic_id_2", 0>>}
      /\ e \in Seq(Messages) /\ Len(e) = One("self_id" \in f)
      /\ Range(e) \subseteq {<<"self_id", 0>>}
      /\ h \in Seq(Messages) /\ Len(h) = One("operator_id" \in f)
      /\ Range(h) \subseteq {<<"operator_id", 0>>}
  BY <1>1, IfSetPart
<1>5. d \in Seq(Messages) /\ Len(d) = n /\ Range(d) = {<<"auth", p>> : p \in 0 .. n - 1}
  BY <1>2, PagesTaken
<1>6. ValidMessages = a \o b \o c \o d \o e \o g \o h
  BY DEF ValidMessages
<1> HIDE DEF a, b, c, d, e, g, h, f, n
<1>7. /\ a \o b \o c \o d \o e \o g \o h \in Seq(Messages)
      /\ Len(a \o b \o c \o d \o e \o g \o h)
           = Len(a) + Len(b) + Len(c) + Len(d) + Len(e) + Len(g) + Len(h)
      /\ Range(a \o b \o c \o d \o e \o g \o h)
           = Range(a) \cup Range(b) \cup Range(c) \cup Range(d) \cup Range(e) \cup Range(g) \cup Range(h)
  <2>1. /\ a \o b \in Seq(Messages) /\ Len(a \o b) = Len(a) + Len(b)
        /\ Range(a \o b) = Range(a) \cup Range(b)
    BY <1>3, <1>4, RangeConcat
  <2> DEFINE u == a \o b
  <2>2. /\ u \o c \in Seq(Messages) /\ Len(u \o c) = Len(u) + Len(c)
        /\ Range(u \o c) = Range(u) \cup Range(c)
    BY <1>3, <2>1, RangeConcat
  <2> DEFINE v == u \o c
  <2>3. /\ v \o d \in Seq(Messages) /\ Len(v \o d) = Len(v) + Len(d)
        /\ Range(v \o d) = Range(v) \cup Range(d)
    BY <1>5, <2>2, RangeConcat
  <2> DEFINE w == v \o d
  <2>4. /\ w \o e \in Seq(Messages) /\ Len(w \o e) = Len(w) + Len(e)
        /\ Range(w \o e) = Range(w) \cup Range(e)
    BY <1>4, <2>3, RangeConcat
  <2> DEFINE x == w \o e
  <2>5. /\ x \o g \in Seq(Messages) /\ Len(x \o g) = Len(x) + Len(g)
        /\ Range(x \o g) = Range(x) \cup Range(g)
    BY <1>3, <2>4, RangeConcat
  <2> DEFINE y == x \o g
  <2>6. /\ y \o h \in Seq(Messages) /\ Len(y \o h) = Len(y) + Len(h)
        /\ Range(y \o h) = Range(y) \cup Range(h)
    BY <1>4, <2>5, RangeConcat
  <2> QED BY <2>1, <2>2, <2>3, <2>4, <2>5, <2>6
<1>8. Len(ValidMessages) \in 1 .. PackMax
  <2>1. Len(ValidMessages) = 3 + n + One("basic_id_2" \in f) + One("self_id" \in f) + One("operator_id" \in f)
    BY <1>2, <1>3, <1>4, <1>5, <1>6, <1>7 DEF One
  <2>2. FixedMessages(f) = 4 + One("basic_id_2" \in f) + One("self_id" \in f)
    BY <1>1, FixedCounted
  <2>3. n # 0 => n + FixedMessages(f) <= PackMax
    BY <1>1, AuthCountCases DEF n
  <2>4. PackMax \in Nat /\ 6 <= PackMax
    BY TransmitterAssumption
  <2> QED BY <1>2, <2>1, <2>2, <2>3, <2>4 DEF One
<1>9. ASSUME NEW p \in Nat
      PROVE  <<"auth", p>> \in Range(ValidMessages) <=> p \in 0 .. n - 1
  <2>1. <<"auth", p>> \in Range(ValidMessages) <=> <<"auth", p>> \in Range(d)
    BY <1>3, <1>4, <1>6, <1>7 DEF BasicIdMsg, LocationMsg, SystemMsg
  <2> QED BY <1>5, <2>1
<1> QED BY <1>6, <1>7, <1>8, <1>9 DEF n, f

-----------------------------------------------------------------------------
(* The first state is typed,                                               *)
LEMMA TypedAtStart ==
  ASSUME Init
  PROVE  Typed
  BY TransmitterAssumption DEF Init, Typed

(* every step keeps it so,                                                 *)
LEMMA TypedKept ==
  ASSUME Typed, [Next]_vars
  PROVE  Typed'
<1> USE DEF Typed
<1>1. RotMod \in Nat \ {0} /\ PackMax \in Nat /\ AuthMaxPages \in Nat /\ 0 \in 0 .. RotMod - 1
  BY TransmitterAssumption
<1>2. ASSUME Recount PROVE since' \in [Messages -> 0 .. 2 * PackMax]
  BY <1>1, <1>2 DEF Recount
<1>3. CASE Ble4
  <2>1. \A r \in 0 .. RotMod - 1 : RotationAfter(r) \in 0 .. RotMod - 1
    BY <1>1, ModBounded DEF RotationAfter
  <2>2. rotation' \in 0 .. RotMod - 1
    BY <1>1, <1>3, <2>1 DEF Ble4
  <2>3. since' \in [Messages -> 0 .. 2 * PackMax]
    BY <1>1, <1>3 DEF Ble4
  <2> QED BY <1>3, <2>2, <2>3 DEF Ble4, identityVars
<1>4. CASE SendPack
  BY <1>4 DEF SendPack, identityVars
<1>5. ASSUME NEW page \in 0 .. AuthMaxPages, NEW last \in 0 .. AuthMaxPages, AuthPage(page, last)
      PROVE  Typed'
  <2>1. CASE page < AuthMaxPages
    <3>1. page \in 0 .. AuthMaxPages - 1
      BY <1>1, <2>1
    <3>2. received' = received \cup {page} /\ last_page' = last
      BY <1>5, <2>1 DEF AuthPage
    <3> QED BY <1>2, <1>5, <3>1, <3>2 DEF AuthPage
  <2>2. CASE ~(page < AuthMaxPages)
    BY <1>2, <1>5, <2>2 DEF AuthPage
  <2> QED BY <2>1, <2>2
<1>6. ASSUME NEW f \in SUBSET Optional, SetIdentity(f) PROVE Typed'
  BY <1>2, <1>6 DEF SetIdentity
<1>7. ASSUME NEW bad \in RefusedChoices, SetRefused(bad) PROVE Typed'
  BY <1>2, <1>7 DEF SetRefused
<1>8. ASSUME NEW r \in RegionChoices, SetRegion(r) PROVE Typed'
  BY <1>2, <1>8 DEF SetRegion
<1>9. CASE UNCHANGED vars
  BY <1>9 DEF vars, identityVars
<1> QED BY <1>3, <1>4, <1>5, <1>6, <1>7, <1>8, <1>9 DEF Next

(* and so it always is.                                                    *)
LEMMA AlwaysTyped == Spec => []Typed
  BY TypedAtStart, TypedKept, PTL DEF Spec

-----------------------------------------------------------------------------
(* A pack that is full before the last valid message never happens: there  *)
(* are not more valid messages than places.                                *)
LEMMA NeverTooMany ==
  ASSUME Typed
  PROVE  ~TooMany
<1>1. ASSUME NEW n \in 1 .. Len(ValidMessages)
      PROVE  ~(Cardinality(EncodedOf(n - 1)) >= PackMax)
  <2>1. n - 1 \in Int /\ n - 1 < PackMax /\ ~(1 > n) /\ PackMax \in Nat
    BY ValidMessagesFit, TransmitterAssumption
  <2> DEFINE places == 1 .. (n - 1)
  <2>2. IsFiniteSet(places) /\ Cardinality(places) = IF 1 > n - 1 THEN 0 ELSE n - 1 - 1 + 1
    BY <2>1, FS_Interval
  <2>3. EncodedOf(n - 1) \in SUBSET places
    BY DEF EncodedOf
  <2> HIDE DEF places
  <2>4. Cardinality(EncodedOf(n - 1)) <= Cardinality(places) /\ IsFiniteSet(EncodedOf(n - 1))
    BY <2>2, <2>3, FS_Subset
  <2>5. Cardinality(EncodedOf(n - 1)) \in Nat
    BY <2>4, FS_CardinalityType
  <2> QED BY <2>1, <2>2, <2>4, <2>5
<1> QED BY <1>1 DEF TooMany

(* Whatever the optional fields, the pages received and the room in a      *)
(* pack, no pack is rejected for its length.                               *)
THEOREM PacksNeverOverflow == Spec => []PackNeverOverflows
<1>1. Init => PackNeverOverflows
  BY DEF Init, PackNeverOverflows, Silent
<1>2. Typed /\ PackNeverOverflows /\ [Next]_vars => PackNeverOverflows'
  <2> SUFFICES ASSUME Typed, PackNeverOverflows, [Next]_vars PROVE PackNeverOverflows'
    OBVIOUS
  <2>1. CASE Ble4
    BY <2>1 DEF Ble4, PackNeverOverflows
  <2>2. CASE SendPack
    BY <2>2, NeverTooMany DEF SendPack, PackResult, PackNeverOverflows
  <2>3. CASE Recount
    BY <2>3 DEF Recount, Silent, PackNeverOverflows
  <2>4. CASE UNCHANGED vars
    BY <2>4 DEF vars, PackNeverOverflows
  <2> QED BY <2>1, <2>2, <2>3, <2>4 DEF Next, AuthPage, SetIdentity, SetRefused, SetRegion
<1> QED BY <1>1, <1>2, AlwaysTyped, PTL DEF Spec

(* A signature is in the list of valid messages whole or not at all.       *)
THEOREM SignaturesAreWhole == Spec => []SignatureWhole
<1>1. Typed => SignatureWhole
  <2> SUFFICES ASSUME Typed PROVE SignatureWhole
    OBVIOUS
  <2> DEFINE f == Gated(fields, region)
             n == AuthCount(f)
             pages == {p \in 0 .. AuthMaxPages : <<"auth", p>> \in Range(ValidMessages)}
  <2>1. /\ n \in 0 .. AuthMaxPages /\ AuthMaxPages \in Nat /\ last_page \in Nat
        /\ n # 0 => n = last_page + 1 /\ 0 .. last_page \subseteq received
    BY GatedOptional, AuthCountCases, TransmitterAssumption DEF Typed
  <2>2. \A p \in Nat : <<"auth", p>> \in Range(ValidMessages) <=> p \in 0 .. n - 1
    BY ValidMessagesFit
  <2> HIDE DEF n
  <2>3. pages = {p \in 0 .. AuthMaxPages : p \in 0 .. n - 1}
    BY <2>1, <2>2
  <2>4. n = 0 => pages = {}
    <3>1. n = 0 => 0 .. n - 1 = {}
      OBVIOUS
    <3> QED BY <2>3, <3>1
  <2>5. n # 0 => pages = 0 .. last_page
    BY <2>1, <2>3
  <2> QED BY <2>1, <2>4, <2>5 DEF SignatureWhole
<1> QED BY <1>1, AlwaysTyped, PTL

-----------------------------------------------------------------------------
(* How long the message at place k may have waited when the counter is at  *)
(* r: since its turn in this round, in the one before, or in the one       *)
(* before the counter wrapped.                                             *)
WaitBound(k, r, turn) ==
  IF r <= k THEN r + turn - 1
  ELSE IF r % turn > k THEN (r % turn) - 1 - k
  ELSE (r % turn) + turn - 1 - k

TurnsKept ==
  \A i \in 1 .. Len(ValidMessages) :
    Encodes(ValidMessages[i]) =>
      since[ValidMessages[i]] <= WaitBound(i - 1, rotation, Len(ValidMessages))

(* One cycle later the bound has grown by one, unless it is the message's  *)
(* own turn: through the end of a round and the wrap of the counter.       *)
LEMMA WaitGrows ==
  ASSUME NEW turn \in Nat \ {0}, NEW r \in 0 .. RotMod - 1, NEW k \in 0 .. turn - 1,
         turn <= RotMod, r % turn # k
  PROVE  WaitBound(k, r, turn) + 1 <= WaitBound(k, RotationAfter(r), turn)
<1>1. /\ RotMod \in Nat \ {0} /\ r \in Nat /\ turn \in Nat \ {0} /\ k \in Nat
      /\ k <= turn - 1 /\ r <= RotMod - 1
  BY TransmitterAssumption
<1>2. r % turn \in 0 .. turn - 1
  BY <1>1, ModBounded
<1>3. (r + 1) % turn = IF r % turn = turn - 1 THEN 0 ELSE (r % turn) + 1
  BY <1>1, ModNext
<1>4. r < turn => r % turn = r
  BY <1>1, ModSmall
<1>5. RotationAfter(r) = IF r = RotMod - 1 THEN 0 ELSE r + 1
  BY <1>1, ModStep DEF RotationAfter
<1> DEFINE a == r % turn
           b == (r + 1) % turn
<1>6. /\ a \in Nat /\ a <= turn - 1 /\ a # k /\ (r < turn => a = r)
      /\ b = IF a = turn - 1 THEN 0 ELSE a + 1
  BY <1>1, <1>2, <1>3, <1>4
<1>7. WaitBound(k, r, turn) =
        IF r <= k THEN r + turn - 1 ELSE IF a > k THEN a - 1 - k ELSE a + turn - 1 - k
  BY DEF WaitBound
<1>8. CASE r = RotMod - 1
  <2>1. RotationAfter(r) = 0
    BY <1>5, <1>8
  <2>2. WaitBound(k, 0, turn) = turn - 1
    BY <1>1 DEF WaitBound
  <2>3. ~(r <= k)
    <3> HIDE DEF a, b
    <3> QED BY <1>1, <1>6, <1>8
  <2> HIDE DEF a, b
  <2> QED BY <1>1, <1>6, <1>7, <2>1, <2>2, <2>3
<1>9. CASE r # RotMod - 1
  <2>1. WaitBound(k, RotationAfter(r), turn) =
          IF r + 1 <= k THEN r + 1 + turn - 1
          ELSE IF b > k THEN b - 1 - k ELSE b + turn - 1 - k
    BY <1>5, <1>9 DEF WaitBound
  <2> HIDE DEF a, b
  <2> QED BY <1>1, <1>6, <1>7, <1>9, <2>1
<1> QED BY <1>8, <1>9

(* No bound is negative, and none reaches two rounds.                      *)
LEMMA WaitRange ==
  ASSUME NEW turn \in Nat \ {0}, NEW r \in 0 .. RotMod - 1, NEW k \in 0 .. turn - 1
  PROVE  WaitBound(k, r, turn) \in 0 .. 2 * turn - 2
<1>1. r % turn \in 0 .. turn - 1 /\ RotMod \in Nat
  BY ModBounded, TransmitterAssumption
<1> DEFINE a == r % turn
<1> HIDE DEF a
<1> QED BY <1>1 DEF WaitBound, a

(* One cycle of BLE 4 sends the message whose turn it is, and lets every   *)
(* other one that can be sent wait at most one cycle longer.               *)
LEMMA CycleSends ==
  ASSUME KeepsRotation, Typed, Ble4, NEW i \in 1 .. Len(ValidMessages), Encodes(ValidMessages[i])
  PROVE  /\ since'[ValidMessages[i]] \in {0, since[ValidMessages[i]], since[ValidMessages[i]] + 1}
         /\ rotation % Len(ValidMessages) = i - 1 => since'[ValidMessages[i]] = 0
<1>1. ValidMessages \in Seq(Messages) /\ ValidMessages[i] \in Messages
  BY ValidMessagesFit
<1>2. since' = [m \in Messages |->
                  IF m \in NextMessage(rotation) \/ ~Valid(m) \/ ~Encodes(m) THEN 0
                  ELSE IF since[m] = 2 * PackMax THEN since[m] ELSE since[m] + 1]
  BY DEF Ble4
<1>3. rotation % Len(ValidMessages) = i - 1 => ValidMessages[i] \in NextMessage(rotation)
  <2> SUFFICES ASSUME rotation % Len(ValidMessages) = i - 1
               PROVE  ValidMessages[i] \in NextMessage(rotation)
    OBVIOUS
  <2>1. ValidMessages[(rotation % Len(ValidMessages)) + 1] = ValidMessages[i]
    BY ValidMessagesFit
  <2> QED BY <2>1 DEF NextMessage
<1> QED BY <1>1, <1>2, <1>3

(* The list fits in the next state too.                                    *)
ListFits == ValidMessages \in Seq(Messages) /\ Len(ValidMessages) \in 1 .. PackMax

(* In a typed state the list of valid messages fits into a pack,           *)
LEMMA ListAlwaysFits == Typed => ListFits
  BY ValidMessagesFit DEF ListFits

(* after the step as before it.                                            *)
LEMMA ListFitsNext == Typed' => ListFits'
  BY ListAlwaysFits, PTL

(* No step lets a waiting message fall behind by more than the list.       *)
LEMMA TurnsStayKept ==
  ASSUME KeepsRotation, Typed, TurnsKept, [Next]_vars
  PROVE  TurnsKept'
<1>1. Typed'
  BY TypedKept
<1>2. CASE Ble4
  <2>1. ValidMessages' = ValidMessages /\ refused' = refused /\ rotation' = RotationAfter(rotation)
    BY <1>2 DEF Ble4, identityVars, ValidMessages, AuthCount, ResolveAuth
  <2> DEFINE turn == Len(ValidMessages)
  <2>2. turn \in Nat \ {0} /\ turn <= RotMod
    BY ValidMessagesFit, TransmitterAssumption
  <2>3. rotation \in 0 .. RotMod - 1 /\ rotation' \in 0 .. RotMod - 1
    BY <1>1 DEF Typed
  <2> SUFFICES ASSUME NEW i \in 1 .. turn, Encodes(ValidMessages[i])
               PROVE  since'[ValidMessages[i]] <= WaitBound(i - 1, rotation', turn)
    BY <2>1 DEF TurnsKept, Encodes
  <2>4. i - 1 \in 0 .. turn - 1
    BY <2>2
  <2>5. WaitBound(i - 1, rotation', turn) \in 0 .. 2 * turn - 2
    BY <2>2, <2>3, <2>4, WaitRange
  <2>6. ValidMessages[i] \in Messages /\ since[ValidMessages[i]] \in Nat
    BY ValidMessagesFit DEF Typed
  <2>7. CASE rotation % turn = i - 1
    BY <1>2, <2>5, <2>7, CycleSends
  <2>8. CASE rotation % turn # i - 1
    <3>1. WaitBound(i - 1, rotation, turn) + 1 <= WaitBound(i - 1, rotation', turn)
      BY <2>1, <2>2, <2>3, <2>4, <2>8, WaitGrows
    <3>2. since[ValidMessages[i]] <= WaitBound(i - 1, rotation, turn)
      BY DEF TurnsKept
    <3>3. WaitBound(i - 1, rotation, turn) \in 0 .. 2 * turn - 2
      BY <2>2, <2>3, <2>4, WaitRange
    <3>4. since'[ValidMessages[i]] \in {0, since[ValidMessages[i]], since[ValidMessages[i]] + 1}
      BY <1>2, CycleSends
    <3> HIDE DEF turn
    <3> QED BY <2>2, <2>5, <2>6, <3>1, <3>2, <3>3, <3>4
  <2> QED BY <2>7, <2>8
<1>3. CASE SendPack \/ UNCHANGED vars
  <2>1. UNCHANGED <<ValidMessages, refused, rotation, since>>
    BY <1>3 DEF SendPack, vars, identityVars, ValidMessages, AuthCount, ResolveAuth
  <2> QED BY <2>1 DEF TurnsKept, Encodes
<1>4. CASE Recount /\ rotation' = rotation
  <2>1. CASE ValidMessages' = ValidMessages /\ refused' = refused
    BY <1>4, <2>1 DEF Recount, TurnsKept, Encodes
  <2>2. CASE ~(ValidMessages' = ValidMessages /\ refused' = refused)
    <3>1. since' = [m \in Messages |-> 0]
      BY <1>4, <2>2 DEF Recount
    <3> SUFFICES ASSUME NEW i \in 1 .. Len(ValidMessages)'
                 PROVE  since'[ValidMessages'[i]] <= WaitBound(i - 1, rotation', Len(ValidMessages)')
      BY DEF TurnsKept
    <3>2. /\ ValidMessages' \in Seq(Messages) /\ Len(ValidMessages)' \in Nat \ {0}
          /\ rotation' \in 0 .. RotMod - 1
      BY <1>1, ListFitsNext, TransmitterAssumption DEF Typed, ListFits
    <3>3. WaitBound(i - 1, rotation', Len(ValidMessages)') \in 0 .. 2 * Len(ValidMessages)' - 2
      BY <3>2, WaitRange
    <3>4. since'[ValidMessages'[i]] = 0
      BY <3>1, <3>2
    <3> QED BY <3>2, <3>3, <3>4
  <2> QED BY <2>1, <2>2
<1> QED BY <1>2, <1>3, <1>4 DEF Next, AuthPage, SetIdentity, SetRefused, SetRegion

(* A transmitter that keeps its counter sends every valid message that     *)
(* encodes within two rounds, for every width of the counter and every     *)
(* length of the list, whatever else the encoder refuses.                  *)
THEOREM MessagesTakeTurns == KeepsRotation => (Spec => []EveryMessageInTurn)
<1> SUFFICES ASSUME KeepsRotation PROVE Spec => []EveryMessageInTurn
  OBVIOUS
<1>1. Init => TurnsKept
  <2> SUFFICES ASSUME Init, NEW i \in 1 .. Len(ValidMessages)
               PROVE  since[ValidMessages[i]] <= WaitBound(i - 1, rotation, Len(ValidMessages))
    BY DEF TurnsKept
  <2>1. /\ ValidMessages \in Seq(Messages) /\ Len(ValidMessages) \in Nat \ {0}
        /\ rotation \in 0 .. RotMod - 1
    BY TypedAtStart, ValidMessagesFit, TransmitterAssumption DEF Typed
  <2>2. WaitBound(i - 1, rotation, Len(ValidMessages)) \in 0 .. 2 * Len(ValidMessages) - 2
    BY <2>1, WaitRange
  <2>3. since[ValidMessages[i]] = 0
    BY <2>1 DEF Init
  <2> QED BY <2>1, <2>2, <2>3
<1>2. Typed /\ TurnsKept => EveryMessageInTurn
  <2> SUFFICES ASSUME Typed, TurnsKept, NEW m \in Messages, Valid(m), Encodes(m)
               PROVE  since[m] <= 2 * Len(ValidMessages) - 2
    BY DEF EveryMessageInTurn
  <2>1. ValidMessages \in Seq(Messages) /\ Len(ValidMessages) \in Nat \ {0}
    BY ValidMessagesFit, TransmitterAssumption
  <2>2. PICK i \in 1 .. Len(ValidMessages) : ValidMessages[i] = m
    BY <2>1 DEF Valid, Range
  <2>3. WaitBound(i - 1, rotation, Len(ValidMessages)) \in 0 .. 2 * Len(ValidMessages) - 2
    BY <2>1, WaitRange DEF Typed
  <2>4. since[m] <= WaitBound(i - 1, rotation, Len(ValidMessages)) /\ since[m] \in Nat
    BY <2>2 DEF TurnsKept, Typed
  <2> QED BY <2>1, <2>3, <2>4
<1>3. Typed /\ TurnsKept /\ [Next]_vars => TurnsKept'
  BY TurnsStayKept
<1> QED BY <1>1, <1>2, <1>3, AlwaysTyped, PTL DEF Spec

-----------------------------------------------------------------------------
(* The lights. *)

(* The colours of a state that blinks, tick by tick.                       *)
Shown(s) == [k \in 0 .. Cycle - 1 |-> Blink(s, k)]

(* What was seen, w, is what G shows from tick t on, up to tick now.           *)
SeenFrom(w, S, G, t, now) ==
  /\ w \in Seq(S) /\ t \in 0 .. Cycle - 1
  /\ (t + Len(w)) % Cycle = now
  /\ \A i \in 1 .. Len(w) : w[i] = G[(t + i) % Cycle]

(* What was seen, w, is a pulse of colour c, up to the time now.            *)
SeenPulse(w, c, now) ==
  /\ w \in Seq({c, "black"})
  /\ \A i \in 1 .. Len(w) - 1 : w[i] = c \/ w[i + 1] = c
  /\ (w # <<>> /\ ~(w[Len(w)] = c)) => ~PulseLit(now)

(* What is kept of the light since it last changed is a piece of the       *)
(* pattern of its state that ends with the present tick: by the ticks if   *)
(* it blinks, by the clock if it pulses.                                   *)
WatchInv ==
  /\ led_state \in LedStates /\ tick_count \in 0 .. Cycle - 1 /\ pins \in PinConfigs
  /\ now_ms \in 0 .. ClockSpan - 1
  /\ IF Pulses(led_state) THEN SeenPulse(watched, Color(led_state), now_ms)
     ELSE \E S, t : SeenFrom(watched, S, Shown(led_state), t, tick_count)

(* A watch goes on with what the next tick shows.                          *)
LEMMA WatchedOn ==
  ASSUME NEW w, NEW S, NEW G, NEW t, NEW now, SeenFrom(w, S, G, t, now)
  PROVE  LET x == G[(now + 1) % Cycle]
         IN  /\ SeenFrom(Append(w, x), S \cup {x}, G, t, (now + 1) % Cycle)
             /\ Append(w, x) # <<>>
<1> DEFINE n == Len(w)
           x == G[(now + 1) % Cycle]
           all == Append(w, x)
<1>0. /\ w \in Seq(S) /\ t \in 0 .. Cycle - 1 /\ (t + n) % Cycle = now
      /\ \A i \in 1 .. n : w[i] = G[(t + i) % Cycle]
  BY DEF SeenFrom
<1>1. w \in Seq(S \cup {x}) /\ n \in Nat
  BY <1>0, LenProperties
<1>2. all \in Seq(S \cup {x}) /\ Len(all) = n + 1
  BY <1>1, AppendProperties
<1>3. /\ \A i \in 1 .. n : all[i] = w[i]
      /\ all[n + 1] = x
  BY <1>1, AppendProperties
<1>4. (t + (n + 1)) % Cycle = (now + 1) % Cycle
  <2>1. Cycle \in Nat \ {0} /\ t \in Nat /\ n \in Nat /\ (t + n) % Cycle = now
    BY <1>0, <1>1, LightsAssumption
  <2> HIDE DEF n
  <2>2. t + n \in Nat /\ t + (n + 1) = (t + n) + 1
    BY <2>1
  <2>3. ((t + n) + 1) % Cycle = (((t + n) % Cycle) + 1) % Cycle
    BY <2>1, <2>2, ModAdd
  <2> QED BY <2>1, <2>2, <2>3
<1>5. ASSUME NEW i \in 1 .. n + 1
      PROVE  all[i] = G[(t + i) % Cycle]
  <2>1. CASE i \in 1 .. n
    BY <1>0, <1>3, <2>1
  <2>2. CASE i = n + 1
    BY <1>3, <1>4, <2>2
  <2> QED BY <1>1, <2>1, <2>2
<1> HIDE DEF all
<1>6. SeenFrom(all, S \cup {x}, G, t, (now + 1) % Cycle)
  BY <1>0, <1>2, <1>4, <1>5 DEF SeenFrom
<1>7. all # <<>>
  BY <1>1, <1>2, EmptySeq
<1> QED BY <1>6, <1>7 DEF all

(* A watch that forgets its first tick begins at the next one.             *)
LEMMA WatchedLess ==
  ASSUME NEW w, NEW S, NEW G, NEW t, NEW now, SeenFrom(w, S, G, t, now), w # <<>>
  PROVE  SeenFrom(Tail(w), S, G, (t + 1) % Cycle, now)
<1> DEFINE n == Len(w)
           u == (t + 1) % Cycle
           r == Tail(w)
<1>s. /\ w \in Seq(S) /\ t \in 0 .. Cycle - 1 /\ (t + n) % Cycle = now
      /\ \A i \in 1 .. n : w[i] = G[(t + i) % Cycle]
  BY DEF SeenFrom
<1>1. n \in Nat \ {0}
  BY <1>s, EmptySeq, LenProperties
<1>2. r \in Seq(S) /\ Len(r) = n - 1 /\ \A i \in 1 .. n - 1 : r[i] = w[i + 1]
  BY <1>s, HeadTailProperties
<1>0. Cycle \in Nat \ {0} /\ t \in Nat /\ t + 1 \in Nat
  BY <1>s, LightsAssumption
<1>3. u \in 0 .. Cycle - 1
  BY <1>0, ModBounded
<1>4. ASSUME NEW k \in Nat
      PROVE  (u + k) % Cycle = (t + (k + 1)) % Cycle
  <2>1. ((t + 1) + k) % Cycle = (u + k) % Cycle
    BY <1>0, ModAdd
  <2>2. (t + 1) + k = t + (k + 1)
    BY <1>0
  <2> QED BY <2>1, <2>2
<1> HIDE DEF u, r
<1>5. (u + Len(r)) % Cycle = now
  <2> HIDE DEF n
  <2>1. n - 1 \in Nat /\ (n - 1) + 1 = n
    BY <1>1
  <2>2. (u + (n - 1)) % Cycle = (t + n) % Cycle
    BY <1>4, <2>1
  <2> QED BY <1>s, <1>2, <2>2 DEF n
<1>6. ASSUME NEW i \in 1 .. n - 1
      PROVE  r[i] = G[(u + i) % Cycle]
  <2>1. i \in Nat /\ i + 1 \in 1 .. n
    BY <1>1
  <2>2. w[i + 1] = G[(t + (i + 1)) % Cycle]
    BY <1>s, <2>1
  <2> QED BY <1>2, <1>4, <2>1, <2>2
<1>7. SeenFrom(r, S, G, u, now)
  BY <1>2, <1>3, <1>5, <1>6 DEF SeenFrom
<1> QED BY <1>7 DEF r, u

(* A watch that begins now has seen nothing yet.                           *)
LEMMA SeenNothing ==
  ASSUME NEW G, NEW now \in 0 .. Cycle - 1
  PROVE  SeenFrom(<<>>, {}, G, now, now)
<1>1. (now + 0) % Cycle = now
  <2>1. Cycle \in Nat \ {0} /\ now + 0 = now
    BY LightsAssumption
  <2> QED BY <2>1, ModSmall
<1>2. <<>> \in Seq({}) /\ Len(<<>>) = 0
  BY EmptySeq
<1> QED BY <1>1, <1>2 DEF SeenFrom

(* A pulse is met in the dark by one of two ticks at most, over the end of *)
(* the clock too (pulse, led_status.rs:143-154).                           *)
LEMMA PulseComesBack ==
  ASSUME NEW now \in 0 .. ClockSpan - 1, NEW gap \in Gaps
  PROVE  /\ At(now + gap) \in 0 .. ClockSpan - 1
         /\ PulseLit(now) \/ PulseLit(At(now + gap))
<1> DEFINE n == ClockSpan
           y == At(now + gap)
<1>1. /\ n \in Nat /\ n % 2000 = 1296 /\ now \in 0 .. n - 1
      /\ gap \in Nat /\ 7 <= gap /\ gap <= 1289
  BY LightsAssumption
<1>2. n >= 1296 /\ n \in Nat \ {0} /\ now \in Nat /\ gap \in Nat /\ now + gap \in Nat
  BY <1>1
<1>3. y \in 0 .. n - 1
  BY <1>2, ModBounded DEF At
<1>4. y = now + gap \/ y = now + gap - n
  <2>1. CASE now + gap < n
    BY <1>2, <2>1, ModSmall DEF At
  <2>2. CASE now + gap >= n
    <3>1. now + gap - n \in 0 .. n - 1
      BY <1>1, <1>2, <2>2
    <3>2. (now + gap - n) % n = now + gap - n
      BY <1>2, <3>1, ModSmall
    <3>3. ((now + gap - n) + n) % n = (now + gap - n) % n
      BY <1>2, <3>1
    <3>4. (now + gap - n) + n = now + gap
      BY <1>2
    <3> QED BY <3>2, <3>3, <3>4 DEF At
  <2> QED BY <1>2, <2>1, <2>2
<1>5. \A ms \in Nat : ~PulseLit(ms) => (ms % 2000 < 4 \/ ms % 2000 > 1996)
  BY SMT DEF PulseLit
<1> HIDE DEF n, y
<1>6. y \in Nat
  BY <1>2, <1>3
<1>7. ~((now % 2000 < 4 \/ now % 2000 > 1996) /\ (y % 2000 < 4 \/ y % 2000 > 1996))
  BY <1>1, <1>2, <1>4, <1>6, SMTT(60)
<1> QED BY <1>2, <1>3, <1>5, <1>6, <1>7 DEF n, y

(* A watch of a pulse goes on with what the next tick shows, and may       *)
(* forget its first.                                                       *)
LEMMA PulseOn ==
  ASSUME NEW w, NEW c, NEW now, NEW next, SeenPulse(w, c, now),
         PulseLit(now) \/ PulseLit(next)
  PROVE  LET all == Append(w, IF PulseLit(next) THEN c ELSE "black")
         IN  SeenPulse(all, c, next) /\ SeenPulse(Tail(all), c, next)
<1> DEFINE x == IF PulseLit(next) THEN c ELSE "black"
           n == Len(w)
           all == Append(w, x)
           r == Tail(all)
<1>0. /\ w \in Seq({c, "black"})
      /\ \A i \in 1 .. n - 1 : w[i] = c \/ w[i + 1] = c
      /\ (w # <<>> /\ ~(w[n] = c)) => ~PulseLit(now)
  BY DEF SeenPulse
<1>1. n \in Nat /\ x \in {c, "black"} /\ (~(x = c) => ~PulseLit(next))
  BY <1>0, LenProperties
<1>2. all \in Seq({c, "black"}) /\ Len(all) = n + 1
  BY <1>0, <1>1, AppendProperties
<1>3. /\ \A i \in 1 .. n : all[i] = w[i]
      /\ all[n + 1] = x
  BY <1>0, <1>1, AppendProperties
<1>4. ASSUME NEW i \in 1 .. n
      PROVE  all[i] = c \/ all[i + 1] = c
  <2>1. CASE i # n
    <3>1. i \in 1 .. n - 1 /\ i + 1 \in 1 .. n
      BY <1>1, <2>1
    <3> QED BY <1>0, <1>3, <3>1
  <2>2. CASE i = n
    <3>1. w # <<>>
      BY <2>2, <1>1, EmptySeq
    <3>2. x = c \/ w[n] = c
      BY <1>0, <1>1, <3>1
    <3> QED BY <1>1, <1>3, <2>2, <3>2
  <2> QED BY <2>1, <2>2
<1> HIDE DEF all, x
<1>5. all # <<>> /\ (n + 1) - 1 = n
  BY <1>1, <1>2, EmptySeq
<1>6. SeenPulse(all, c, next)
  BY <1>1, <1>2, <1>3, <1>4, <1>5 DEF SeenPulse
<1>7. /\ r \in Seq({c, "black"}) /\ Len(r) = n
      /\ \A i \in 1 .. n : r[i] = all[i + 1]
  <2>1. r \in Seq({c, "black"}) /\ Len(r) = (n + 1) - 1
        /\ \A i \in 1 .. (n + 1) - 1 : r[i] = all[i + 1]
    BY <1>2, <1>5, HeadTailProperties
  <2> QED BY <1>5, <2>1
<1> HIDE DEF r, n
<1>8. ASSUME NEW i \in 1 .. n - 1
      PROVE  r[i] = c \/ r[i + 1] = c
  <2>1. i \in 1 .. n /\ i + 1 \in 1 .. n
    BY <1>1
  <2> QED BY <1>4, <1>7, <2>1
<1>9. (r # <<>> /\ ~(r[n] = c)) => ~PulseLit(next)
  <2>1. r # <<>> => n \in 1 .. n
    BY <1>1, <1>7, EmptySeq
  <2> QED BY <1>1, <1>3, <1>7, <2>1
<1>10. SeenPulse(r, c, next)
  BY <1>7, <1>8, <1>9 DEF SeenPulse
<1> QED BY <1>6, <1>10 DEF r, all, x

(* A watch that begins now has seen nothing yet, blink or pulse.           *)
LEMMA WatchBegins ==
  ASSUME NEW s \in LedStates, NEW tick \in 0 .. Cycle - 1, NEW now
  PROVE  IF Pulses(s) THEN SeenPulse(<<>>, Color(s), now)
         ELSE \E S, t : SeenFrom(<<>>, S, Shown(s), t, tick)
<1>1. SeenPulse(<<>>, Color(s), now)
  <2>1. <<>> \in Seq({Color(s), "black"}) /\ Len(<<>>) = 0
    BY EmptySeq
  <2> QED BY <2>1 DEF SeenPulse
<1>2. SeenFrom(<<>>, {}, Shown(s), tick, tick)
  BY SeenNothing
<1> QED BY <1>1, <1>2

(* What changes nothing that is watched keeps it.                          *)
LEMMA UnwatchedStays ==
  ASSUME WatchInv, UNCHANGED <<led_state, tick_count, now_ms, pins, watched>>
  PROVE  WatchInv'
<1>1. Shown(led_state)' = Shown(led_state) /\ Pulses(led_state)' = Pulses(led_state)
      /\ Color(led_state)' = Color(led_state)
  BY DEF Shown, Pulses
<1> QED BY <1>1 DEF WatchInv

(* tick, set_state and tx_flash of led_status.rs keep it.                  *)
LEMMA LightsStep ==
  ASSUME WatchInv, LightsNext
  PROVE  WatchInv'
<1>0. Cycle \in Nat \ {0} /\ Watch \in Nat \ {0}
  BY LightsAssumption
<1>3. ASSUME NEW gap \in Gaps, Tick(gap)
      PROVE  WatchInv'
  <2> DEFINE next == (tick_count + 1) % Cycle
             now == At(now_ms + gap)
             white == last_flash # NoFlash /\ At(now - last_flash) < FlashMs
             x == Generated(led_state, next, now)
             all == Append(watched, x)
             G == Shown(led_state)
  <2>1. next \in 0 .. Cycle - 1
    BY <1>0, ModBounded DEF WatchInv
  <2>2. /\ now \in 0 .. ClockSpan - 1
        /\ PulseLit(now_ms) \/ PulseLit(now)
    BY PulseComesBack DEF WatchInv
  <2>3. /\ tick_count' = next /\ now_ms' = now /\ led_state' = led_state /\ pins' = pins
        /\ white => watched' = <<>>
        /\ ~white => watched' = IF Len(all) > Watch THEN Tail(all) ELSE all
    BY <1>3 DEF Tick
  <2>4. /\ led_state' \in LedStates /\ tick_count' \in 0 .. Cycle - 1 /\ pins' \in PinConfigs
        /\ now_ms' \in 0 .. ClockSpan - 1
        /\ Pulses(led_state)' = Pulses(led_state) /\ Color(led_state)' = Color(led_state)
        /\ Shown(led_state)' = G
    BY <2>1, <2>2, <2>3 DEF WatchInv, Shown, Pulses
  <2>5. watched' \in {<<>>, all, Tail(all)}
    BY <2>3
  <2>6. CASE watched' = <<>>
    BY <2>1, <2>3, <2>4, <2>6, WatchBegins DEF WatchInv
  <2>7. CASE Pulses(led_state) /\ watched' \in {all, Tail(all)}
    <3>1. SeenPulse(watched, Color(led_state), now_ms)
      BY <2>7 DEF WatchInv
    <3>2. x = IF PulseLit(now) THEN Color(led_state) ELSE "black"
      BY <2>7 DEF Generated, Pulse
    <3> HIDE DEF now
    <3>3. SeenPulse(all, Color(led_state), now) /\ SeenPulse(Tail(all), Color(led_state), now)
      BY <2>2, <3>1, <3>2, PulseOn
    <3>4. SeenPulse(watched', Color(led_state), now)
      BY <2>7, <3>3
    <3> HIDE DEF all
    <3> QED BY <2>3, <2>4, <2>7, <3>4 DEF WatchInv
  <2>8. CASE ~Pulses(led_state) /\ watched' \in {all, Tail(all)}
    <3>1. PICK S, t : SeenFrom(watched, S, G, t, tick_count)
      BY <2>8 DEF WatchInv
    <3>2. x = G[next]
      BY <2>1, <2>8 DEF Generated, Shown
    <3> HIDE DEF G, x
    <3>3. SeenFrom(all, S \cup {x}, G, t, next) /\ all # <<>>
      BY <3>1, <3>2, WatchedOn
    <3> HIDE DEF all, next
    <3>4. SeenFrom(Tail(all), S \cup {x}, G, (t + 1) % Cycle, next)
      BY <3>3, WatchedLess
    <3>5. \E R, u : SeenFrom(watched', R, G, u, next)
      BY <2>8, <3>3, <3>4
    <3> QED BY <2>3, <2>4, <2>8, <3>5 DEF WatchInv
  <2> QED BY <2>5, <2>6, <2>7, <2>8
<1>4. ASSUME NEW s \in LedStates, SetState(s)
      PROVE  WatchInv'
  <2>1. /\ watched' = <<>> /\ led_state' = s /\ pins' = pins /\ tick_count' = tick_count
        /\ now_ms' = now_ms
    BY <1>4 DEF SetState
  <2>2. IF Pulses(s) THEN SeenPulse(<<>>, Color(s), now_ms)
        ELSE \E S, t : SeenFrom(<<>>, S, Shown(s), t, tick_count)
    BY WatchBegins DEF WatchInv
  <2>3. Shown(led_state)' = Shown(s) /\ Pulses(led_state)' = Pulses(s)
        /\ Color(led_state)' = Color(s)
    BY <2>1 DEF Shown, Pulses
  <2> QED BY <2>1, <2>2, <2>3 DEF WatchInv
<1>5. ASSUME NEW delay \in FlashDelays, TxFlash(delay)
      PROVE  WatchInv'
  BY <1>5, UnwatchedStays DEF TxFlash
<1> QED BY <1>3, <1>4, <1>5 DEF LightsNext

(* Half a period apart, one of two remainders is in the first half.        *)
LEMMA HalfPeriod ==
  ASSUME NEW u \in Nat, NEW v \in Nat, NEW lead, lead = v - u
  PROVE  /\ lead % 2000 = 1000 => (u % 2000 < 1000 <=> ~(v % 2000 < 1000))
         /\ lead % 500 = 250 => (u % 500 < 250 <=> ~(v % 500 < 250))
  BY SMT

(* Whoever watched long enough saw a look of the state (led_status.rs).     *)
LEMMA LooksOfLedState ==
  ASSUME WatchInv, Len(watched) = Watch
  PROVE  watched \in AllLooks[led_state]
<1> DEFINE w == watched
           c == Color(led_state)
<1>1. AllLooks[led_state] = Looks(led_state)
  BY DEF WatchInv, AllLooks
<1>2. CASE Pulses(led_state)
  <2>1. /\ w \in Seq({c, "black"})
        /\ \A i \in 1 .. Len(w) - 1 : w[i] = c \/ w[i + 1] = c
    BY <1>2 DEF WatchInv, SeenPulse
  <2>2. w \in [1 .. Watch -> {c, "black"}]
    BY <2>1, LenProperties
  <2> QED BY <1>1, <1>2, <2>1, <2>2 DEF Looks
<1>3. CASE ~Pulses(led_state)
  <2>1. PICK S, t : SeenFrom(watched, S, Shown(led_state), t, tick_count)
    BY <1>3 DEF WatchInv
  <2> DEFINE f == [i \in 1 .. Watch |-> Blink(led_state, (t + i) % Cycle)]
  <2>2. w = [i \in 1 .. Watch |-> w[i]]
    <3>1. w \in [1 .. Len(w) -> S]
      BY <2>1, LenProperties DEF SeenFrom
    <3>2. w \in [1 .. Watch -> S]
      BY <3>1
    <3> QED BY <3>2
  <2>3. \A i \in 1 .. Watch : w[i] = Blink(led_state, (t + i) % Cycle)
    <3> SUFFICES ASSUME NEW i \in 1 .. Watch PROVE w[i] = Blink(led_state, (t + i) % Cycle)
      OBVIOUS
    <3>1. t + i \in Nat /\ Cycle \in Nat \ {0}
      BY <2>1, LightsAssumption DEF SeenFrom
    <3>2. (t + i) % Cycle \in 0 .. Cycle - 1
      BY <3>1, ModBounded
    <3>3. w[i] = Shown(led_state)[(t + i) % Cycle]
      BY <2>1 DEF SeenFrom
    <3> QED BY <3>2, <3>3 DEF Shown
  <2> HIDE DEF w
  <2>4. w = f
    BY <2>2, <2>3
  <2>5. f \in Looks(led_state)
    BY <1>3, <2>1 DEF Looks, SeenFrom
  <2> QED BY <1>1, <2>4, <2>5 DEF w
<1> QED BY <1>2, <1>3

(* Of two position lights half a period apart one is on, as long as the    *)
(* offset of neither takes it over an end of the clock (lighting.rs:36-59, *)
(* pattern_active and channel_active).                                     *)
LEMMA LightsTakeTurns ==
  ASSUME pins \in PinConfigs, now_ms \in Nat,
         NEW i \in DOMAIN pins.lights, NEW j \in DOMAIN pins.lights, Opposite(i, j),
         SameTurn(i), SameTurn(j)
  PROVE  ChannelActive(i) # ChannelActive(j)
<1> DEFINE a == pins.lights[i].offset
           b == pins.lights[j].offset
           u == now_ms + a
           v == now_ms + b
           p == pins.lights[i].pattern
<1>1. /\ a \in Int /\ b \in Int /\ ClockSpan \in Nat
      /\ u \in 0 .. ClockSpan - 1 /\ v \in 0 .. ClockSpan - 1
  BY LightsAssumption DEF SameTurn
<1>2. /\ p = pins.lights[j].pattern
      /\ \/ p = 2 /\ (b - a) % 2000 = 1000
         \/ p = 3 /\ (b - a) % 500 = 250
  <2> DEFINE period == CASE p = 2 -> 2000 [] p = 3 -> 500 [] OTHER -> 0
  <2>1. /\ p = pins.lights[j].pattern /\ period > 0
        /\ (b - a) % period = period \div 2
    BY DEF Opposite
  <2>2. \/ p = 2 /\ period = 2000
        \/ p = 3 /\ period = 500
        \/ period = 0
    OBVIOUS
  <2> HIDE DEF period, p, a, b
  <2>3. 2000 \div 2 = 1000 /\ 500 \div 2 = 250 /\ ~(0 > 0)
    BY SMT
  <2> QED BY <2>1, <2>2, <2>3
<1>3. /\ ChannelActive(i) = PatternActive(p, At(u), pins.armed, pins.gps_valid)
      /\ ChannelActive(j) = PatternActive(p, At(v), pins.armed, pins.gps_valid)
  BY <1>2 DEF ChannelActive
<1>4. b - a = v - u /\ u \in Nat /\ v \in Nat /\ ClockSpan \in Nat \ {0}
  <2> HIDE DEF a, b
  <2> QED BY <1>1
<1> HIDE DEF a, b, u, v, p
<1>5. At(u) = u /\ At(v) = v
  BY <1>1, <1>4, ModSmall DEF At
<1>6. /\ (b - a) % 2000 = 1000 => (u % 2000 < 1000 <=> ~(v % 2000 < 1000))
      /\ (b - a) % 500 = 250 => (u % 500 < 250 <=> ~(v % 500 < 250))
  BY <1>4, HalfPeriod
<1>7. CASE p = 2 /\ (b - a) % 2000 = 1000
  <2>1. \A ms \in Nat : PatternActive(2, ms, pins.armed, pins.gps_valid) = (ms % 2000 < 1000)
    BY DEF PatternActive
  <2>2. u % 2000 < 1000 <=> ~(v % 2000 < 1000)
    BY <1>6, <1>7
  <2> QED BY <1>3, <1>4, <1>5, <1>7, <2>1, <2>2
<1>8. CASE p = 3 /\ (b - a) % 500 = 250
  <2>1. \A ms \in Nat : PatternActive(3, ms, pins.armed, pins.gps_valid) = (ms % 500 < 250)
    BY DEF PatternActive
  <2>2. u % 500 < 250 <=> ~(v % 500 < 250)
    BY <1>6, <1>8
  <2> QED BY <1>3, <1>4, <1>5, <1>8, <2>1, <2>2
<1> QED BY <1>2, <1>7, <1>8

(* led_status.rs:57-161 and :199-216, lighting.rs:36-59: whoever watches   *)
(* the light long enough without a change or a flash sees a look of its    *)
(* state and of no other, however irregular the ticks are and whenever the *)
(* clock begins again; of two position lights with half a period between   *)
(* them one is on, but where an offset leads over an end of the clock.     *)
(* For every table of lights with any offsets, every flash and times of    *)
(* the ticks, as long as no two states look alike for that long.           *)
THEOREM LightsAlwaysTell == LooksDiffer => (OutputsSpec => []LightsTell)
<1> SUFFICES ASSUME LooksDiffer PROVE OutputsSpec => []LightsTell
  OBVIOUS
<1>1. OutputsInit => WatchInv
  <2> SUFFICES ASSUME OutputsInit PROVE WatchInv
    OBVIOUS
  <2>1. /\ led_state = "Boot" /\ tick_count = 0 /\ now_ms = 0 /\ watched = <<>>
        /\ pins \in PinConfigs
    BY DEF OutputsInit, LightsInit
  <2>2. Cycle \in Nat \ {0} /\ 0 \in 0 .. Cycle - 1 /\ 0 \in 0 .. ClockSpan - 1
    BY LightsAssumption
  <2>3. "Boot" \in LedStates
    BY DEF LedStates
  <2> QED BY <2>1, <2>2, <2>3, WatchBegins DEF WatchInv
<1>2. WatchInv /\ [OutputsNext]_outputsVars => WatchInv'
  <2> SUFFICES ASSUME WatchInv, [OutputsNext]_outputsVars PROVE WatchInv'
    OBVIOUS
  <2>1. CASE LightsNext
    BY <2>1, LightsStep
  <2>2. CASE UNCHANGED lightsVars
    BY <2>2, UnwatchedStays DEF lightsVars
  <2> QED BY <2>1, <2>2 DEF OutputsNext, outputsVars
<1>3. WatchInv => LightsTell
  <2> SUFFICES ASSUME WatchInv PROVE LightsTell
    OBVIOUS
  <2>1. ASSUME Len(watched) = Watch, NEW s \in LedStates
        PROVE  watched \in AllLooks[s] <=> s = led_state
    BY <2>1, LooksOfLedState DEF LooksDiffer, WatchInv
  <2>2. now_ms \in Nat
    BY LightsAssumption DEF WatchInv
  <2>3. \A i, j \in DOMAIN pins.lights :
          (Opposite(i, j) /\ SameTurn(i) /\ SameTurn(j)) => ChannelActive(i) # ChannelActive(j)
    BY <2>2, LightsTakeTurns DEF WatchInv
  <2> QED BY <2>1, <2>3 DEF LightsTell
<1> QED BY <1>1, <1>2, <1>3, PTL DEF OutputsSpec

-----------------------------------------------------------------------------
(* The telemetry over USB.  The invariant: the host has not been without a *)
(* heartbeat for longer than the board has not sent one.                   *)
UsbInv ==
  /\ MavKept(host) /\ tx_seq \in 0 .. TxSeqMod - 1 /\ ~unread
  /\ since_heartbeat \in Nat /\ silence \in Nat /\ silence <= since_heartbeat
  /\ since_heartbeat < HeartbeatPeriod + LongestStep

(* A message the host knows, with fields that fit.                         *)
Message(msgid, payload) ==
  /\ msgid \in DOMAIN MaxLen /\ msgid # BasicId
  /\ payload \in Seq(Value) /\ Len(payload) \in Nat \ {0} /\ Len(payload) <= MaxLen[msgid]

(* What is trimmed is zero.                                                *)
LEMMA TrimShape ==
  ASSUME NEW s \in Seq(Value), Len(s) \in Nat \ {0}
  PROVE  /\ TrimPayload(s) \in Seq(Value) /\ Len(TrimPayload(s)) \in Nat \ {0}
         /\ Len(TrimPayload(s)) <= Len(s)
         /\ \A i \in 1 .. Len(TrimPayload(s)) : TrimPayload(s)[i] = s[i]
         /\ \A i \in 1 .. Len(s) : i > Len(TrimPayload(s)) => s[i] = 0
<1> DEFINE used == {1} \cup {i \in DOMAIN s : s[i] # 0}
           n == CHOOSE i \in used : \A j \in used : j <= i
           k == Len(s)
<1>1. k \in Nat \ {0} /\ DOMAIN s = 1 .. k
  BY LenProperties
<1>2. used \in SUBSET (1 .. k) /\ used # {}
  BY <1>1
<1>3. \E i \in used : \A j \in used : j <= i
  BY <1>1, <1>2, MaxOf
<1>4. n \in used /\ \A j \in used : j <= n
  BY <1>3
<1>5. TrimPayload(s) = SubSeq(s, 1, n)
  BY DEF TrimPayload
<1> HIDE DEF n
<1>6. n \in Nat \ {0} /\ n <= k
  BY <1>1, <1>2, <1>4
<1>7. ASSUME NEW i \in 1 .. k, i > n PROVE s[i] = 0
  BY <1>1, <1>4, <1>6, <1>7
<1>8. /\ SubSeq(s, 0 + 1, 0 + n) \in Seq(Value) /\ Len(SubSeq(s, 0 + 1, 0 + n)) = n
      /\ \A i \in 1 .. n : SubSeq(s, 0 + 1, 0 + n)[i] = s[0 + i]
  <2>1. 0 \in Nat /\ n \in Nat /\ 0 + n <= Len(s)
    BY <1>6
  <2> QED BY <2>1, PartAt
<1>9. 0 + n = n /\ 0 + 1 = 1 /\ \A i \in 1 .. n : 0 + i = i
  BY <1>6
<1> HIDE DEF used, k
<1> QED BY <1>5, <1>6, <1>7, <1>8, <1>9 DEF k

(* A part of a text that is filled up with zeros to the same length.       *)
LEMMA FilledSame ==
  ASSUME NEW s \in Seq(Value), NEW t \in Seq(Value), NEW n \in Nat, Len(t) <= Len(s), Len(s) <= n,
         \A i \in 1 .. Len(t) : t[i] = s[i],
         \A i \in 1 .. Len(s) : i > Len(t) => s[i] = 0
  PROVE  t \o [i \in 1 .. n - Len(t) |-> 0] = s \o [i \in 1 .. n - Len(s) |-> 0]
<1> DEFINE a == Len(t)
           b == Len(s)
           y == [i \in 1 .. n - a |-> 0]
           z == [i \in 1 .. n - b |-> 0]
           u == t \o y
           v == s \o z
<1>1. a \in Nat /\ b \in Nat /\ a <= b /\ b <= n /\ n - a \in Nat /\ n - b \in Nat
  BY LenProperties
<1>2. 0 \in Value
  BY MavlinkAssumption DEF Value
<1> HIDE DEF a, b
<1>3. y \in Seq(Value) /\ Len(y) = n - a /\ \A i \in 1 .. n - a : y[i] = 0
  BY <1>1, <1>2, FunctionIsSeq
<1>4. z \in Seq(Value) /\ Len(z) = n - b /\ \A i \in 1 .. n - b : z[i] = 0
  BY <1>1, <1>2, FunctionIsSeq
<1> HIDE DEF y, z
<1>5. /\ u \in Seq(Value) /\ Len(u) = a + (n - a)
      /\ \A i \in 1 .. a : u[i] = t[i]
      /\ \A i \in 1 .. n - a : u[a + i] = y[i]
  <2>1. /\ t \o y \in Seq(Value) /\ Len(t \o y) = Len(t) + Len(y)
        /\ \A i \in 1 .. Len(t) : (t \o y)[i] = t[i]
        /\ \A i \in 1 .. Len(y) : (t \o y)[Len(t) + i] = y[i]
    BY <1>3, JoinedValues
  <2> HIDE DEF u
  <2>2. u = t \o y /\ Len(t) = a
    BY DEF u, a
  <2> QED BY <1>3, <2>1, <2>2
<1>6. /\ v \in Seq(Value) /\ Len(v) = b + (n - b)
      /\ \A i \in 1 .. b : v[i] = s[i]
      /\ \A i \in 1 .. n - b : v[b + i] = z[i]
  <2>1. /\ s \o z \in Seq(Value) /\ Len(s \o z) = Len(s) + Len(z)
        /\ \A i \in 1 .. Len(s) : (s \o z)[i] = s[i]
        /\ \A i \in 1 .. Len(z) : (s \o z)[Len(s) + i] = z[i]
    BY <1>4, JoinedValues
  <2> HIDE DEF v
  <2>2. v = s \o z /\ Len(s) = b
    BY DEF v, b
  <2> QED BY <1>4, <2>1, <2>2
<1> HIDE DEF u, v
<1>7. ASSUME NEW i \in 1 .. n PROVE u[i] = v[i]
  <2>1. CASE i <= a
    <3>1. i \in 1 .. a /\ i \in 1 .. b
      BY <1>1, <2>1
    <3> QED BY <1>5, <1>6, <3>1 DEF a
  <2>2. CASE i > a /\ i <= b
    <3> DEFINE j == i - a
    <3>1. j \in 1 .. n - a /\ a + j = i /\ i \in 1 .. b
      BY <1>1, <2>2
    <3> HIDE DEF j
    <3>2. u[i] = 0
      BY <1>3, <1>5, <3>1
    <3>3. s[i] = 0
      BY <2>2, <3>1 DEF a, b
    <3> QED BY <1>6, <3>1, <3>2, <3>3
  <2>3. CASE i > b
    <3> DEFINE j == i - a
               k == i - b
    <3>1. j \in 1 .. n - a /\ a + j = i /\ k \in 1 .. n - b /\ b + k = i
      BY <1>1, <2>3
    <3> HIDE DEF j, k
    <3>2. u[i] = 0
      BY <1>3, <1>5, <3>1
    <3>3. v[i] = 0
      BY <1>4, <1>6, <3>1
    <3> QED BY <3>2, <3>3
  <2> QED BY <1>1, <2>1, <2>2, <2>3
<1>8. Len(u) = n /\ Len(v) = n
  BY <1>1, <1>5, <1>6
<1>9. u = v
  BY <1>5, <1>6, <1>7, <1>8, SeqEqual
<1> QED BY <1>9 DEF u, v, y, z, a, b

(* finalize makes a frame of version 2 that is not signed.                 *)
FrameOf(msgid, payload, looks) ==
  [v1 |-> FALSE, signed |-> FALSE, seq |-> tx_seq, msgid |-> msgid,
   payload |-> TrimPayload(payload), check |-> [i \in 1 .. 2 |-> looks]]

(* pack.rs:49-91: what is written is this frame, and means the payload.    *)
LEMMA FinalizeFrames ==
  ASSUME tx_seq \in Value, NEW msgid, NEW payload, Message(msgid, payload), NEW looks \in Value
  PROVE  LET m == FrameOf(msgid, payload, looks)
         IN  /\ m \in MavlinkFrame /\ m.msgid = msgid
             /\ Finalize(msgid, payload, looks) = MavlinkBytes(m)
             /\ MavlinkMeans(m) = Meant(msgid, payload)
<1> DEFINE m == FrameOf(msgid, payload, looks)
           t == TrimPayload(payload)
           ch == [i \in 1 .. 2 |-> looks]
           n == MaxLen[msgid]
<1>1. /\ msgid \in DOMAIN MaxLen /\ msgid # BasicId /\ payload \in Seq(Value)
      /\ Len(payload) \in Nat \ {0} /\ Len(payload) <= n
      /\ msgid \in Value /\ n \in Value
  BY MavlinkAssumption DEF Message, Value
<1>2. /\ t \in Seq(Value) /\ Len(t) \in Nat \ {0} /\ Len(t) <= Len(payload)
      /\ \A i \in 1 .. Len(t) : t[i] = payload[i]
      /\ \A i \in 1 .. Len(payload) : i > Len(t) => payload[i] = 0
  BY <1>1, TrimShape
<1>3. ch \in [1 .. 2 -> Value] /\ ch[1] = looks /\ ch[2] = looks
  OBVIOUS
<1> HIDE DEF t, ch
<1>4. /\ m.v1 = FALSE /\ m.signed = FALSE /\ m.seq = tx_seq /\ m.msgid = msgid /\ m.payload = t
      /\ m.check = ch
      /\ m \in [v1 : BOOLEAN, signed : BOOLEAN, seq : Value, msgid : Value,
                payload : Seq(Value), check : [1 .. 2 -> Value]]
  BY <1>1, <1>2, <1>3 DEF FrameOf, t, ch
<1> HIDE DEF m, n
<1>5. Len(t) <= MaxPayload /\ Len(t) <= n
  <2> DEFINE j == Len(t)
             k == Len(payload)
  <2>1. j \in Nat \ {0} /\ k \in Nat \ {0} /\ j <= k /\ k <= n
    BY <1>1, <1>2
  <2>2. MaxPayload \in Nat /\ n \in 0 .. MaxPayload
    BY <1>1, MavlinkAssumption DEF Value
  <2> HIDE DEF j, k
  <2>3. j <= MaxPayload /\ j <= n
    BY <2>1, <2>2
  <2> QED BY <2>3 DEF j
<1>6. m \in MavlinkFrame
  BY <1>4, <1>5 DEF MavlinkFrame, Value, n
<1>7. MavlinkBytes(m) = Finalize(msgid, payload, looks)
  <2> DEFINE y == <<Len(t), 0, 0, tx_seq, 1, 1, msgid, 0, 0>> \o t
             z == Append(y, msgid)
             g == <<Plain(StxV2)>> \o Plains(y) \o <<Check(looks, z, 1), Check(looks, z, 2)>>
  <2>1. Finalize(msgid, payload, looks) = g
    BY DEF Finalize, t
  <2>2. MavlinkBytes(m) = g \o <<>>
    BY <1>3, <1>4 DEF MavlinkBytes
  <2>3. y \in Seq(Nat) /\ z \in Seq(Nat) /\ y \in Seq(Value)
    <3> DEFINE k == Len(t)
               h == <<k, 0, 0, tx_seq, 1, 1, msgid, 0, 0>>
    <3>1. k \in Value /\ 0 \in Value /\ 1 \in Value /\ tx_seq \in Value /\ msgid \in Value
      BY <1>1, <1>2, <1>5, MavlinkAssumption DEF Value
    <3> HIDE DEF k
    <3>2. h \in Seq(Value)
      BY <3>1
    <3> HIDE DEF h
    <3>3. y = h \o t
      BY DEF h, k
    <3>4. h \o t \in Seq(Value)
      BY <1>2, <3>2, JoinedValues
    <3>5. y \in Seq(Value)
      BY <3>3, <3>4
    <3> HIDE DEF y
    <3>6. z \in Seq(Value)
      BY <1>1, <3>5, AppendProperties
    <3>7. Value \subseteq Nat
      BY MavlinkAssumption DEF Value
    <3> QED BY <3>5, <3>6, <3>7, SeqMonotonic
  <2> HIDE DEF y, z
  <2>4. g \in Seq(MavlinkByte)
    <3> DEFINE a == <<Plain(StxV2)>>
               b == Plains(y)
               c == <<Check(looks, z, 1), Check(looks, z, 2)>>
    <3>1. StxV2 \in Nat /\ StxV2 <= MaxPayload /\ looks \in Nat /\ looks <= MaxPayload
      BY MavlinkAssumption DEF Value
    <3>2. Plain(StxV2) \in MavlinkByte
      BY <3>1, EmptySeq DEF Plain, Byte, MavlinkByte
    <3>3. Check(looks, z, 1) \in MavlinkByte /\ Check(looks, z, 2) \in MavlinkByte
      BY <2>3, <3>1 DEF Check, Byte, MavlinkByte
    <3>4. a \in Seq(MavlinkByte) /\ c \in Seq(MavlinkByte)
      BY <3>2, <3>3
    <3>5. b \in Seq(MavlinkByte)
      BY <2>3, PlainValues
    <3> HIDE DEF a, b, c
    <3>6. a \o b \in Seq(MavlinkByte)
      BY <3>4, <3>5, JoinedWords
    <3>7. (a \o b) \o c \in Seq(MavlinkByte)
      BY <3>4, <3>6, JoinedWords
    <3> QED BY <3>7 DEF a, b, c
  <2> HIDE DEF g
  <2>5. g \o <<>> = g
    BY <2>4, ConcatEmptySeq
  <2> QED BY <2>1, <2>2, <2>5
<1>8. MavlinkMeans(m) = Meant(msgid, payload)
  <2>1. MavlinkMeans(m) = <<msgid, t \o [i \in 1 .. n - Len(t) |-> 0]>>
    BY <1>1, <1>4 DEF MavlinkMeans, n
  <2>2. Meant(msgid, payload) = <<msgid, payload \o [i \in 1 .. n - Len(payload) |-> 0]>>
    BY DEF Meant, n
  <2>3. n \in Nat
    BY <1>1, MavlinkAssumption DEF Value
  <2>4. t \o [i \in 1 .. n - Len(t) |-> 0] = payload \o [i \in 1 .. n - Len(payload) |-> 0]
    BY <1>1, <1>2, <2>3, FilledSame
  <2> QED BY <2>1, <2>2, <2>4
<1> QED BY <1>4, <1>6, <1>7, <1>8 DEF m

(* What the host hears, byte by byte.                                      *)
LEMMA HearsStepwise ==
  ASSUME MavKept(host), NEW bytes \in Seq(MavlinkByte)
  PROVE  \E f : /\ f[0] = host /\ f[Len(bytes)] = Hears(bytes)
                /\ \A k \in 0 .. Len(bytes) : MavKept(f[k])
                /\ \A k \in 0 .. Len(bytes) - 1 : f[k + 1] = ParseChar(f[k], bytes[k + 1])
<1> DEFINE A == KeptOf(host.taken)
           m == Len(bytes)
           step == [x \in (1 .. m) \X A |-> ParseChar(x[2], bytes[x[1]])]
           Unfold(g) == [s \in SUBSET (1 .. m) |->
                           IF s = {} THEN host ELSE ParseChar(g[s \ {Max(s)}], bytes[Max(s)])]
           iter == CHOOSE g : g = Unfold(g)
<1>0. m \in Nat /\ DOMAIN bytes = 1 .. m /\ \A k \in 1 .. m : bytes[k] \in MavlinkByte
  BY LenProperties, ElementOfSeq
<1>1. Hears(bytes) = iter[1 .. m]
  BY <1>0 DEF Hears, FoldLeft, MapThenFoldSet
<1>3. \A k \in 1 .. m : \A a \in A : ParseChar(a, bytes[k]) \in A
  BY <1>0, StepKeepsOf
<1>4. host \in A
  BY DEF KeptOf, MavKept, MavRecord
<1>2. \A a \in A : MavKept(a)
  BY DEF KeptOf
<1> HIDE DEF m, A
<1>5. step \in [(1 .. m) \X A -> A]
  BY <1>3
<1>6. \A k \in 1 .. m : \A a \in A : step[<<k, a>>] = ParseChar(a, bytes[k])
  OBVIOUS
<1> HIDE DEF step
<1>7. PICK g : Unfolds(m, A, host, step, g)
  BY <1>0, <1>4, <1>5, FoldExists
<1>8. g = Unfold(g)
  <2>1. g \in [SUBSET (1 .. m) -> A]
    BY <1>7 DEF Unfolds
  <2>2. ASSUME NEW s \in SUBSET (1 .. m)
        PROVE  g[s] = IF s = {} THEN host ELSE ParseChar(g[s \ {Max(s)}], bytes[Max(s)])
    BY <1>6, <1>7 DEF Unfolds
  <2> QED BY <2>1, <2>2
<1> HIDE DEF Unfold
<1>9. iter = Unfold(iter)
  BY <1>8
<1> HIDE DEF iter
<1>10. iter = [s \in SUBSET (1 .. m) |->
                 IF s = {} THEN host ELSE ParseChar(iter[s \ {Max(s)}], bytes[Max(s)])]
  BY <1>9 DEF Unfold
<1> DEFINE f == [k \in 0 .. m |-> iter[1 .. k]]
<1>11. f[0] = host
  <2>1. 1 .. 0 = {} /\ {} \in SUBSET (1 .. m) /\ 0 \in 0 .. m
    BY <1>0
  <2> QED BY <1>10, <2>1
<1>12. ASSUME NEW k \in 0 .. m - 1
       PROVE  f[k + 1] = ParseChar(f[k], bytes[k + 1])
  <2> DEFINE s == 1 .. k + 1
  <2>1. /\ s \in SUBSET (1 .. m) /\ s # {} /\ Max(s) = k + 1 /\ s \ {k + 1} = 1 .. k
        /\ k \in 0 .. m /\ k + 1 \in 0 .. m /\ k + 1 \in 1 .. m
    BY <1>0, MaxOfFirst
  <2> HIDE DEF s
  <2>2. iter[s] = ParseChar(iter[s \ {k + 1}], bytes[k + 1])
    BY <1>10, <2>1
  <2> QED BY <2>1, <2>2 DEF s
<1>13. f[m] = Hears(bytes)
  BY <1>0, <1>1
<1> HIDE DEF f
<1> DEFINE T == {k \in Nat : k <= m => f[k] \in A}
<1>14. 0 \in T
  BY <1>4, <1>11
<1>15. ASSUME NEW k \in Nat, k \in T
       PROVE  k + 1 \in T
  <2> SUFFICES ASSUME k + 1 <= m PROVE f[k + 1] \in A
    OBVIOUS
  <2>1. k \in 0 .. m - 1 /\ k <= m /\ k + 1 \in 1 .. m
    BY <1>0
  <2> QED BY <1>3, <1>12, <1>15, <2>1
<1>16. \A k \in 0 .. m : f[k] \in A
  <2>1. Nat \subseteq T
    <3> HIDE DEF T
    <3> QED BY <1>14, <1>15, SetInduction
  <2> QED BY <1>0, <2>1
<1> QED BY <1>2, <1>11, <1>12, <1>13, <1>16 DEF m

(* The host is kept by whatever bytes there are.                           *)
LEMMA HostKept ==
  ASSUME MavKept(host), NEW bytes \in Seq(MavlinkByte)
  PROVE  MavKept(Hears(bytes))
<1>1. Len(bytes) \in 0 .. Len(bytes)
  BY LenProperties
<1> QED BY <1>1, HearsStepwise

(* A whole frame is taken as it was meant by a host that waits for one.    *)
LEMMA WholeIsHeard ==
  ASSUME MavKept(host), host.state = "Idle", NEW m \in MavlinkFrame, m.msgid \in DOMAIN MaxLen
  PROVE  LET r == Hears(MavlinkBytes(m)) IN r.result = "Ok" /\ r.taken = MavlinkMeans(m)
<1> DEFINE b == MavlinkBytes(m)
           n == Len(b)
<1>1. b \in Seq(MavlinkByte) /\ n \in Nat
  BY FrameBytes, LenProperties
<1>2. PICK f : /\ f[0] = host /\ f[n] = Hears(b)
               /\ \A k \in 0 .. n : MavKept(f[k])
               /\ \A k \in 0 .. n - 1 : f[k + 1] = ParseChar(f[k], b[k + 1])
  BY <1>1, HearsStepwise
<1> DEFINE T == {k \in Nat : k <= n => Followed(f[k], m, k)}
<1>3. 0 \in T
  BY <1>2 DEF Followed
<1>4. ASSUME NEW k \in Nat, k \in T
      PROVE  k + 1 \in T
  <2> SUFFICES ASSUME k + 1 <= n PROVE Followed(f[k + 1], m, k + 1)
    OBVIOUS
  <2> HIDE DEF n
  <2>1. k \in 0 .. n - 1 /\ k \in 0 .. n /\ k <= n /\ k < n
    BY <1>1
  <2>2. MavKept(f[k]) /\ Followed(f[k], m, k) /\ f[k + 1] = ParseChar(f[k], b[k + 1])
    BY <1>2, <1>4, <2>1
  <2> QED BY <2>1, <2>2, FollowedOn DEF n
<1>5. Followed(f[n], m, n)
  <2>1. Nat \subseteq T
    <3> HIDE DEF T
    <3> QED BY <1>3, <1>4, SetInduction
  <2> HIDE DEF n
  <2>2. n <= n
    BY <1>1
  <2> QED BY <1>1, <2>1, <2>2
<1>6. n # 0 /\ ~(n < n)
  <2>1. n \in Nat /\ n >= HeadLen(m) + Len(m.payload) + 3 /\ HeadLen(m) + Len(m.payload) \in Nat
    BY FrameNumbers
  <2> HIDE DEF n
  <2> QED BY <2>1
<1>7. f[n].result = "Ok" /\ f[n].taken = MavlinkMeans(m)
  BY <1>5, <1>6 DEF Followed
<1> QED BY <1>2, <1>7

(* Steps has a longest one.                                                *)
LEMMA LongestIs == LongestStep \in Steps /\ \A e \in Steps : e <= LongestStep
BY TelemetryAssumption DEF LongestStep

(* The two payloads are messages the host knows.                           *)
LEMMA PayloadsFit ==
  /\ Message(HeartbeatId, PackHeartbeat)
  /\ \A place \in Places :
       Message(SystemId, PackOpenDroneIdSystem(place, IF place = 0 THEN 0 ELSE 1))
<1>1. 0 \in Value /\ 1 \in Value /\ 3 \in Value /\ 34 \in Value
  BY TelemetryAssumption, MavlinkAssumption DEF Value
<1>2. PackHeartbeat \in Seq(Value) /\ Len(PackHeartbeat) = 3
  BY <1>1 DEF PackHeartbeat
<1>3. ASSUME NEW place \in Places
      PROVE  LET s == PackOpenDroneIdSystem(place, IF place = 0 THEN 0 ELSE 1)
             IN  s \in Seq(Value) /\ Len(s) = 3
  <2> DEFINE x == IF place = 0 THEN 0 ELSE 1
  <2>1. x \in Value /\ place \in Value
    BY <1>1, TelemetryAssumption DEF Value
  <2> HIDE DEF x
  <2> QED BY <1>1, <2>1 DEF PackOpenDroneIdSystem
<1>4. /\ HeartbeatId \in DOMAIN MaxLen /\ HeartbeatId # BasicId /\ 3 <= MaxLen[HeartbeatId]
      /\ SystemId \in DOMAIN MaxLen /\ SystemId # BasicId /\ 3 <= MaxLen[SystemId]
  <2>1. MaxLen \in [DOMAIN MaxLen -> 0 .. MaxPayload]
    BY MavlinkAssumption
  <2>2. \A id \in DOMAIN MaxLen : MaxLen[id] \in Nat /\ (MaxLen[id] >= 3 => 3 <= MaxLen[id])
    BY <2>1
  <2> QED BY <2>2, TelemetryAssumption
<1>5. \A id, s : (/\ id \in DOMAIN MaxLen /\ id # BasicId /\ 3 <= MaxLen[id]
                  /\ s \in Seq(Value) /\ Len(s) = 3) => Message(id, s)
  BY DEF Message
<1>6. Message(HeartbeatId, PackHeartbeat)
  BY <1>2, <1>4, <1>5
<1>7. ASSUME NEW place \in Places
      PROVE  Message(SystemId, PackOpenDroneIdSystem(place, IF place = 0 THEN 0 ELSE 1))
  BY <1>3, <1>4, <1>5
<1> QED BY <1>6, <1>7

(* What is written leaves the host kept, and has been read as it was meant *)
(* if it could be.                                                         *)
LEMMA WritesKeeps ==
  ASSUME UsbInv, NEW msgid, NEW payload, Message(msgid, payload), NEW n \in Taken,
         NEW looks \in LineBytes, Writes(msgid, payload, n, looks)
  PROVE  /\ MavKept(host') /\ tx_seq' \in 0 .. TxSeqMod - 1 /\ ~unread'
         /\ silence' \in {0, silence} /\ (msgid = HeartbeatId => silence' = 0)
<1> DEFINE buf == Finalize(msgid, payload, looks)
           m == FrameOf(msgid, payload, looks)
           part == IF n >= Len(buf) THEN buf ELSE SubSeq(buf, 1, n)
           after == Hears(part)
<1>1. tx_seq \in Value /\ looks \in Value /\ TxSeqMod \in Nat \ {0}
  BY TelemetryAssumption, MavlinkAssumption DEF UsbInv, Value
<1>2. /\ m \in MavlinkFrame /\ m.msgid = msgid /\ buf = MavlinkBytes(m)
      /\ MavlinkMeans(m) = Meant(msgid, payload)
  BY <1>1, FinalizeFrames
<1> HIDE DEF m, buf
<1>3. buf \in Seq(MavlinkByte) /\ Len(buf) \in Nat
  BY <1>2, FrameBytes, LenProperties
<1>4. n \in Nat
  BY TelemetryAssumption DEF Taken
<1>5. part \in Seq(MavlinkByte)
  <2>1. CASE n >= Len(buf)
    BY <1>3, <2>1
  <2>2. CASE ~(n >= Len(buf))
    <3>1. 0 \in Nat /\ 0 + n <= Len(buf) /\ 0 + 1 = 1 /\ 0 + n = n
      BY <1>3, <1>4, <2>2
    <3>2. SubSeq(buf, 0 + 1, 0 + n) \in Seq(MavlinkByte)
      BY <1>3, <1>4, <3>1, PartAt
    <3> QED BY <2>2, <3>1, <3>2
  <2> QED BY <2>1, <2>2
<1>6. /\ host' = after /\ tx_seq' = (tx_seq + 1) % TxSeqMod
      /\ unread' = /\ n >= Len(buf) /\ host.state = "Idle"
                   /\ ~(after.result = "Ok" /\ after.taken = Meant(msgid, payload))
      /\ silence' = IF \/ ~(n >= Len(buf)) \/ host.state # "Idle"
                       \/ (msgid = HeartbeatId /\ after.result = "Ok")
                    THEN 0 ELSE silence
  BY DEF Writes, buf
<1>7. MavKept(host')
  <2> HIDE DEF part
  <2> QED BY <1>5, <1>6, HostKept DEF UsbInv
<1>8. tx_seq' \in 0 .. TxSeqMod - 1
  <2>1. tx_seq + 1 \in Nat
    BY DEF UsbInv
  <2> QED BY <1>1, <1>6, <2>1, ModBounded
<1>9. (n >= Len(buf) /\ host.state = "Idle") =>
        after.result = "Ok" /\ after.taken = Meant(msgid, payload)
  <2> SUFFICES ASSUME n >= Len(buf), host.state = "Idle"
               PROVE  after.result = "Ok" /\ after.taken = Meant(msgid, payload)
    OBVIOUS
  <2>1. after = Hears(MavlinkBytes(m)) /\ m.msgid \in DOMAIN MaxLen
    BY <1>2 DEF Message
  <2> HIDE DEF after
  <2> QED BY <1>2, <2>1, WholeIsHeard DEF UsbInv
<1> HIDE DEF after
<1> QED BY <1>6, <1>7, <1>8, <1>9

(* tx.rs:57-89, pack.rs:49-91: a frame that is written whole to a host     *)
(* that waits for one is read as it was meant, and a host to which all     *)
(* frames are written whole reads a heartbeat in every period, give or     *)
(* take a pass, for every message table, period, place of the operator and *)
(* cut.                                                                    *)
THEOREM TelemetryAlwaysArrives == OutputsSpec => []TelemetryArrives
<1>0. LongestStep \in Nat \ {0} /\ HeartbeatPeriod \in Nat \ {0}
      /\ \A d \in Steps : d \in Nat /\ d <= LongestStep
  BY LongestIs, TelemetryAssumption
<1> DEFINE bound == HeartbeatPeriod + LongestStep
<1>1. OutputsInit => UsbInv
  <2> SUFFICES ASSUME OutputsInit PROVE UsbInv
    OBVIOUS
  <2>1. /\ since_heartbeat = 0 /\ tx_seq = 0 /\ host = MavlinkNew /\ silence = 0 /\ unread = FALSE
    BY DEF OutputsInit, UsbInit
  <2>2. 0 \in 0 .. TxSeqMod - 1
    BY TelemetryAssumption, MavlinkAssumption
  <2> QED BY <1>0, <2>1, <2>2, NewKept DEF UsbInv
<1>2. UsbInv /\ [OutputsNext]_outputsVars => UsbInv'
  <2> SUFFICES ASSUME UsbInv, [OutputsNext]_outputsVars PROVE UsbInv'
    OBVIOUS
  <2>0. since_heartbeat \in Nat /\ silence \in Nat /\ silence <= since_heartbeat
        /\ since_heartbeat < bound
    BY DEF UsbInv
  <2>1. ASSUME NEW n \in Taken, NEW looks \in LineBytes, Heartbeat(n, looks)
        PROVE  UsbInv'
    <3>1. since_heartbeat' = 0 /\ Writes(HeartbeatId, PackHeartbeat, n, looks)
      BY <2>1 DEF Heartbeat
    <3>2. Message(HeartbeatId, PackHeartbeat)
      BY PayloadsFit
    <3>3. MavKept(host') /\ tx_seq' \in 0 .. TxSeqMod - 1 /\ ~unread' /\ silence' = 0
      BY <2>1, <3>1, <3>2, WritesKeeps
    <3> QED BY <1>0, <3>1, <3>3 DEF UsbInv
  <2>2. ASSUME NEW p \in Places, NEW n \in Taken, NEW looks \in LineBytes, System(p, n, looks)
        PROVE  UsbInv'
    <3> DEFINE x == IF p = 0 THEN 0 ELSE 1
    <3>1. since_heartbeat' = since_heartbeat
          /\ Writes(SystemId, PackOpenDroneIdSystem(p, x), n, looks)
      BY <2>2 DEF System
    <3>2. Message(SystemId, PackOpenDroneIdSystem(p, x))
      BY PayloadsFit
    <3> HIDE DEF x
    <3>3. MavKept(host') /\ tx_seq' \in 0 .. TxSeqMod - 1 /\ ~unread' /\ silence' \in {0, silence}
      BY <2>2, <3>1, <3>2, WritesKeeps
    <3>4. silence' \in Nat /\ silence' <= since_heartbeat'
      BY <2>0, <3>1, <3>3
    <3> QED BY <2>0, <3>1, <3>3, <3>4 DEF UsbInv
  <2>3. ASSUME NEW d \in Steps, Sleep(d)
        PROVE  UsbInv'
    <3>1. /\ since_heartbeat < HeartbeatPeriod /\ since_heartbeat' = since_heartbeat + d
          /\ silence' = IF silence + d > 2 * HeartbeatPeriod THEN 2 * HeartbeatPeriod
                        ELSE silence + d
          /\ unread' = FALSE /\ tx_seq' = tx_seq /\ host' = host
      BY <2>3 DEF Sleep
    <3>2. /\ since_heartbeat' \in Nat /\ silence' \in Nat /\ silence' <= since_heartbeat'
          /\ since_heartbeat' < HeartbeatPeriod + LongestStep
      BY <1>0, <2>0, <3>1
    <3> QED BY <3>1, <3>2 DEF UsbInv
  <2>4. CASE UNCHANGED usbVars
    BY <2>4 DEF usbVars, UsbInv
  <2> QED BY <2>1, <2>2, <2>3, <2>4 DEF OutputsNext, UsbNext, outputsVars
<1>3. UsbInv => TelemetryArrives
  <2> SUFFICES ASSUME UsbInv PROVE TelemetryArrives
    OBVIOUS
  <2>1. silence \in Nat /\ since_heartbeat \in Nat /\ silence <= since_heartbeat
        /\ since_heartbeat < HeartbeatPeriod + LongestStep
    BY DEF UsbInv
  <2>2. silence < HeartbeatPeriod + LongestStep
    BY <1>0, <2>1
  <2> QED BY <2>2 DEF UsbInv, TelemetryArrives
<1> QED BY <1>1, <1>2, <1>3, PTL DEF OutputsSpec

-----------------------------------------------------------------------------
(* The radios: what a frame or an advert is made of, place by place, and   *)
(* what a receiver that walks through it makes of it.                      *)

(* A byte is a number.                                                     *)
LEMMA OctetNat == Octet \subseteq Nat /\ Octet \subseteq Int
BY DEF Octet

-----------------------------------------------------------------------------
(* Where the receiver is after an element: behind it.                      *)
LEMMA ElementsWalk ==
  ASSUME NEW bytes \in Seq(Nat), NEW wide \in {1, 2}
  PROVE  /\ Elements(bytes, Len(bytes) + 1, wide) = <<>>
         /\ \A at \in 1 .. Len(bytes), n \in Nat :
              (/\ n = bytes[at + 1] + (IF wide = 2 THEN 256 * bytes[at + 2] ELSE 0)
               /\ at + wide + n <= Len(bytes)) =>
                Elements(bytes, at, wide) =
                  <<[id |-> bytes[at], body |-> SubSeq(bytes, (at + wide) + 1, (at + wide) + n)]>>
                    \o Elements(bytes, at + 1 + wide + n, wide)
<1> DEFINE m == Len(bytes)
           D == 1 .. m + 1
           size(at) == bytes[at + 1] + (IF wide = 2 THEN 256 * bytes[at + 2] ELSE 0)
           first(at) == at + 1 + wide
           cut(at) == first(at) > m + 1 \/ first(at) + size(at) > m + 1
           Rest(g, at) == IF at = m + 1 THEN <<>>
                          ELSE IF cut(at) THEN <<Broken>>
                          ELSE <<[id |-> bytes[at],
                                  body |-> SubSeq(bytes, first(at), first(at) + size(at) - 1)]>>
                                 \o g[first(at) + size(at)]
           Walk(g) == [at \in D |-> Rest(g, at)]
           walk == CHOOSE g : g = Walk(g)
           Good(k, g) == g = [at \in D |-> g[at]] /\ \A at \in D : m + 1 - k <= at => g[at] = Rest(g, at)
           T == {k \in Nat : \E g : Good(k, g)}
<1>0. m \in Nat
  BY LenProperties
<1>1. \A at : Elements(bytes, at, wide) = walk[at]
  BY DEF Elements
<1>2. ASSUME NEW at \in D, at # m + 1, ~cut(at)
      PROVE  /\ size(at) \in Nat /\ first(at) + size(at) \in D /\ first(at) + size(at) > at
             /\ first(at) + size(at) - 1 = (at + wide) + size(at)
             /\ first(at) = (at + wide) + 1 /\ first(at) + size(at) = at + 1 + wide + size(at)
  <2>1. at + wide <= m /\ at + 1 \in 1 .. m /\ at \in 1 .. m /\ (wide = 2 => at + 2 \in 1 .. m)
    BY <1>0, <1>2
  <2>2. bytes[at + 1] \in Nat /\ (wide = 2 => bytes[at + 2] \in Nat)
    BY <2>1, ElementOfSeq
  <2>3. size(at) \in Nat
    BY <2>2
  <2>4. first(at) + size(at) <= m + 1
    BY <1>2
  <2>5. at \in Nat /\ wide \in Nat
    BY <1>2
  <2> HIDE DEF size, m
  <2>6. /\ at + 1 + wide + size(at) \in 1 .. m + 1 /\ at + 1 + wide + size(at) > at
        /\ at + 1 + wide + size(at) - 1 = (at + wide) + size(at)
        /\ at + 1 + wide = (at + wide) + 1
    BY <1>0, <2>3, <2>4, <2>5
  <2> QED BY <2>3, <2>6
<1> HIDE DEF cut, first, size
<1>3. 0 \in T
  <2> DEFINE h == [at \in D |-> <<>>]
  <2>1. Good(0, h)
    BY <1>0
  <2> HIDE DEF h
  <2> QED BY <2>1
<1>4. ASSUME NEW k \in Nat, k \in T
      PROVE  k + 1 \in T
  <2>1. PICK g : Good(k, g)
    BY <1>4
  <2> DEFINE h == [at \in D |-> IF at = m + 1 - (k + 1) THEN Rest(g, at) ELSE g[at]]
  <2>2. h = [at \in D |-> h[at]]
    OBVIOUS
  <2>3. ASSUME NEW at \in D, m + 1 - (k + 1) <= at
        PROVE  h[at] = Rest(h, at)
    <3>1. h[at] = Rest(g, at)
      <4>1. CASE at = m + 1 - (k + 1)
        BY <4>1
      <4>2. CASE at # m + 1 - (k + 1)
        <5>1. m + 1 - k <= at /\ h[at] = g[at]
          BY <1>0, <2>3, <4>2
        <5> HIDE DEF h, Rest
        <5> QED BY <2>1, <5>1
      <4> QED BY <4>1, <4>2
    <3>2. Rest(g, at) = Rest(h, at)
      <4>1. CASE at = m + 1 \/ cut(at)
        <5> HIDE DEF h
        <5> QED BY <4>1
      <4>2. CASE ~(at = m + 1 \/ cut(at))
        <5>1. first(at) + size(at) \in D /\ first(at) + size(at) # m + 1 - (k + 1)
          <6>1. size(at) \in Nat /\ first(at) + size(at) \in D /\ first(at) + size(at) > at
            BY <1>2, <4>2
          <6> QED BY <1>0, <2>3, <6>1
        <5>2. h[first(at) + size(at)] = g[first(at) + size(at)]
          BY <5>1
        <5> HIDE DEF h
        <5> QED BY <5>2
      <4> QED BY <4>1, <4>2
    <3> QED BY <3>1, <3>2
  <2> HIDE DEF h
  <2>4. Good(k + 1, h)
    BY <2>2, <2>3
  <2> HIDE DEF Good
  <2> QED BY <2>4
<1>5. m \in T
  <2> HIDE DEF T
  <2> QED BY <1>0, <1>3, <1>4, SetInduction
<1>6. PICK g : Good(m, g)
  BY <1>5
<1>7. g = Walk(g)
  <2>1. \A at \in D : g[at] = Rest(g, at)
    <3> HIDE DEF Rest
    <3> QED BY <1>0, <1>6
  <2>2. g = [at \in D |-> g[at]]
    BY <1>6
  <2> HIDE DEF Rest
  <2> QED BY <2>1, <2>2
<1> HIDE DEF Walk
<1>8. walk = Walk(walk)
  BY <1>7
<1> HIDE DEF walk
<1>9. \A at \in D : walk[at] = Rest(walk, at)
  <2> HIDE DEF Rest
  <2> QED BY <1>8 DEF Walk
<1>10. Elements(bytes, Len(bytes) + 1, wide) = <<>>
  <2>1. m + 1 \in D
    BY <1>0
  <2> QED BY <1>1, <1>9, <2>1
<1>11. ASSUME NEW at \in 1 .. Len(bytes), NEW n \in Nat,
              n = bytes[at + 1] + (IF wide = 2 THEN 256 * bytes[at + 2] ELSE 0),
              at + wide + n <= Len(bytes)
       PROVE  Elements(bytes, at, wide) =
                <<[id |-> bytes[at], body |-> SubSeq(bytes, (at + wide) + 1, (at + wide) + n)]>>
                  \o Elements(bytes, at + 1 + wide + n, wide)
  <2>1. at \in D /\ at # m + 1 /\ n = size(at)
    <3>1. n = size(at)
      BY <1>11 DEF size
    <3> HIDE DEF size
    <3>2. at \in 1 .. m
      BY <1>11
    <3> HIDE DEF m
    <3>3. at \in D /\ at # m + 1
      BY <1>0, <3>2
    <3> QED BY <3>1, <3>3
  <2>2. ~cut(at)
    <3>1. at + wide + n <= m /\ at \in Nat /\ wide \in Nat
      BY <1>11
    <3> HIDE DEF size, m
    <3>2. ~(at + 1 + wide > m + 1 \/ at + 1 + wide + n > m + 1)
      BY <1>0, <3>1
    <3> QED BY <2>1, <3>2 DEF cut, first
  <2>3. walk[at] = <<[id |-> bytes[at],
                      body |-> SubSeq(bytes, first(at), first(at) + size(at) - 1)]>>
                     \o walk[first(at) + size(at)]
    BY <1>9, <2>1, <2>2
  <2>4. first(at) + size(at) - 1 = (at + wide) + n /\ first(at) = (at + wide) + 1
        /\ first(at) + size(at) = at + 1 + wide + n
    BY <1>2, <2>1, <2>2
  <2> QED BY <1>1, <2>3, <2>4
<1> QED BY <1>10, <1>11

(* Messages to be sent, and what is read of them.                          *)
Msgs(msgs) == msgs \in Seq(Octet) /\ Len(msgs) \in 1 .. PackLimit

(* bytes hold the counter and the pack of msgs behind the place k.         *)
Carries(bytes, k, counter, msgs) ==
  /\ k + 4 + 25 * Len(msgs) <= Len(bytes)
  /\ bytes[k + 1] = counter /\ bytes[k + 2] = 242 /\ bytes[k + 3] = 25 /\ bytes[k + 4] = Len(msgs)
  /\ \A i \in 1 .. Len(msgs) : bytes[k + 5 + (i - 1) * 25] = msgs[i]

(* Numbers in the head of a pack are bytes.                                *)
LEMMA MsgsNumbers ==
  ASSUME NEW msgs, Msgs(msgs)
  PROVE  /\ Len(msgs) \in Nat /\ Len(msgs) >= 1 /\ Len(msgs) <= 9
         /\ \A i \in 1 .. Len(msgs) : msgs[i] \in Octet /\ i \in Nat /\ 1 <= i /\ i <= Len(msgs)
<1>1. PackLimit \in Nat /\ PackLimit <= 9
  BY RadioAssumption
<1>2. Len(msgs) \in Nat /\ Len(msgs) >= 1 /\ Len(msgs) <= 9
  BY <1>1 DEF Msgs
<1>3. \A i \in 1 .. Len(msgs) : msgs[i] \in Octet
  BY ElementOfSeq DEF Msgs
<1> QED BY <1>2, <1>3

(* The messages one after the other, 25 bytes each.                        *)
LEMMA MessagesFlat ==
  ASSUME NEW msgs, Msgs(msgs)
  PROVE  LET s == FlattenSeq([i \in DOMAIN msgs |-> MessageBytes(msgs[i])])
         IN  /\ s \in Seq(Octet) /\ Len(s) = 25 * Len(msgs)
             /\ \A i \in 1 .. Len(msgs) : s[(i - 1) * 25 + 1] = msgs[i]
<1> DEFINE n == Len(msgs)
           parts == [i \in DOMAIN msgs |-> MessageBytes(msgs[i])]
<1>1. n \in Nat \ {0} /\ DOMAIN msgs = 1 .. n /\ \A i \in 1 .. n : msgs[i] \in Octet
  BY MsgsNumbers, LenProperties DEF Msgs
<1>2. ASSUME NEW b \in Octet
      PROVE  /\ MessageBytes(b) \in Seq(Octet) /\ Len(MessageBytes(b)) = 25
             /\ MessageBytes(b)[1] = b
  <2>1. MessageBytes(b) = [i \in 1 .. 25 |-> b]
    BY RadioAssumption DEF MessageBytes
  <2>2. 25 \in Nat /\ [i \in 1 .. 25 |-> b] \in [1 .. 25 -> Octet]
    OBVIOUS
  <2>3. [i \in 1 .. 25 |-> b] \in Seq(Octet) /\ Len([i \in 1 .. 25 |-> b]) = 25
    BY <2>2, FunctionIsSeq
  <2> QED BY <2>1, <2>3
<1> HIDE DEF n
<1>3. parts \in [1 .. n -> Seq(Octet)] /\ \A i \in 1 .. n : parts[i] = MessageBytes(msgs[i])
  BY <1>1, <1>2
<1> HIDE DEF parts
<1>4. PICK f : Flattens(Octet, n, parts, f)
  BY <1>1, <1>3, FlattenStepwise
<1> DEFINE Flat(k) == Len(f[k]) = 25 * k /\ \A i \in 1 .. k : f[k][(i - 1) * 25 + 1] = msgs[i]
           T == {k \in Nat : k + 1 <= n => Flat(k + 1)}
<1>5. 0 \in T
  <2>1. 1 \in 1 .. n
    BY <1>1
  <2>2. Len(f[1]) = 25 /\ f[1][1] = msgs[1]
    BY <1>1, <1>2, <1>3, <1>4, <2>1 DEF Flattens
  <2>3. Flat(1)
    BY <2>2
  <2> HIDE DEF Flat
  <2> QED BY <2>3
<1>6. ASSUME NEW k \in Nat, k \in T
      PROVE  k + 1 \in T
  <2> SUFFICES ASSUME k + 1 + 1 <= n PROVE Flat(k + 1 + 1)
    OBVIOUS
  <2> DEFINE j == k + 1
  <2>1. j \in 1 .. n /\ j \in 1 .. n - 1 /\ j + 1 \in 1 .. n /\ j \in Nat /\ j + 1 = k + 1 + 1
    BY <1>1
  <2>2. Len(f[j]) = 25 * j /\ \A i \in 1 .. j : f[j][(i - 1) * 25 + 1] = msgs[i]
    BY <1>6, <2>1
  <2> HIDE DEF j
  <2>3. f[j] \in Seq(Octet) /\ f[j + 1] = f[j] \o MessageBytes(msgs[j + 1])
    BY <1>3, <1>4, <2>1 DEF Flattens
  <2> DEFINE t == MessageBytes(msgs[j + 1])
  <2>4. t \in Seq(Octet) /\ Len(t) = 25 /\ t[1] = msgs[j + 1]
    BY <1>1, <1>2, <2>1
  <2> HIDE DEF t
  <2>5. /\ Len(f[j] \o t) = Len(f[j]) + Len(t)
        /\ \A i \in 1 .. Len(f[j]) : (f[j] \o t)[i] = f[j][i]
        /\ \A i \in 1 .. Len(t) : (f[j] \o t)[Len(f[j]) + i] = t[i]
    <3>1. f[j] \in Seq(Octet) /\ t \in Seq(Octet)
      BY <2>3, <2>4
    <3> QED BY <3>1, JoinedAt
  <2>6. Len(f[j + 1]) = 25 * (j + 1)
    BY <2>1, <2>2, <2>3, <2>4, <2>5 DEF t
  <2>7. ASSUME NEW i \in 1 .. j + 1
        PROVE  f[j + 1][(i - 1) * 25 + 1] = msgs[i]
    <3>1. CASE i = j + 1
      <4>1. (f[j] \o t)[25 * j + 1] = t[1]
        <5>1. 1 \in 1 .. Len(t) /\ Len(f[j]) = 25 * j
          BY <2>2, <2>4
        <5>2. (f[j] \o t)[Len(f[j]) + 1] = t[1]
          BY <2>5, <5>1
        <5> QED BY <5>1, <5>2
      <4>2. (i - 1) * 25 + 1 = 25 * j + 1
        BY <2>1, <3>1
      <4> QED BY <2>3, <2>4, <3>1, <4>1, <4>2 DEF t
    <3>2. CASE i # j + 1
      <4>1. i \in 1 .. j /\ (i - 1) * 25 + 1 \in 1 .. 25 * j
        BY <2>1, <3>2
      <4> QED BY <2>2, <2>3, <2>5, <4>1 DEF t
    <3> QED BY <3>1, <3>2
  <2>8. Flat(j + 1)
    BY <2>6, <2>7
  <2> HIDE DEF Flat
  <2> QED BY <2>1, <2>8
<1>7. Flat(n)
  <2>1. Nat \subseteq T
    <3> HIDE DEF T
    <3> QED BY <1>5, <1>6, SetInduction
  <2>2. n - 1 \in Nat /\ (n - 1) + 1 = n /\ n <= n
    BY <1>1
  <2> HIDE DEF Flat
  <2> QED BY <2>1, <2>2
<1> QED
  <2>1. n \in 1 .. n
    BY <1>1
  <2> QED BY <1>4, <1>7, <2>1 DEF n, parts, Flattens

(* A pack that was built is its head and the messages.                     *)
LEMMA PackShape ==
  ASSUME NEW msgs \in Seq(Octet), NEW room, BuildPack(msgs, room).result = "Ok"
  PROVE  LET p == BuildPack(msgs, room).bytes
         IN  /\ Msgs(msgs) /\ p \in Seq(Octet) /\ Len(p) = 3 + 25 * Len(msgs)
             /\ p[1] = 242 /\ p[2] = 25 /\ p[3] = Len(msgs)
             /\ \A i \in 1 .. Len(msgs) : p[4 + (i - 1) * 25] = msgs[i]
<1> DEFINE n == Len(msgs)
           s == FlattenSeq([i \in DOMAIN msgs |-> MessageBytes(msgs[i])])
           head == PackHead(n)
<1>1. msgs # <<>> /\ ~(n > PackLimit) /\ BuildPack(msgs, room).bytes = head \o s
  BY DEF BuildPack, Failed, Built
<1>2. n \in Nat /\ n # 0
  BY <1>1, LenProperties, EmptySeq
<1>3. Msgs(msgs)
  BY <1>1, <1>2, RadioAssumption DEF Msgs
<1>4. s \in Seq(Octet) /\ Len(s) = 25 * n /\ \A i \in 1 .. n : s[(i - 1) * 25 + 1] = msgs[i]
  BY <1>3, MessagesFlat
<1> HIDE DEF s
<1>5. head \in Seq(Octet) /\ Len(head) = 3 /\ head[1] = 242 /\ head[2] = 25 /\ head[3] = n
  <2>1. n \in Octet /\ 242 \in Octet /\ 25 \in Octet
    <3>1. n <= 9
      BY <1>3, MsgsNumbers
    <3> HIDE DEF n
    <3> QED BY <1>2, <3>1 DEF Octet
  <2>2. head = <<242, 25, n>>
    BY RadioAssumption DEF PackHead
  <2> HIDE DEF n, head
  <2> QED BY <2>1, <2>2
<1> HIDE DEF head, n
<1>6. /\ head \o s \in Seq(Octet) /\ Len(head \o s) = Len(head) + Len(s)
      /\ \A i \in 1 .. Len(head) : (head \o s)[i] = head[i]
      /\ \A i \in 1 .. Len(s) : (head \o s)[Len(head) + i] = s[i]
  <2>1. head \in Seq(Octet) /\ s \in Seq(Octet)
    BY <1>4, <1>5
  <2> QED BY <2>1, JoinedAt
<1> DEFINE p == head \o s
<1>7. p[1] = 242 /\ p[2] = 25 /\ p[3] = n
  <2>1. 1 \in 1 .. Len(head) /\ 2 \in 1 .. Len(head) /\ 3 \in 1 .. Len(head)
    BY <1>5
  <2> QED BY <1>5, <1>6, <2>1
<1>8. ASSUME NEW i \in 1 .. n PROVE p[4 + (i - 1) * 25] = msgs[i]
  <2>1. (i - 1) * 25 + 1 \in 1 .. Len(s) /\ 4 + (i - 1) * 25 = Len(head) + ((i - 1) * 25 + 1)
    BY <1>2, <1>4, <1>5
  <2>2. p[Len(head) + ((i - 1) * 25 + 1)] = s[(i - 1) * 25 + 1]
    BY <1>6, <2>1
  <2> QED BY <1>4, <2>1, <2>2
<1> QED BY <1>1, <1>3, <1>4, <1>5, <1>6, <1>7, <1>8 DEF n

(* Who looks at the part of the bytes that holds all of it finds it there. *)
LEMMA CarriesInPart ==
  ASSUME NEW bytes \in Seq(Octet), NEW a \in Nat, NEW n \in Nat, a + n <= Len(bytes), NEW k \in Nat,
         NEW counter, NEW msgs, Msgs(msgs), Carries(bytes, a + k, counter, msgs),
         k + 4 + 25 * Len(msgs) <= n
  PROVE  Carries(SubSeq(bytes, a + 1, a + n), k, counter, msgs)
<1> DEFINE t == SubSeq(bytes, a + 1, a + n)
           c == Len(msgs)
<1>1. Len(t) = n /\ \A i \in 1 .. n : t[i] = bytes[a + i]
  BY PartAt
<1>2. c \in Nat /\ c >= 1
  BY MsgsNumbers
<1> HIDE DEF t
<1>3. \A j \in Nat : (1 <= j /\ j <= n) => t[j] = bytes[a + j]
  BY <1>1
<1>4. k + 4 + 25 * c <= n
  OBVIOUS
<1> HIDE DEF c
<1>5. /\ t[k + 1] = bytes[a + k + 1] /\ t[k + 2] = bytes[a + k + 2]
      /\ t[k + 3] = bytes[a + k + 3] /\ t[k + 4] = bytes[a + k + 4]
  <2>1. /\ k + 1 \in Nat /\ 1 <= k + 1 /\ k + 1 <= n /\ a + (k + 1) = a + k + 1
        /\ k + 2 \in Nat /\ 1 <= k + 2 /\ k + 2 <= n /\ a + (k + 2) = a + k + 2
        /\ k + 3 \in Nat /\ 1 <= k + 3 /\ k + 3 <= n /\ a + (k + 3) = a + k + 3
        /\ k + 4 \in Nat /\ 1 <= k + 4 /\ k + 4 <= n /\ a + (k + 4) = a + k + 4
    BY <1>2, <1>4
  <2> QED BY <1>3, <2>1
<1>6. t[k + 1] = counter /\ t[k + 2] = 242 /\ t[k + 3] = 25 /\ t[k + 4] = c
  BY <1>5 DEF Carries, c
<1>7. ASSUME NEW i \in 1 .. c PROVE t[k + 5 + (i - 1) * 25] = msgs[i]
  <2>1. k + 5 + (i - 1) * 25 \in Nat /\ 1 <= k + 5 + (i - 1) * 25 /\ k + 5 + (i - 1) * 25 <= n
        /\ a + (k + 5 + (i - 1) * 25) = a + k + 5 + (i - 1) * 25
    BY <1>2, <1>4
  <2> QED BY <1>3, <2>1 DEF Carries, c
<1> QED BY <1>1, <1>4, <1>6, <1>7 DEF Carries, c, t

(* A receiver reads in service info what it carries.                       *)
LEMMA InfoIsRead ==
  ASSUME NEW info \in Seq(Octet), NEW counter, NEW msgs, Msgs(msgs), Carries(info, 0, counter, msgs),
         Len(info) = 4 + 25 * Len(msgs)
  PROVE  ReadInfo(info) = [counter |-> counter, msgs |-> msgs]
<1> DEFINE pack == Tail(info)
           c == Len(msgs)
<1>1. c \in Nat /\ c >= 1 /\ \A i \in 1 .. c : i \in Nat /\ 1 <= i /\ i <= c
  BY MsgsNumbers
<1>2. /\ info[1] = counter /\ info[2] = 242 /\ info[3] = 25 /\ info[4] = c
      /\ \A i \in 1 .. c : info[5 + (i - 1) * 25] = msgs[i]
  BY DEF Carries
<1>3. Len(info) = 4 + 25 * c /\ Len(info) \in Nat
  BY LenProperties
<1> HIDE DEF c
<1>4. /\ pack \in Seq(Octet) /\ Len(pack) = 3 + 25 * c
      /\ \A i \in 1 .. 3 + 25 * c : pack[i] = info[i + 1]
  <2>1. Len(info) # 0 /\ info # <<>>
    BY <1>1, <1>3, EmptySeq
  <2>2. pack \in Seq(Octet) /\ Len(pack) = Len(info) - 1
        /\ \A i \in 1 .. Len(pack) : pack[i] = info[i + 1]
    BY <1>3, <2>1, HeadTailProperties
  <2> QED BY <1>1, <1>3, <2>2
<1> HIDE DEF pack
<1>5. pack[1] = 242 /\ pack[2] = 25 /\ pack[3] = c
  <2>1. 1 \in 1 .. 3 + 25 * c /\ 2 \in 1 .. 3 + 25 * c /\ 3 \in 1 .. 3 + 25 * c
    BY <1>1
  <2> QED BY <1>2, <1>4, <2>1
<1>6. SubSeq(pack, 1, 3) = PackHead(c)
  <2>1. 0 + 3 <= Len(pack) /\ 0 \in Nat /\ 3 \in Nat /\ 0 + 1 = 1 /\ 0 + 3 = 3
    BY <1>1, <1>4
  <2>2. /\ SubSeq(pack, 0 + 1, 0 + 3) \in Seq(Octet) /\ Len(SubSeq(pack, 0 + 1, 0 + 3)) = 3
        /\ \A i \in 1 .. 3 : SubSeq(pack, 0 + 1, 0 + 3)[i] = pack[0 + i]
    BY <1>4, <2>1, PartAt
  <2> DEFINE s == SubSeq(pack, 1, 3)
  <2>3. s \in Seq(Octet) /\ Len(s) = 3 /\ s[1] = 242 /\ s[2] = 25 /\ s[3] = c
    BY <1>5, <2>1, <2>2
  <2> HIDE DEF s
  <2>4. s = <<242, 25, c>>
    BY <2>3
  <2> QED BY <2>4, RadioAssumption DEF PackHead, s
<1>7. [i \in 1 .. c |-> pack[4 + (i - 1) * 25]] = msgs
  <2>1. ASSUME NEW i \in 1 .. c PROVE pack[4 + (i - 1) * 25] = msgs[i]
    <3>1. 4 + (i - 1) * 25 \in 1 .. 3 + 25 * c /\ 4 + (i - 1) * 25 + 1 = 5 + (i - 1) * 25
      BY <1>1
    <3> QED BY <1>2, <1>4, <3>1
  <2>2. msgs = [i \in 1 .. c |-> msgs[i]]
    BY LenProperties DEF Msgs, c
  <2> QED BY <2>1, <2>2
<1>8. ~(Len(info) < 4) /\ Len(pack) = 3 + c * MessageSize
  BY <1>1, <1>3, <1>4, RadioAssumption
<1> QED BY <1>2, <1>5, <1>6, <1>7, <1>8, RadioAssumption DEF ReadInfo, pack

(* t is in s behind the first k bytes.                                     *)
Holds(s, k, t) ==
  /\ Len(t) \in Nat /\ k + Len(t) <= Len(s)
  /\ \A i \in 1 .. Len(t) : s[k + i] = t[i]

(* What is appended is behind what was there, which stays where it was.    *)
LEMMA Appended ==
  ASSUME NEW s \in Seq(Octet), NEW t \in Seq(Octet)
  PROVE  /\ s \o t \in Seq(Octet) /\ Len(s \o t) = Len(s) + Len(t)
         /\ Holds(s \o t, Len(s), t)
         /\ \A k \in Nat : \A u : Holds(s, k, u) => Holds(s \o t, k, u)
<1> DEFINE x == s \o t
           a == Len(s)
           n == Len(t)
<1>1. /\ a \in Nat /\ n \in Nat /\ x \in Seq(Octet) /\ Len(x) = a + n
      /\ \A i \in 1 .. a : x[i] = s[i]
      /\ \A i \in 1 .. n : x[a + i] = t[i]
  BY JoinedAt
<1> HIDE DEF x, a, n
<1>2. Holds(x, a, t)
  BY <1>1 DEF Holds, n
<1>3. ASSUME NEW k \in Nat, NEW u, Holds(s, k, u)
      PROVE  Holds(x, k, u)
  <2>1. Len(u) \in Nat /\ k + Len(u) <= a /\ \A i \in 1 .. Len(u) : s[k + i] = u[i]
    BY <1>3 DEF Holds, a
  <2>2. ASSUME NEW i \in 1 .. Len(u) PROVE x[k + i] = u[i]
    <3>1. k + i \in 1 .. a
      BY <1>1, <2>1
    <3> QED BY <1>1, <2>1, <3>1
  <2>3. k + Len(u) <= Len(x)
    BY <1>1, <2>1
  <2> QED BY <2>1, <2>2, <2>3 DEF Holds
<1> QED BY <1>1, <1>2, <1>3 DEF x, a, n

(* What s holds, b holds as well, in the same place.                       *)
Within(s, b) == \A k \in Nat : \A u : Holds(s, k, u) => Holds(b, k, u)

(* What is put together of two has the second behind the first, and so has *)
(* everything that has it.                                                 *)
LEMMA WithinPart ==
  ASSUME NEW s \in Seq(Octet), NEW t \in Seq(Octet), NEW b, Within(s \o t, b)
  PROVE  Within(s, b) /\ Holds(b, Len(s), t)
<1>1. Len(s) \in Nat
  BY LenProperties
<1>2. Holds(s \o t, Len(s), t) /\ \A k \in Nat : \A u : Holds(s, k, u) => Holds(s \o t, k, u)
  BY Appended
<1> QED BY <1>1, <1>2 DEF Within

(* Short sequences of bytes.                                               *)
LEMMA ShortBytes ==
  /\ <<>> \in Seq(Octet) /\ Len(<<>>) = 0
  /\ \A a \in Octet : <<a>> \in Seq(Octet) /\ Len(<<a>>) = 1
  /\ \A a, b \in Octet : <<a, b>> \in Seq(Octet) /\ Len(<<a, b>>) = 2
  /\ \A a, b, c \in Octet : <<a, b, c>> \in Seq(Octet) /\ Len(<<a, b, c>>) = 3
  /\ \A a, b, c, d \in Octet : <<a, b, c, d>> \in Seq(Octet) /\ Len(<<a, b, c, d>>) = 4
  /\ \A a, b, c, d, e, f \in Octet :
       <<a, b, c, d, e, f>> \in Seq(Octet) /\ Len(<<a, b, c, d, e, f>>) = 6
OBVIOUS

(* The same where a short sequence is held.                                *)
LEMMA HoldsShort ==
  /\ \A s, k, a : Holds(s, k, <<a>>) => s[k + 1] = a
  /\ \A s, k, a, b : Holds(s, k, <<a, b>>) => s[k + 1] = a /\ s[k + 2] = b
  /\ \A s, k, a, b, c : Holds(s, k, <<a, b, c>>) =>
       s[k + 1] = a /\ s[k + 2] = b /\ s[k + 3] = c
  /\ \A s, k, a, b, c, d : Holds(s, k, <<a, b, c, d>>) =>
       s[k + 1] = a /\ s[k + 2] = b /\ s[k + 3] = c /\ s[k + 4] = d
  /\ \A s, k, a, b, c, d, e, f : Holds(s, k, <<a, b, c, d, e, f>>) =>
       /\ s[k + 1] = a /\ s[k + 2] = b /\ s[k + 3] = c
       /\ s[k + 4] = d /\ s[k + 5] = e /\ s[k + 6] = f
BY DEF Holds

(* The numbers in the frames are bytes.                                    *)
LEMMA OctetsUsed ==
  /\ 0 \in Octet /\ 1 \in Octet /\ 2 \in Octet /\ 3 \in Octet /\ 4 \in Octet /\ 9 \in Octet
  /\ 11 \in Octet /\ 13 \in Octet /\ 14 \in Octet /\ 16 \in Octet /\ 19 \in Octet /\ 25 \in Octet
  /\ 80 \in Octet /\ 81 \in Octet /\ 105 \in Octet /\ 111 \in Octet /\ 128 \in Octet
  /\ 136 \in Octet /\ 140 \in Octet /\ 146 \in Octet /\ 154 \in Octet /\ 157 \in Octet
  /\ 188 \in Octet /\ 208 \in Octet /\ 221 \in Octet /\ 242 \in Octet /\ 250 \in Octet
  /\ 255 \in Octet
BY DEF Octet

(* A number in two bytes.                                                  *)
LEMMA Le16Shape ==
  /\ \A n \in Octet : Le16(n) = <<n, 0>> /\ Le16(n) \in Seq(Octet) /\ Len(Le16(n)) = 2
  /\ Le16(1056) \in Seq(Octet) /\ Len(Le16(1056)) = 2
  /\ Le16(512) \in Seq(Octet) /\ Len(Le16(512)) = 2
<1>1. ASSUME NEW n \in Octet
      PROVE  Le16(n) = <<n, 0>> /\ Le16(n) \in Seq(Octet) /\ Len(Le16(n)) = 2
  <2>1. n % 256 = n /\ (n \div 256) % 256 = 0
    BY DEF Octet
  <2> QED BY <2>1, ShortBytes, OctetsUsed DEF Le16
<1>2. 1056 % 256 \in Octet /\ (1056 \div 256) % 256 \in Octet
      /\ 512 % 256 \in Octet /\ (512 \div 256) % 256 \in Octet
  BY DEF Octet
<1> QED BY <1>1, <1>2, ShortBytes DEF Le16

(* The management header.                                                  *)
LEMMA MgmtShape ==
  ASSUME NEW kind \in Octet, NEW da \in Seq(Octet), Len(da) = 6, NEW bssid \in Seq(Octet), Len(bssid) = 6
  PROVE  /\ Mgmt(kind, da, bssid) \in Seq(Octet) /\ Len(Mgmt(kind, da, bssid)) = 24
         /\ Mgmt(kind, da, bssid)[1] = kind
<1> DEFINE x1 == <<kind, 0, 0, 0>>
           x2 == x1 \o da
           x3 == x2 \o Mac
           x4 == x3 \o bssid
           x5 == x4 \o <<0, 0>>
<1>1. x1 \in Seq(Octet) /\ Len(x1) = 4 /\ <<0, 0>> \in Seq(Octet) /\ Len(<<0, 0>>) = 2
  BY OctetsUsed, ShortBytes
<1>2. Mac \in Seq(Octet) /\ Len(Mac) = 6
  BY RadioAssumption
<1>3. Holds(x1, 0, <<kind>>)
  BY <1>1 DEF Holds
<1> HIDE DEF x1
<1>5. x2 \in Seq(Octet) /\ Len(x2) = 10 /\ Holds(x2, 0, <<kind>>)
  <2>1. x1 \in Seq(Octet) /\ da \in Seq(Octet) /\ Holds(x1, 0, <<kind>>)
    BY <1>1, <1>3
  <2>2. x2 \in Seq(Octet) /\ Len(x2) = Len(x1) + Len(da) /\ Holds(x2, 0, <<kind>>)
    <3>1. 0 \in Nat
      OBVIOUS
    <3> QED BY <2>1, <3>1, Appended
  <2>3. Len(x1) = 4 /\ Len(da) = 6
    BY <1>1, <1>3
  <2> HIDE DEF x2
  <2> QED BY <2>2, <2>3
<1> HIDE DEF x2
<1>6. x3 \in Seq(Octet) /\ Len(x3) = 16 /\ Holds(x3, 0, <<kind>>)
  <2>1. x2 \in Seq(Octet) /\ Mac \in Seq(Octet) /\ Holds(x2, 0, <<kind>>)
    BY <1>2, <1>5
  <2>2. x3 \in Seq(Octet) /\ Len(x3) = Len(x2) + Len(Mac) /\ Holds(x3, 0, <<kind>>)
    <3>1. 0 \in Nat
      OBVIOUS
    <3> QED BY <2>1, <3>1, Appended
  <2>3. Len(x2) = 10 /\ Len(Mac) = 6
    BY <1>2, <1>5
  <2> HIDE DEF x3
  <2> QED BY <2>2, <2>3
<1> HIDE DEF x3
<1>7. x4 \in Seq(Octet) /\ Len(x4) = 22 /\ Holds(x4, 0, <<kind>>)
  <2>1. x3 \in Seq(Octet) /\ bssid \in Seq(Octet) /\ Holds(x3, 0, <<kind>>)
    BY <1>6
  <2>2. x4 \in Seq(Octet) /\ Len(x4) = Len(x3) + Len(bssid) /\ Holds(x4, 0, <<kind>>)
    <3>1. 0 \in Nat
      OBVIOUS
    <3> QED BY <2>1, <3>1, Appended
  <2>3. Len(x3) = 16 /\ Len(bssid) = 6
    BY <1>6
  <2> HIDE DEF x4
  <2> QED BY <2>2, <2>3
<1> HIDE DEF x4
<1>8. x5 \in Seq(Octet) /\ Len(x5) = 24 /\ Holds(x5, 0, <<kind>>)
  <2>1. x4 \in Seq(Octet) /\ <<0, 0>> \in Seq(Octet) /\ Holds(x4, 0, <<kind>>)
    BY <1>1, <1>7
  <2>2. x5 \in Seq(Octet) /\ Len(x5) = Len(x4) + Len(<<0, 0>>) /\ Holds(x5, 0, <<kind>>)
    <3>1. 0 \in Nat
      OBVIOUS
    <3> QED BY <2>1, <3>1, Appended
  <2>3. Len(x4) = 22 /\ Len(<<0, 0>>) = 2
    BY <1>1, <1>7
  <2> HIDE DEF x5
  <2> QED BY <2>2, <2>3
<1> HIDE DEF x5
<1>9. x5[1] = kind
  <2>1. x5[0 + 1] = kind
    BY <1>8, HoldsShort
  <2> QED BY <2>1
<1>10. Mgmt(kind, da, bssid) = x5
  BY DEF Mgmt, x1, x2, x3, x4, x5
<1> QED BY <1>8, <1>9, <1>10

(* The pack is held where its bytes are.                                   *)
LEMMA HoldsPack ==
  ASSUME NEW msgs \in Seq(Octet), NEW room, BuildPack(msgs, room).result = "Ok",
         NEW s \in Seq(Octet), NEW k \in Nat, Holds(s, k + 1, BuildPack(msgs, room).bytes)
  PROVE  Carries(s, k, s[k + 1], msgs) /\ Msgs(msgs)
<1> DEFINE p == BuildPack(msgs, room).bytes
           n == Len(msgs)
<1>1. /\ Msgs(msgs) /\ Len(p) = 3 + 25 * n /\ p[1] = 242 /\ p[2] = 25 /\ p[3] = n
      /\ \A i \in 1 .. n : p[4 + (i - 1) * 25] = msgs[i]
  BY PackShape
<1>2. n \in Nat /\ n >= 1
  BY <1>1, MsgsNumbers
<1> HIDE DEF p, n
<1>3. k + 1 + (3 + 25 * n) <= Len(s) /\ \A i \in 1 .. 3 + 25 * n : s[(k + 1) + i] = p[i]
  BY <1>1 DEF Holds, p
<1>4. s[k + 2] = 242 /\ s[k + 3] = 25 /\ s[k + 4] = n
  <2>1. 1 \in 1 .. 3 + 25 * n /\ 2 \in 1 .. 3 + 25 * n /\ 3 \in 1 .. 3 + 25 * n
        /\ (k + 1) + 1 = k + 2 /\ (k + 1) + 2 = k + 3 /\ (k + 1) + 3 = k + 4
    BY <1>2
  <2> QED BY <1>1, <1>3, <2>1
<1>5. ASSUME NEW i \in 1 .. n PROVE s[k + 5 + (i - 1) * 25] = msgs[i]
  <2>1. 4 + (i - 1) * 25 \in 1 .. 3 + 25 * n
        /\ (k + 1) + (4 + (i - 1) * 25) = k + 5 + (i - 1) * 25
    BY <1>2
  <2> QED BY <1>1, <1>3, <2>1
<1>6. k + 4 + 25 * n <= Len(s)
  <2>1. Len(s) \in Nat
    BY LenProperties
  <2> QED BY <1>2, <1>3, <2>1
<1>7. s[k + 1] = s[k + 1]
  OBVIOUS
<1> QED BY <1>1, <1>4, <1>5, <1>6, <1>7 DEF Carries, n

(* A beacon that was built, byte by byte where a receiver looks: three     *)
(* elements, the last of which carries the pack.                           *)
LEMMA BeaconShape ==
  ASSUME NEW msgs \in Seq(Octet), NEW name \in Seq(Octet), NEW counter \in Octet, NEW room,
         BuildBeaconFrame(msgs, name, counter, room).result = "Ok"
  PROVE  LET s == BuildBeaconFrame(msgs, name, counter, room).bytes
             l == Len(name)
             n == 5 + (3 + 25 * Len(msgs))
         IN  /\ Msgs(msgs) /\ l \in Nat /\ s \in Seq(Octet) /\ Len(s) = 43 + l + n /\ s[1] = 128
             /\ s[37] = 0 /\ s[38] = l /\ s[39 + l] = 1 /\ s[40 + l] = 1
             /\ s[42 + l] = 221 /\ s[43 + l] = n
             /\ s[44 + l] = 250 /\ s[45 + l] = 11 /\ s[46 + l] = 188 /\ s[47 + l] = 13
             /\ Carries(s, 47 + l, counter, msgs)
<1> DEFINE l == Len(name)
           c == Len(msgs)
           built == BuildBeaconFrame(msgs, name, counter, room)
           period == Le16(100)
           able == Le16(1056)
           x1 == Mgmt(128, Everyone, Mac)
           x2 == x1 \o Clock
           x3 == x2 \o period
           x4 == x3 \o able
           x5 == x4 \o <<0, l>>
           x6 == x5 \o name
           x7 == x6 \o <<1, 1, 140>>
           x8 == x7 \o <<221, VendorLen(PackLen(msgs))>>
           x9 == x8 \o OpenDroneId
           x10 == x9 \o <<counter>>
           p == BuildPack(msgs, room - Len(x10)).bytes
           x11 == x10 \o p
           x12 == x11 \o <<>>
           b == x12
<1>0. built = IF l \notin 1 .. 32 THEN Failed("Invalid") ELSE Around(x10, msgs, <<>>, room)
  BY DEF BuildBeaconFrame
<1>1. l \in Nat /\ l \in 1 .. 32 /\ l \in Octet /\ l <= 32
  <2>1. l \in 1 .. 32
    <3> HIDE DEF l, x10
    <3> QED BY <1>0 DEF Failed
  <2> HIDE DEF l
  <2> QED BY <2>1 DEF Octet
<1>2. /\ BuildPack(msgs, room - Len(x10)).result = "Ok" /\ built.bytes = b
  <2> HIDE DEF l, x10
  <2> QED BY <1>0, <1>1 DEF Around, Built, Failed
<1>3. /\ Msgs(msgs) /\ p \in Seq(Octet) /\ Len(p) = 3 + 25 * c
  <2> HIDE DEF x10
  <2> QED BY <1>2, PackShape
<1>4. c \in Nat /\ c >= 1 /\ c <= 9
  BY <1>3, MsgsNumbers
<1>5. VendorLen(PackLen(msgs)) = 5 + (3 + 25 * c) /\ 5 + (3 + 25 * c) \in Octet
  <2>1. PackLen(msgs) = 3 + c * 25
    BY RadioAssumption DEF PackLen
  <2> HIDE DEF c
  <2>2. (3 + 1 + 1 + (3 + c * 25)) % 256 = 5 + (3 + 25 * c)
    BY <1>4
  <2> QED BY <1>4, <2>1, <2>2 DEF VendorLen, Octet
<1> HIDE DEF l, c, p, period, able
<1>10. /\ 128 \in Octet /\ Everyone \in Seq(Octet) /\ Len(Everyone) = 6 /\ Mac \in Seq(Octet) /\ Len(Mac) = 6
       /\ Clock \in Seq(Octet) /\ Len(Clock) = 8
       /\ period \in Seq(Octet) /\ Len(period) = 2
       /\ able \in Seq(Octet) /\ Len(able) = 2
       /\ <<0, l>> \in Seq(Octet) /\ Len(<<0, l>>) = 2
       /\ name \in Seq(Octet) /\ Len(name) = l
       /\ <<1, 1, 140>> \in Seq(Octet) /\ Len(<<1, 1, 140>>) = 3
       /\ <<221, VendorLen(PackLen(msgs))>> \in Seq(Octet) /\ Len(<<221, VendorLen(PackLen(msgs))>>) = 2
       /\ OpenDroneId \in Seq(Octet) /\ Len(OpenDroneId) = 4
       /\ <<counter>> \in Seq(Octet) /\ Len(<<counter>>) = 1
       /\ p \in Seq(Octet) /\ Len(p) = 3 + 25 * c
       /\ <<>> \in Seq(Octet) /\ Len(<<>>) = 0
  <2>1. /\ Everyone \in Seq(Octet) /\ Len(Everyone) = 6
        /\ OpenDroneId \in Seq(Octet) /\ Len(OpenDroneId) = 4
    BY OctetsUsed, ShortBytes DEF Everyone, OpenDroneId
  <2>2. /\ period \in Seq(Octet) /\ Len(period) = 2
        /\ able \in Seq(Octet) /\ Len(able) = 2
    <3>1. 100 \in Octet
      BY DEF Octet
    <3> QED BY <3>1, Le16Shape DEF period, able
  <2>3. name \in Seq(Octet) /\ Len(name) = l
    BY DEF l
  <2>4. /\ <<0, l>> \in Seq(Octet) /\ Len(<<0, l>>) = 2
        /\ <<1, 1, 140>> \in Seq(Octet) /\ Len(<<1, 1, 140>>) = 3
        /\ <<221, VendorLen(PackLen(msgs))>> \in Seq(Octet) /\ Len(<<221, VendorLen(PackLen(msgs))>>) = 2
        /\ <<counter>> \in Seq(Octet) /\ Len(<<counter>>) = 1
        /\ <<>> \in Seq(Octet) /\ Len(<<>>) = 0
    BY <1>1, <1>5, OctetsUsed, ShortBytes
  <2> QED BY <1>3, <2>1, <2>2, <2>3, <2>4, OctetsUsed, RadioAssumption
<1>11. x1 \in Seq(Octet) /\ Len(x1) = 24 /\ Holds(x1, 0, <<128>>)
  <2>1. x1 \in Seq(Octet) /\ Len(x1) = 24 /\ x1[1] = 128
    BY <1>10, MgmtShape
  <2> HIDE DEF x1
  <2> QED BY <2>1 DEF Holds
<1> HIDE DEF x1
<1>12. x2 \in Seq(Octet) /\ Len(x2) = 32
  <2>1. x1 \in Seq(Octet) /\ Clock \in Seq(Octet)
    BY <1>10, <1>11
  <2>2. x2 \in Seq(Octet) /\ Len(x2) = Len(x1) + Len(Clock)
    BY <2>1, Appended
  <2>3. Len(x1) = 24 /\ Len(Clock) = 8
    BY <1>10, <1>11
  <2> HIDE DEF x2
  <2> QED BY <2>2, <2>3
<1> HIDE DEF x2
<1>13. x3 \in Seq(Octet) /\ Len(x3) = 34
  <2>1. x2 \in Seq(Octet) /\ period \in Seq(Octet)
    BY <1>10, <1>12
  <2>2. x3 \in Seq(Octet) /\ Len(x3) = Len(x2) + Len(period)
    BY <2>1, Appended
  <2>3. Len(x2) = 32 /\ Len(period) = 2
    BY <1>10, <1>12
  <2> HIDE DEF x3
  <2> QED BY <2>2, <2>3
<1> HIDE DEF x3
<1>14. x4 \in Seq(Octet) /\ Len(x4) = 36
  <2>1. x3 \in Seq(Octet) /\ able \in Seq(Octet)
    BY <1>10, <1>13
  <2>2. x4 \in Seq(Octet) /\ Len(x4) = Len(x3) + Len(able)
    BY <2>1, Appended
  <2>3. Len(x3) = 34 /\ Len(able) = 2
    BY <1>10, <1>13
  <2> HIDE DEF x4
  <2> QED BY <2>2, <2>3
<1> HIDE DEF x4
<1>15. x5 \in Seq(Octet) /\ Len(x5) = 38
  <2>1. x4 \in Seq(Octet) /\ <<0, l>> \in Seq(Octet)
    BY <1>10, <1>14
  <2>2. x5 \in Seq(Octet) /\ Len(x5) = Len(x4) + Len(<<0, l>>)
    BY <2>1, Appended
  <2>3. Len(x4) = 36 /\ Len(<<0, l>>) = 2
    BY <1>10, <1>14
  <2> HIDE DEF x5
  <2> QED BY <2>2, <2>3
<1> HIDE DEF x5
<1>16. x6 \in Seq(Octet) /\ Len(x6) = 38 + l
  <2>1. x5 \in Seq(Octet) /\ name \in Seq(Octet)
    BY <1>10, <1>15
  <2>2. x6 \in Seq(Octet) /\ Len(x6) = Len(x5) + Len(name)
    BY <2>1, Appended
  <2>3. Len(x5) = 38 /\ Len(name) = l
    BY <1>10, <1>15
  <2> HIDE DEF x6
  <2> QED BY <1>1, <2>2, <2>3
<1> HIDE DEF x6
<1>17. x7 \in Seq(Octet) /\ Len(x7) = 41 + l
  <2>1. x6 \in Seq(Octet) /\ <<1, 1, 140>> \in Seq(Octet)
    BY <1>10, <1>16
  <2>2. x7 \in Seq(Octet) /\ Len(x7) = Len(x6) + Len(<<1, 1, 140>>)
    BY <2>1, Appended
  <2>3. Len(x6) = 38 + l /\ Len(<<1, 1, 140>>) = 3
    BY <1>10, <1>16
  <2> HIDE DEF x7
  <2> QED BY <1>1, <2>2, <2>3
<1> HIDE DEF x7
<1>18. x8 \in Seq(Octet) /\ Len(x8) = 43 + l
  <2>1. x7 \in Seq(Octet) /\ <<221, VendorLen(PackLen(msgs))>> \in Seq(Octet)
    BY <1>10, <1>17
  <2>2. x8 \in Seq(Octet) /\ Len(x8) = Len(x7) + Len(<<221, VendorLen(PackLen(msgs))>>)
    BY <2>1, Appended
  <2>3. Len(x7) = 41 + l /\ Len(<<221, VendorLen(PackLen(msgs))>>) = 2
    BY <1>10, <1>17
  <2> HIDE DEF x8
  <2> QED BY <1>1, <2>2, <2>3
<1> HIDE DEF x8
<1>19. x9 \in Seq(Octet) /\ Len(x9) = 47 + l
  <2>1. x8 \in Seq(Octet) /\ OpenDroneId \in Seq(Octet)
    BY <1>10, <1>18
  <2>2. x9 \in Seq(Octet) /\ Len(x9) = Len(x8) + Len(OpenDroneId)
    BY <2>1, Appended
  <2>3. Len(x8) = 43 + l /\ Len(OpenDroneId) = 4
    BY <1>10, <1>18
  <2> HIDE DEF x9
  <2> QED BY <1>1, <2>2, <2>3
<1> HIDE DEF x9
<1>20. x10 \in Seq(Octet) /\ Len(x10) = 48 + l
  <2>1. x9 \in Seq(Octet) /\ <<counter>> \in Seq(Octet)
    BY <1>10, <1>19
  <2>2. x10 \in Seq(Octet) /\ Len(x10) = Len(x9) + Len(<<counter>>)
    BY <2>1, Appended
  <2>3. Len(x9) = 47 + l /\ Len(<<counter>>) = 1
    BY <1>10, <1>19
  <2> HIDE DEF x10
  <2> QED BY <1>1, <2>2, <2>3
<1> HIDE DEF x10
<1>21. x11 \in Seq(Octet) /\ Len(x11) = 48 + l + (3 + 25 * c)
  <2>1. x10 \in Seq(Octet) /\ p \in Seq(Octet)
    BY <1>10, <1>20
  <2>2. x11 \in Seq(Octet) /\ Len(x11) = Len(x10) + Len(p)
    BY <2>1, Appended
  <2>3. Len(x10) = 48 + l /\ Len(p) = 3 + 25 * c
    BY <1>10, <1>20
  <2> HIDE DEF x11
  <2> QED BY <1>1, <2>2, <2>3
<1> HIDE DEF x11
<1>22. x12 \in Seq(Octet) /\ Len(x12) = 48 + l + (3 + 25 * c)
  <2>1. x11 \in Seq(Octet) /\ <<>> \in Seq(Octet)
    BY <1>10, <1>21
  <2>2. x12 \in Seq(Octet) /\ Len(x12) = Len(x11) + Len(<<>>)
    BY <2>1, Appended
  <2>3. Len(x11) = 48 + l + (3 + 25 * c) /\ Len(<<>>) = 0
    BY <1>10, <1>21
  <2> HIDE DEF x12
  <2> QED BY <1>1, <2>2, <2>3
<1> HIDE DEF x12
<1>23. Within(x12, b) /\ b \in Seq(Octet) /\ Len(b) = 48 + l + (3 + 25 * c)
  BY <1>22 DEF Within, b
<1> HIDE DEF b
<1>24. Within(x11, b) /\ Holds(b, 48 + l + (3 + 25 * c), <<>>)
  <2>1. x11 \in Seq(Octet) /\ <<>> \in Seq(Octet) /\ Within(x11 \o <<>>, b)
    BY <1>10, <1>21, <1>23 DEF x12
  <2>2. Within(x11, b) /\ Holds(b, Len(x11), <<>>)
    BY <2>1, WithinPart
  <2>3. Len(x11) = 48 + l + (3 + 25 * c)
    BY <1>21
  <2> QED BY <2>2, <2>3
<1>25. Within(x10, b) /\ Holds(b, 48 + l, p)
  <2>1. x10 \in Seq(Octet) /\ p \in Seq(Octet) /\ Within(x10 \o p, b)
    BY <1>10, <1>20, <1>24 DEF x11
  <2>2. Within(x10, b) /\ Holds(b, Len(x10), p)
    BY <2>1, WithinPart
  <2>3. Len(x10) = 48 + l
    BY <1>20
  <2> QED BY <2>2, <2>3
<1>26. Within(x9, b) /\ Holds(b, 47 + l, <<counter>>)
  <2>1. x9 \in Seq(Octet) /\ <<counter>> \in Seq(Octet) /\ Within(x9 \o <<counter>>, b)
    BY <1>10, <1>19, <1>25 DEF x10
  <2>2. Within(x9, b) /\ Holds(b, Len(x9), <<counter>>)
    BY <2>1, WithinPart
  <2>3. Len(x9) = 47 + l
    BY <1>19
  <2> QED BY <2>2, <2>3
<1>27. Within(x8, b) /\ Holds(b, 43 + l, OpenDroneId)
  <2>1. x8 \in Seq(Octet) /\ OpenDroneId \in Seq(Octet) /\ Within(x8 \o OpenDroneId, b)
    BY <1>10, <1>18, <1>26 DEF x9
  <2>2. Within(x8, b) /\ Holds(b, Len(x8), OpenDroneId)
    BY <2>1, WithinPart
  <2>3. Len(x8) = 43 + l
    BY <1>18
  <2> QED BY <2>2, <2>3
<1>28. Within(x7, b) /\ Holds(b, 41 + l, <<221, VendorLen(PackLen(msgs))>>)
  <2>1. /\ x7 \in Seq(Octet) /\ <<221, VendorLen(PackLen(msgs))>> \in Seq(Octet)
        /\ Within(x7 \o <<221, VendorLen(PackLen(msgs))>>, b)
    BY <1>10, <1>17, <1>27 DEF x8
  <2>2. Within(x7, b) /\ Holds(b, Len(x7), <<221, VendorLen(PackLen(msgs))>>)
    BY <2>1, WithinPart
  <2>3. Len(x7) = 41 + l
    BY <1>17
  <2> QED BY <2>2, <2>3
<1>29. Within(x6, b) /\ Holds(b, 38 + l, <<1, 1, 140>>)
  <2>1. x6 \in Seq(Octet) /\ <<1, 1, 140>> \in Seq(Octet) /\ Within(x6 \o <<1, 1, 140>>, b)
    BY <1>10, <1>16, <1>28 DEF x7
  <2>2. Within(x6, b) /\ Holds(b, Len(x6), <<1, 1, 140>>)
    BY <2>1, WithinPart
  <2>3. Len(x6) = 38 + l
    BY <1>16
  <2> QED BY <2>2, <2>3
<1>30. Within(x5, b) /\ Holds(b, 38, name)
  <2>1. x5 \in Seq(Octet) /\ name \in Seq(Octet) /\ Within(x5 \o name, b)
    BY <1>10, <1>15, <1>29 DEF x6
  <2>2. Within(x5, b) /\ Holds(b, Len(x5), name)
    BY <2>1, WithinPart
  <2>3. Len(x5) = 38
    BY <1>15
  <2> QED BY <2>2, <2>3
<1>31. Within(x4, b) /\ Holds(b, 36, <<0, l>>)
  <2>1. x4 \in Seq(Octet) /\ <<0, l>> \in Seq(Octet) /\ Within(x4 \o <<0, l>>, b)
    BY <1>10, <1>14, <1>30 DEF x5
  <2>2. Within(x4, b) /\ Holds(b, Len(x4), <<0, l>>)
    BY <2>1, WithinPart
  <2>3. Len(x4) = 36
    BY <1>14
  <2> QED BY <2>2, <2>3
<1>32. Within(x3, b) /\ Holds(b, 34, able)
  <2>1. x3 \in Seq(Octet) /\ able \in Seq(Octet) /\ Within(x3 \o able, b)
    BY <1>10, <1>13, <1>31 DEF x4
  <2>2. Within(x3, b) /\ Holds(b, Len(x3), able)
    BY <2>1, WithinPart
  <2>3. Len(x3) = 34
    BY <1>13
  <2> QED BY <2>2, <2>3
<1>33. Within(x2, b) /\ Holds(b, 32, period)
  <2>1. x2 \in Seq(Octet) /\ period \in Seq(Octet) /\ Within(x2 \o period, b)
    BY <1>10, <1>12, <1>32 DEF x3
  <2>2. Within(x2, b) /\ Holds(b, Len(x2), period)
    BY <2>1, WithinPart
  <2>3. Len(x2) = 32
    BY <1>12
  <2> QED BY <2>2, <2>3
<1>34. Within(x1, b) /\ Holds(b, 24, Clock)
  <2>1. x1 \in Seq(Octet) /\ Clock \in Seq(Octet) /\ Within(x1 \o Clock, b)
    BY <1>10, <1>11, <1>33 DEF x2
  <2>2. Within(x1, b) /\ Holds(b, Len(x1), Clock)
    BY <2>1, WithinPart
  <2>3. Len(x1) = 24
    BY <1>11
  <2> QED BY <2>2, <2>3
<1>35. b[1] = 128
  <2>1. Holds(b, 0, <<128>>) /\ 0 + 1 = 1
    BY <1>11, <1>34 DEF Within
  <2>2. b[0 + 1] = 128
    BY <2>1, HoldsShort
  <2> QED BY <2>1, <2>2
<1>36. b[37] = 0 /\ b[38] = l
  <2>1. b[36 + 1] = 0 /\ b[36 + 2] = l
    BY <1>31, HoldsShort
  <2> QED BY <2>1
<1>37. b[39 + l] = 1 /\ b[40 + l] = 1
  <2>1. b[38 + l + 1] = 1 /\ b[38 + l + 2] = 1 /\ 38 + l + 1 = 39 + l /\ 38 + l + 2 = 40 + l
    BY <1>1, <1>29, HoldsShort
  <2> QED BY <2>1
<1>38. b[42 + l] = 221 /\ b[43 + l] = 5 + (3 + 25 * c)
  <2>1. /\ b[41 + l + 1] = 221 /\ b[41 + l + 2] = 5 + (3 + 25 * c)
        /\ 41 + l + 1 = 42 + l /\ 41 + l + 2 = 43 + l
    BY <1>1, <1>5, <1>28, HoldsShort
  <2> QED BY <2>1
<1>39. b[44 + l] = 250 /\ b[45 + l] = 11 /\ b[46 + l] = 188 /\ b[47 + l] = 13
  <2>1. Holds(b, 43 + l, <<250, 11, 188, 13>>)
    BY <1>27 DEF OpenDroneId
  <2>2. b[43 + l + 1] = 250 /\ b[43 + l + 2] = 11 /\ b[43 + l + 3] = 188 /\ b[43 + l + 4] = 13
        /\ 43 + l + 1 = 44 + l /\ 43 + l + 2 = 45 + l /\ 43 + l + 3 = 46 + l /\ 43 + l + 4 = 47 + l
    BY <1>1, <2>1, HoldsShort
  <2> QED BY <2>2
<1>40. Carries(b, 47 + l, counter, msgs)
  <2>1. b[47 + l + 1] = counter /\ 47 + l \in Nat /\ 47 + l + 1 = 48 + l
    BY <1>1, <1>26, HoldsShort
  <2>2. Holds(b, 47 + l + 1, BuildPack(msgs, room - Len(x10)).bytes)
    BY <1>25, <2>1 DEF p
  <2>3. b \in Seq(Octet) /\ BuildPack(msgs, room - Len(x10)).result = "Ok"
    BY <1>2, <1>23
  <2>4. Carries(b, 47 + l, b[47 + l + 1], msgs)
    BY <2>1, <2>2, <2>3, HoldsPack
  <2> QED BY <2>1, <2>4
<1>41. Len(b) = 43 + l + (5 + (3 + 25 * c))
  BY <1>1, <1>4, <1>23
<1> QED BY <1>1, <1>2, <1>3, <1>23, <1>35, <1>36, <1>37, <1>38, <1>39, <1>40, <1>41 DEF l, c

(* What follows the pack in an action frame is one more element.           *)
LEMMA NanTailShape ==
  ASSUME NEW counter \in Octet
  PROVE  LET t == <<14>> \o Le16(4) \o <<1>> \o Le16(512) \o <<counter>>
         IN  t \in Seq(Octet) /\ Len(t) = 7 /\ t[1] = 14 /\ t[2] = 4 /\ t[3] = 0
<1> DEFINE two == Le16(4)
           most == Le16(512)
           x1 == <<14>>
           x2 == x1 \o two
           x3 == x2 \o <<1>>
           x4 == x3 \o most
           x5 == x4 \o <<counter>>
<1>1. /\ two = <<4, 0>> /\ two \in Seq(Octet) /\ Len(two) = 2 /\ most \in Seq(Octet) /\ Len(most) = 2
  BY OctetsUsed, Le16Shape
<1>2. /\ x1 \in Seq(Octet) /\ Len(x1) = 1 /\ <<1>> \in Seq(Octet) /\ Len(<<1>>) = 1
      /\ <<counter>> \in Seq(Octet) /\ Len(<<counter>>) = 1
  BY OctetsUsed, ShortBytes
<1>3. Holds(x1, 0, <<14>>)
  BY <1>2 DEF Holds
<1> HIDE DEF x1, two, most
<1>4. x2 \in Seq(Octet) /\ Len(x2) = 3 /\ Holds(x2, 0, <<14>>) /\ Holds(x2, 1, two)
  <2>1. x1 \in Seq(Octet) /\ two \in Seq(Octet) /\ Holds(x1, 0, <<14>>) /\ 0 \in Nat /\ 1 \in Nat
    BY <1>1, <1>2, <1>3
  <2>2. /\ x2 \in Seq(Octet) /\ Len(x2) = Len(x1) + Len(two)
        /\ Holds(x2, 0, <<14>>) /\ Holds(x2, Len(x1), two)
    BY <2>1, Appended
  <2>3. Len(x1) = 1 /\ Len(two) = 2
    BY <1>1, <1>2, <1>3
  <2> HIDE DEF x2
  <2> QED BY <2>2, <2>3
<1> HIDE DEF x2
<1>5. x3 \in Seq(Octet) /\ Len(x3) = 4 /\ Holds(x3, 0, <<14>>) /\ Holds(x3, 1, two)
  <2>1. /\ x2 \in Seq(Octet) /\ <<1>> \in Seq(Octet) /\ Holds(x2, 0, <<14>>)
        /\ Holds(x2, 1, two) /\ 0 \in Nat /\ 1 \in Nat
    BY <1>1, <1>2, <1>4
  <2>2. /\ x3 \in Seq(Octet) /\ Len(x3) = Len(x2) + Len(<<1>>)
        /\ Holds(x3, 0, <<14>>) /\ Holds(x3, 1, two)
    BY <2>1, Appended
  <2>3. Len(x2) = 3 /\ Len(<<1>>) = 1
    BY <1>1, <1>2, <1>4
  <2> HIDE DEF x3
  <2> QED BY <2>2, <2>3
<1> HIDE DEF x3
<1>6. x4 \in Seq(Octet) /\ Len(x4) = 6 /\ Holds(x4, 0, <<14>>) /\ Holds(x4, 1, two)
  <2>1. /\ x3 \in Seq(Octet) /\ most \in Seq(Octet) /\ Holds(x3, 0, <<14>>)
        /\ Holds(x3, 1, two) /\ 0 \in Nat /\ 1 \in Nat
    BY <1>1, <1>2, <1>5
  <2>2. /\ x4 \in Seq(Octet) /\ Len(x4) = Len(x3) + Len(most)
        /\ Holds(x4, 0, <<14>>) /\ Holds(x4, 1, two)
    BY <2>1, Appended
  <2>3. Len(x3) = 4 /\ Len(most) = 2
    BY <1>1, <1>2, <1>5
  <2> HIDE DEF x4
  <2> QED BY <2>2, <2>3
<1> HIDE DEF x4
<1>7. x5 \in Seq(Octet) /\ Len(x5) = 7 /\ Holds(x5, 0, <<14>>) /\ Holds(x5, 1, two)
  <2>1. /\ x4 \in Seq(Octet) /\ <<counter>> \in Seq(Octet) /\ Holds(x4, 0, <<14>>)
        /\ Holds(x4, 1, two) /\ 0 \in Nat /\ 1 \in Nat
    BY <1>1, <1>2, <1>6
  <2>2. /\ x5 \in Seq(Octet) /\ Len(x5) = Len(x4) + Len(<<counter>>)
        /\ Holds(x5, 0, <<14>>) /\ Holds(x5, 1, two)
    BY <2>1, Appended
  <2>3. Len(x4) = 6 /\ Len(<<counter>>) = 1
    BY <1>1, <1>2, <1>6
  <2> HIDE DEF x5
  <2> QED BY <2>2, <2>3
<1> HIDE DEF x5
<1>8. x5[0 + 1] = 14 /\ x5[1 + 1] = 4 /\ x5[1 + 2] = 0
  BY <1>1, <1>7, HoldsShort
<1>9. x5[1] = 14 /\ x5[2] = 4 /\ x5[3] = 0
  BY <1>8
<1> QED BY <1>7, <1>9 DEF x1, x2, x3, x4, x5, two, most

(* An action frame that was built, where a receiver looks: two elements,   *)
(* the first of which carries the pack.                                    *)
LEMMA NanShape ==
  ASSUME NEW msgs \in Seq(Octet), NEW counter \in Octet, NEW room,
         BuildNanActionFrame(msgs, counter, room).result = "Ok"
  PROVE  LET s == BuildNanActionFrame(msgs, counter, room).bytes
             n == 14 + 25 * Len(msgs)
         IN  /\ Msgs(msgs) /\ s \in Seq(Octet) /\ Len(s) = 40 + n /\ s[1] = 208
             /\ s[31] = 3 /\ s[32] = n /\ s[33] = 0
             /\ s[34] = 136 /\ s[35] = 105 /\ s[36] = 25 /\ s[37] = 157 /\ s[38] = 146 /\ s[39] = 9
             /\ s[43] = n - 10 /\ Carries(s, 43, counter, msgs)
             /\ s[34 + n] = 14 /\ s[35 + n] = 4 /\ s[36 + n] = 0
<1> DEFINE c == Len(msgs)
           info == 1 + PackLen(msgs)
           built == BuildNanActionFrame(msgs, counter, room)
           size == Le16(10 + info)
           end == <<14>> \o Le16(4) \o <<1>> \o Le16(512) \o <<counter>>
           x1 == Mgmt(208, NanTarget, NanCluster)
           x2 == x1 \o <<4, 9, 80, 111, 154, 19>>
           x3 == x2 \o <<3>>
           x4 == x3 \o size
           x5 == x4 \o ServiceId
           x6 == x5 \o <<1, 0, 16, info % 256>>
           x7 == x6 \o <<counter>>
           p == BuildPack(msgs, room - Len(x7)).bytes
           x8 == x7 \o p
           x9 == x8 \o end
           b == x9
<1>0. built = Around(x7, msgs, end, room)
  BY DEF BuildNanActionFrame
<1>2. /\ BuildPack(msgs, room - Len(x7)).result = "Ok" /\ built.bytes = b
  <2> HIDE DEF x7, end
  <2> QED BY <1>0 DEF Around, Built, Failed
<1>3. /\ Msgs(msgs) /\ p \in Seq(Octet) /\ Len(p) = 3 + 25 * c
  <2> HIDE DEF x7
  <2> QED BY <1>2, PackShape
<1>4. c \in Nat /\ c >= 1 /\ c <= 9
  BY <1>3, MsgsNumbers
<1>5. /\ 10 + info = 14 + 25 * c /\ 14 + 25 * c \in Octet
      /\ info % 256 = 4 + 25 * c /\ 4 + 25 * c \in Octet
  <2>1. PackLen(msgs) = 3 + c * 25
    BY RadioAssumption DEF PackLen
  <2> HIDE DEF c
  <2>2. (1 + (3 + c * 25)) % 256 = 4 + 25 * c /\ 10 + (1 + (3 + c * 25)) = 14 + 25 * c
    BY <1>4
  <2> QED BY <1>4, <2>1, <2>2 DEF Octet
<1>6. size = <<14 + 25 * c, 0>> /\ size \in Seq(Octet) /\ Len(size) = 2
  <2> HIDE DEF c, info
  <2>1. Le16(14 + 25 * c) = <<14 + 25 * c, 0>>
        /\ Le16(14 + 25 * c) \in Seq(Octet) /\ Len(Le16(14 + 25 * c)) = 2
    BY <1>5, Le16Shape
  <2> QED BY <1>5, <2>1
<1>7. end \in Seq(Octet) /\ Len(end) = 7 /\ end[1] = 14 /\ end[2] = 4 /\ end[3] = 0
  BY NanTailShape
<1> HIDE DEF c, p, size, end, info
<1>10. /\ 208 \in Octet /\ NanTarget \in Seq(Octet) /\ Len(NanTarget) = 6
       /\ NanCluster \in Seq(Octet) /\ Len(NanCluster) = 6
       /\ <<4, 9, 80, 111, 154, 19>> \in Seq(Octet) /\ Len(<<4, 9, 80, 111, 154, 19>>) = 6
       /\ <<3>> \in Seq(Octet) /\ Len(<<3>>) = 1
       /\ size \in Seq(Octet) /\ Len(size) = 2
       /\ ServiceId \in Seq(Octet) /\ Len(ServiceId) = 6
       /\ <<1, 0, 16, info % 256>> \in Seq(Octet) /\ Len(<<1, 0, 16, info % 256>>) = 4
       /\ <<counter>> \in Seq(Octet) /\ Len(<<counter>>) = 1
       /\ p \in Seq(Octet) /\ Len(p) = 3 + 25 * c
       /\ end \in Seq(Octet) /\ Len(end) = 7
  <2>1. /\ NanTarget \in Seq(Octet) /\ Len(NanTarget) = 6
        /\ NanCluster \in Seq(Octet) /\ Len(NanCluster) = 6
        /\ ServiceId \in Seq(Octet) /\ Len(ServiceId) = 6
    BY OctetsUsed, ShortBytes DEF NanTarget, NanCluster, ServiceId
  <2>2. info % 256 \in Octet
    BY <1>5
  <2>3. /\ <<4, 9, 80, 111, 154, 19>> \in Seq(Octet) /\ Len(<<4, 9, 80, 111, 154, 19>>) = 6
        /\ <<3>> \in Seq(Octet) /\ Len(<<3>>) = 1
        /\ <<1, 0, 16, info % 256>> \in Seq(Octet) /\ Len(<<1, 0, 16, info % 256>>) = 4
        /\ <<counter>> \in Seq(Octet) /\ Len(<<counter>>) = 1
    BY <2>2, OctetsUsed, ShortBytes
  <2> QED BY <1>3, <1>6, <1>7, <2>1, <2>3, OctetsUsed
<1>11. x1 \in Seq(Octet) /\ Len(x1) = 24 /\ Holds(x1, 0, <<208>>)
  <2>1. x1 \in Seq(Octet) /\ Len(x1) = 24 /\ x1[1] = 208
    BY <1>10, MgmtShape
  <2> HIDE DEF x1
  <2> QED BY <2>1 DEF Holds
<1> HIDE DEF x1
<1>12. x2 \in Seq(Octet) /\ Len(x2) = 30
  <2>1. x1 \in Seq(Octet) /\ <<4, 9, 80, 111, 154, 19>> \in Seq(Octet)
    BY <1>10, <1>11
  <2>2. x2 \in Seq(Octet) /\ Len(x2) = Len(x1) + Len(<<4, 9, 80, 111, 154, 19>>)
    BY <2>1, Appended
  <2>3. Len(x1) = 24 /\ Len(<<4, 9, 80, 111, 154, 19>>) = 6
    BY <1>10, <1>11
  <2> HIDE DEF x2
  <2> QED BY <2>2, <2>3
<1> HIDE DEF x2
<1>13. x3 \in Seq(Octet) /\ Len(x3) = 31
  <2>1. x2 \in Seq(Octet) /\ <<3>> \in Seq(Octet)
    BY <1>10, <1>12
  <2>2. x3 \in Seq(Octet) /\ Len(x3) = Len(x2) + Len(<<3>>)
    BY <2>1, Appended
  <2>3. Len(x2) = 30 /\ Len(<<3>>) = 1
    BY <1>10, <1>12
  <2> HIDE DEF x3
  <2> QED BY <2>2, <2>3
<1> HIDE DEF x3
<1>14. x4 \in Seq(Octet) /\ Len(x4) = 33
  <2>1. x3 \in Seq(Octet) /\ size \in Seq(Octet)
    BY <1>10, <1>13
  <2>2. x4 \in Seq(Octet) /\ Len(x4) = Len(x3) + Len(size)
    BY <2>1, Appended
  <2>3. Len(x3) = 31 /\ Len(size) = 2
    BY <1>10, <1>13
  <2> HIDE DEF x4
  <2> QED BY <2>2, <2>3
<1> HIDE DEF x4
<1>15. x5 \in Seq(Octet) /\ Len(x5) = 39
  <2>1. x4 \in Seq(Octet) /\ ServiceId \in Seq(Octet)
    BY <1>10, <1>14
  <2>2. x5 \in Seq(Octet) /\ Len(x5) = Len(x4) + Len(ServiceId)
    BY <2>1, Appended
  <2>3. Len(x4) = 33 /\ Len(ServiceId) = 6
    BY <1>10, <1>14
  <2> HIDE DEF x5
  <2> QED BY <2>2, <2>3
<1> HIDE DEF x5
<1>16. x6 \in Seq(Octet) /\ Len(x6) = 43
  <2>1. x5 \in Seq(Octet) /\ <<1, 0, 16, info % 256>> \in Seq(Octet)
    BY <1>10, <1>15
  <2>2. x6 \in Seq(Octet) /\ Len(x6) = Len(x5) + Len(<<1, 0, 16, info % 256>>)
    BY <2>1, Appended
  <2>3. Len(x5) = 39 /\ Len(<<1, 0, 16, info % 256>>) = 4
    BY <1>10, <1>15
  <2> HIDE DEF x6
  <2> QED BY <2>2, <2>3
<1> HIDE DEF x6
<1>17. x7 \in Seq(Octet) /\ Len(x7) = 44
  <2>1. x6 \in Seq(Octet) /\ <<counter>> \in Seq(Octet)
    BY <1>10, <1>16
  <2>2. x7 \in Seq(Octet) /\ Len(x7) = Len(x6) + Len(<<counter>>)
    BY <2>1, Appended
  <2>3. Len(x6) = 43 /\ Len(<<counter>>) = 1
    BY <1>10, <1>16
  <2> HIDE DEF x7
  <2> QED BY <2>2, <2>3
<1> HIDE DEF x7
<1>18. x8 \in Seq(Octet) /\ Len(x8) = 44 + (3 + 25 * c)
  <2>1. x7 \in Seq(Octet) /\ p \in Seq(Octet)
    BY <1>10, <1>17
  <2>2. x8 \in Seq(Octet) /\ Len(x8) = Len(x7) + Len(p)
    BY <2>1, Appended
  <2>3. Len(x7) = 44 /\ Len(p) = 3 + 25 * c
    BY <1>10, <1>17
  <2> HIDE DEF x8
  <2> QED BY <1>4, <2>2, <2>3
<1> HIDE DEF x8
<1>19. x9 \in Seq(Octet) /\ Len(x9) = 51 + (3 + 25 * c)
  <2>1. x8 \in Seq(Octet) /\ end \in Seq(Octet)
    BY <1>10, <1>18
  <2>2. x9 \in Seq(Octet) /\ Len(x9) = Len(x8) + Len(end)
    BY <2>1, Appended
  <2>3. Len(x8) = 44 + (3 + 25 * c) /\ Len(end) = 7
    BY <1>10, <1>18
  <2> HIDE DEF x9
  <2> QED BY <1>4, <2>2, <2>3
<1> HIDE DEF x9
<1>20. Within(x9, b) /\ b \in Seq(Octet) /\ Len(b) = 51 + (3 + 25 * c)
  BY <1>19 DEF Within, b
<1> HIDE DEF b
<1>21. Within(x8, b) /\ Holds(b, 44 + (3 + 25 * c), end)
  <2>1. x8 \in Seq(Octet) /\ end \in Seq(Octet) /\ Within(x8 \o end, b)
    BY <1>10, <1>18, <1>20 DEF x9
  <2>2. Within(x8, b) /\ Holds(b, Len(x8), end)
    BY <2>1, WithinPart
  <2>3. Len(x8) = 44 + (3 + 25 * c)
    BY <1>18
  <2> QED BY <2>2, <2>3
<1>22. Within(x7, b) /\ Holds(b, 44, p)
  <2>1. x7 \in Seq(Octet) /\ p \in Seq(Octet) /\ Within(x7 \o p, b)
    BY <1>10, <1>17, <1>21 DEF x8
  <2>2. Within(x7, b) /\ Holds(b, Len(x7), p)
    BY <2>1, WithinPart
  <2>3. Len(x7) = 44
    BY <1>17
  <2> QED BY <2>2, <2>3
<1>23. Within(x6, b) /\ Holds(b, 43, <<counter>>)
  <2>1. x6 \in Seq(Octet) /\ <<counter>> \in Seq(Octet) /\ Within(x6 \o <<counter>>, b)
    BY <1>10, <1>16, <1>22 DEF x7
  <2>2. Within(x6, b) /\ Holds(b, Len(x6), <<counter>>)
    BY <2>1, WithinPart
  <2>3. Len(x6) = 43
    BY <1>16
  <2> QED BY <2>2, <2>3
<1>24. Within(x5, b) /\ Holds(b, 39, <<1, 0, 16, info % 256>>)
  <2>1. /\ x5 \in Seq(Octet) /\ <<1, 0, 16, info % 256>> \in Seq(Octet)
        /\ Within(x5 \o <<1, 0, 16, info % 256>>, b)
    BY <1>10, <1>15, <1>23 DEF x6
  <2>2. Within(x5, b) /\ Holds(b, Len(x5), <<1, 0, 16, info % 256>>)
    BY <2>1, WithinPart
  <2>3. Len(x5) = 39
    BY <1>15
  <2> QED BY <2>2, <2>3
<1>25. Within(x4, b) /\ Holds(b, 33, ServiceId)
  <2>1. x4 \in Seq(Octet) /\ ServiceId \in Seq(Octet) /\ Within(x4 \o ServiceId, b)
    BY <1>10, <1>14, <1>24 DEF x5
  <2>2. Within(x4, b) /\ Holds(b, Len(x4), ServiceId)
    BY <2>1, WithinPart
  <2>3. Len(x4) = 33
    BY <1>14
  <2> QED BY <2>2, <2>3
<1>26. Within(x3, b) /\ Holds(b, 31, size)
  <2>1. x3 \in Seq(Octet) /\ size \in Seq(Octet) /\ Within(x3 \o size, b)
    BY <1>10, <1>13, <1>25 DEF x4
  <2>2. Within(x3, b) /\ Holds(b, Len(x3), size)
    BY <2>1, WithinPart
  <2>3. Len(x3) = 31
    BY <1>13
  <2> QED BY <2>2, <2>3
<1>27. Within(x2, b) /\ Holds(b, 30, <<3>>)
  <2>1. x2 \in Seq(Octet) /\ <<3>> \in Seq(Octet) /\ Within(x2 \o <<3>>, b)
    BY <1>10, <1>12, <1>26 DEF x3
  <2>2. Within(x2, b) /\ Holds(b, Len(x2), <<3>>)
    BY <2>1, WithinPart
  <2>3. Len(x2) = 30
    BY <1>12
  <2> QED BY <2>2, <2>3
<1>28. Within(x1, b) /\ Holds(b, 24, <<4, 9, 80, 111, 154, 19>>)
  <2>1. /\ x1 \in Seq(Octet) /\ <<4, 9, 80, 111, 154, 19>> \in Seq(Octet)
        /\ Within(x1 \o <<4, 9, 80, 111, 154, 19>>, b)
    BY <1>10, <1>11, <1>27 DEF x2
  <2>2. Within(x1, b) /\ Holds(b, Len(x1), <<4, 9, 80, 111, 154, 19>>)
    BY <2>1, WithinPart
  <2>3. Len(x1) = 24
    BY <1>11
  <2> QED BY <2>2, <2>3
<1>29. b[1] = 208
  <2>1. Holds(b, 0, <<208>>) /\ 0 + 1 = 1
    BY <1>11, <1>28 DEF Within
  <2>2. b[0 + 1] = 208
    BY <2>1, HoldsShort
  <2> QED BY <2>1, <2>2
<1>30. b[31] = 3 /\ b[32] = 14 + 25 * c /\ b[33] = 0
  <2>1. Holds(b, 31, <<14 + 25 * c, 0>>)
    BY <1>6, <1>26
  <2>2. b[30 + 1] = 3 /\ b[31 + 1] = 14 + 25 * c /\ b[31 + 2] = 0
    BY <2>1, <1>27, HoldsShort
  <2> QED BY <2>2
<1>31. /\ b[34] = 136 /\ b[35] = 105 /\ b[36] = 25
      /\ b[37] = 157 /\ b[38] = 146 /\ b[39] = 9
  <2>1. Holds(b, 33, <<136, 105, 25, 157, 146, 9>>)
    BY <1>25 DEF ServiceId
  <2>2. /\ b[33 + 1] = 136 /\ b[33 + 2] = 105 /\ b[33 + 3] = 25
        /\ b[33 + 4] = 157 /\ b[33 + 5] = 146 /\ b[33 + 6] = 9
    BY <2>1, HoldsShort
  <2> QED BY <2>2
<1>32. b[43] = 4 + 25 * c
  <2>1. b[39 + 4] = info % 256
    BY <1>24, HoldsShort
  <2> QED BY <1>5, <2>1
<1>33. Carries(b, 43, counter, msgs)
  <2>1. b[43 + 1] = counter /\ 43 \in Nat /\ 43 + 1 = 44
    BY <1>23, HoldsShort
  <2>2. Holds(b, 43 + 1, BuildPack(msgs, room - Len(x7)).bytes)
    BY <1>22, <2>1 DEF p
  <2>3. b \in Seq(Octet) /\ BuildPack(msgs, room - Len(x7)).result = "Ok"
    BY <1>2, <1>20
  <2>4. Carries(b, 43, b[43 + 1], msgs)
    BY <2>1, <2>2, <2>3, HoldsPack
  <2> QED BY <2>1, <2>4
<1>34. b[48 + 25 * c] = 14 /\ b[49 + 25 * c] = 4 /\ b[50 + 25 * c] = 0
  <2> DEFINE k == 44 + (3 + 25 * c)
  <2>1. Holds(b, k, end) /\ 1 \in 1 .. Len(end) /\ 2 \in 1 .. Len(end) /\ 3 \in 1 .. Len(end)
    BY <1>7, <1>21
  <2> HIDE DEF k
  <2>2. b[k + 1] = 14 /\ b[k + 2] = 4 /\ b[k + 3] = 0
    BY <1>7, <2>1 DEF Holds
  <2>3. k + 1 = 48 + 25 * c /\ k + 2 = 49 + 25 * c /\ k + 3 = 50 + 25 * c
    BY <1>4 DEF k
  <2> QED BY <2>2, <2>3
<1> DEFINE m == 14 + 25 * c
<1>35. /\ 48 + 25 * c = 34 + m /\ 49 + 25 * c = 35 + m /\ 50 + 25 * c = 36 + m
      /\ 4 + 25 * c = m - 10 /\ 51 + (3 + 25 * c) = 40 + m
  BY <1>4
<1> HIDE DEF m
<1>36. /\ Msgs(msgs) /\ b \in Seq(Octet) /\ Len(b) = 40 + m /\ b[1] = 208
      /\ b[31] = 3 /\ b[32] = m /\ b[33] = 0
      /\ b[34] = 136 /\ b[35] = 105 /\ b[36] = 25 /\ b[37] = 157 /\ b[38] = 146 /\ b[39] = 9
      /\ b[43] = m - 10 /\ Carries(b, 43, counter, msgs)
      /\ b[34 + m] = 14 /\ b[35 + m] = 4 /\ b[36 + m] = 0
  <2>1. Len(b) = 40 + m /\ b[43] = m - 10
    BY <1>20, <1>32, <1>35
  <2>2. b[34 + m] = 14 /\ b[35 + m] = 4 /\ b[36 + m] = 0
    BY <1>34, <1>35
  <2>3. b[32] = m
    BY <1>30 DEF m
  <2> QED BY <1>3, <1>20, <1>29, <1>30, <1>31, <1>33, <2>1, <2>2, <2>3
<1> QED BY <1>2, <1>36 DEF c, m

(* Bytes are numbers.                                                      *)
LEMMA OctetsAreNats ==
  ASSUME NEW s \in Seq(Octet)
  PROVE  s \in Seq(Nat) /\ Len(s) \in Nat
<1>1. s \in [1 .. Len(s) -> Octet] /\ Len(s) \in Nat
  BY LenProperties, ElementOfSeq
<1>2. s \in [1 .. Len(s) -> Nat]
  BY <1>1, OctetNat
<1> QED BY <1>1, <1>2, SeqDef

(* A sequence is known by its length and its elements.                     *)
LEMMA TwoLong ==
  ASSUME NEW a, NEW b, NEW S, NEW u \in Seq(S), Len(u) = 2, u[1] = a, u[2] = b
  PROVE  u = <<a, b>>
OBVIOUS

(* The same of three.                                                      *)
LEMMA ThreeLong ==
  ASSUME NEW a, NEW b, NEW c, NEW S, NEW u \in Seq(S), Len(u) = 3, u[1] = a, u[2] = b, u[3] = c
  PROVE  u = <<a, b, c>>
OBVIOUS

(* A sequence of one.                                                      *)
LEMMA OneLong ==
  ASSUME NEW a, NEW S, a \in S
  PROVE  <<a>> \in Seq(S) /\ Len(<<a>>) = 1 /\ <<a>>[1] = a
OBVIOUS

(* One after one makes two.                                                *)
LEMMA OneAndOne ==
  ASSUME NEW a, NEW b, NEW S, a \in S, b \in S
  PROVE  <<a>> \o <<b>> = <<a, b>>
<1> DEFINE x == <<a>>
           y == <<b>>
           u == x \o y
<1>1. x \in Seq(S) /\ Len(x) = 1 /\ x[1] = a
  BY OneLong
<1>2. y \in Seq(S) /\ Len(y) = 1 /\ y[1] = b
  BY OneLong
<1> HIDE DEF x, y
<1>3. /\ u \in Seq(S) /\ Len(u) = Len(x) + Len(y)
      /\ \A i \in 1 .. Len(x) : u[i] = x[i]
      /\ \A i \in 1 .. Len(y) : u[Len(x) + i] = y[i]
  BY <1>1, <1>2, JoinedAt
<1> HIDE DEF u
<1>4. Len(u) = 2 /\ u[1] = a /\ u[1 + 1] = b /\ 1 + 1 = 2
  BY <1>1, <1>2, <1>3
<1>5. u = <<a, b>>
  <2>1. u \in Seq(S) /\ Len(u) = 2 /\ u[1] = a /\ u[2] = b
    BY <1>3, <1>4
  <2> QED BY <2>1, TwoLong
<1> QED BY <1>5 DEF u, x, y

(* One before two makes three.                                             *)
LEMMA OneAndTwo ==
  ASSUME NEW a, NEW b, NEW c, NEW S, a \in S, b \in S, c \in S
  PROVE  <<a>> \o <<b, c>> = <<a, b, c>>
<1> DEFINE x == <<a>>
           y == <<b, c>>
           u == x \o y
<1>1. x \in Seq(S) /\ Len(x) = 1 /\ x[1] = a
  BY OneLong
<1>2. y \in Seq(S) /\ Len(y) = 2 /\ y[1] = b /\ y[2] = c
  OBVIOUS
<1> HIDE DEF x, y
<1>3. /\ u \in Seq(S) /\ Len(u) = Len(x) + Len(y)
      /\ \A i \in 1 .. Len(x) : u[i] = x[i]
      /\ \A i \in 1 .. Len(y) : u[Len(x) + i] = y[i]
  <2>1. x \in Seq(S) /\ y \in Seq(S)
    BY <1>1, <1>2
  <2> QED BY <2>1, JoinedAt
<1> HIDE DEF u
<1>4. Len(u) = 3 /\ u[1] = a /\ u[1 + 1] = b /\ 1 + 1 = 2 /\ u[1 + 2] = c /\ 1 + 2 = 3
  <2>1. 1 \in 1 .. Len(x) /\ 1 \in 1 .. Len(y) /\ 2 \in 1 .. Len(y)
    BY <1>1, <1>2
  <2> QED BY <2>1, <1>1, <1>2, <1>3
<1>5. u = <<a, b, c>>
  <2>1. u \in Seq(S) /\ Len(u) = 3 /\ u[1] = a /\ u[2] = b /\ u[3] = c
    BY <1>3, <1>4
  <2> QED BY <2>1, ThreeLong
<1> QED BY <1>5 DEF u, x, y

(* One element after the other.                                            *)
LEMMA OneByOne ==
  ASSUME NEW a, NEW b, NEW c
  PROVE  /\ <<a>> \o (<<b>> \o (<<c>> \o <<>>)) = <<a, b, c>>
         /\ <<a>> \o (<<b>> \o <<>>) = <<a, b>>
<1> DEFINE S == {a, b, c}
<1>1. a \in S /\ b \in S /\ c \in S
  OBVIOUS
<1>2. <<b>> \in Seq(S) /\ <<c>> \in Seq(S)
  BY <1>1, OneLong
<1>3. <<c>> \o <<>> = <<c>> /\ <<b>> \o <<>> = <<b>>
  BY <1>2, ConcatEmptySeq
<1> HIDE DEF S
<1>4. <<a>> \o <<b>> = <<a, b>> /\ <<b>> \o <<c>> = <<b, c>>
  BY <1>1, OneAndOne
<1>5. <<a>> \o <<b, c>> = <<a, b, c>>
  BY <1>1, OneAndTwo
<1> QED BY <1>3, <1>4, <1>5

(* The n bytes of s behind the place k are the body of an element, and     *)
(* hold what a receiver takes for a counter and messages behind the first  *)
(* a of them.                                                              *)
BodySays(s, k, n, a, counter, msgs) ==
  LET body == SubSeq(s, k + 1, k + n)
  IN  /\ Len(body) = n /\ \A i \in 1 .. n : body[i] = s[k + i]
      /\ ReadInfo(SubSeq(body, a + 1, Len(body))) = [counter |-> counter, msgs |-> msgs]
      /\ SubSeq(body, a + 1, Len(body)) # <<>>

(* The body of an element that carries the pack behind its first a bytes.  *)
LEMMA BodyRead ==
  ASSUME NEW s \in Seq(Octet), NEW k \in Nat, NEW a \in Nat, NEW counter, NEW msgs, Msgs(msgs),
         NEW n \in Nat, n = a + 4 + 25 * Len(msgs), k + n <= Len(s),
         Carries(s, k + a, counter, msgs)
  PROVE  BodySays(s, k, n, a, counter, msgs)
<1> DEFINE body == SubSeq(s, k + 1, k + n)
           c == Len(msgs)
           info == SubSeq(body, a + 1, a + (4 + 25 * c))
<1>1. c \in Nat
  BY MsgsNumbers
<1>2. body \in Seq(Octet) /\ Len(body) = n /\ \A i \in 1 .. n : body[i] = s[k + i]
  BY PartAt
<1>3. Carries(body, a, counter, msgs)
  <2>1. a + 4 + 25 * Len(msgs) <= n
    BY <1>1
  <2> QED BY <2>1, CarriesInPart
<1> HIDE DEF body
<1>4. 4 + 25 * c \in Nat /\ a + (4 + 25 * c) <= Len(body) /\ a + (4 + 25 * c) = Len(body)
  <2> HIDE DEF c
  <2>1. n = a + 4 + 25 * c
    BY DEF c
  <2> QED BY <1>1, <1>2, <2>1
<1>5. info \in Seq(Octet) /\ Len(info) = 4 + 25 * c
  <2> HIDE DEF c
  <2> QED BY <1>2, <1>4, PartAt
<1>6. Carries(info, 0, counter, msgs)
  <2>1. Carries(body, a + 0, counter, msgs) /\ 0 \in Nat /\ 0 + 4 + 25 * Len(msgs) <= 4 + 25 * c
    BY <1>1, <1>3
  <2> HIDE DEF c
  <2> QED BY <1>2, <1>4, <2>1, CarriesInPart
<1> HIDE DEF info
<1>7. ReadInfo(info) = [counter |-> counter, msgs |-> msgs]
  BY <1>5, <1>6, InfoIsRead DEF c
<1>8. info # <<>>
  <2> HIDE DEF c
  <2>1. Len(info) # 0
    BY <1>1, <1>5
  <2> QED BY <2>1
<1>9. info = SubSeq(body, a + 1, Len(body))
  BY <1>4 DEF info
<1> QED BY <1>2, <1>7, <1>8, <1>9 DEF BodySays, body

(* A beacon as far as a receiver looks: the name, the rates and the pack.  *)
IsBeacon(s, l, n, counter, msgs) ==
  /\ n = 5 + (3 + 25 * Len(msgs)) /\ Len(s) = 43 + l + n /\ s[1] = 128
  /\ s[37] = 0 /\ s[38] = l /\ s[39 + l] = 1 /\ s[40 + l] = 1 /\ s[42 + l] = 221 /\ s[43 + l] = n
  /\ s[44 + l] = 250 /\ s[45 + l] = 11 /\ s[46 + l] = 188 /\ s[47 + l] = 13
  /\ Carries(s, 47 + l, counter, msgs)

(* The walk with lengths of one byte.                                      *)
LEMMA ThinWalk ==
  ASSUME NEW s \in Seq(Nat)
  PROVE  /\ Elements(s, Len(s) + 1, 1) = <<>>
         /\ \A at \in 1 .. Len(s), k \in Nat :
              (s[at + 1] = k /\ at + 1 + k <= Len(s)) =>
                Elements(s, at, 1) =
                  <<[id |-> s[at], body |-> SubSeq(s, (at + 1) + 1, (at + 1) + k)]>>
                    \o Elements(s, at + 1 + 1 + k, 1)
<1>1. /\ Elements(s, Len(s) + 1, 1) = <<>>
      /\ \A at \in 1 .. Len(s), k \in Nat :
           (k = s[at + 1] + (IF 1 = 2 THEN 256 * s[at + 2] ELSE 0) /\ at + 1 + k <= Len(s)) =>
             Elements(s, at, 1) =
               <<[id |-> s[at], body |-> SubSeq(s, (at + 1) + 1, (at + 1) + k)]>>
                 \o Elements(s, at + 1 + 1 + k, 1)
  <2>1. 1 \in {1, 2}
    OBVIOUS
  <2> QED BY <2>1, ElementsWalk
<1>2. ASSUME NEW at \in 1 .. Len(s), NEW k \in Nat, s[at + 1] = k
      PROVE  k = s[at + 1] + (IF 1 = 2 THEN 256 * s[at + 2] ELSE 0)
  BY <1>2
<1> QED BY <1>1, <1>2

(* A receiver that walks through a beacon finds what it carries.           *)
LEMMA BeaconRead ==
  ASSUME NEW msgs, Msgs(msgs), NEW counter, NEW l \in Nat, NEW n \in Nat,
         NEW s \in Seq(Octet), IsBeacon(s, l, n, counter, msgs)
  PROVE  ReadFrame(s) = [counter |-> counter, msgs |-> msgs]
<1> DEFINE E(at) == Elements(s, at, 1)
           B(a, k) == SubSeq(s, a + 1, a + k)
           e1 == [id |-> 0, body |-> B(38, l)]
           e2 == [id |-> 1, body |-> B(40 + l, 1)]
           e3 == [id |-> 221, body |-> B(43 + l, n)]
<1>0. n >= 5 /\ s \in Seq(Nat) /\ Len(s) \in Nat /\ Len(s) = 43 + l + n
  <2>1. Len(msgs) \in Nat
    BY MsgsNumbers
  <2>2. s \in Seq(Nat) /\ Len(s) \in Nat
    BY OctetsAreNats
  <2>3. n = 5 + (3 + 25 * Len(msgs)) /\ Len(s) = 43 + l + n
    BY DEF IsBeacon
  <2> QED BY <2>1, <2>2, <2>3
<1>1. /\ E(Len(s) + 1) = <<>>
      /\ \A at \in 1 .. Len(s), k \in Nat :
           (s[at + 1] = k /\ at + 1 + k <= Len(s)) =>
             E(at) = <<[id |-> s[at], body |-> B(at + 1, k)]>> \o E(at + 1 + 1 + k)
  BY <1>0, ThinWalk
<1> HIDE DEF E, B
<1>2. E(37) = <<e1>> \o E(39 + l)
  <2>1. 37 \in 1 .. Len(s) /\ s[37 + 1] = l /\ 37 + 1 + l <= Len(s)
    <3>1. s[38] = l /\ 37 + 1 = 38 /\ Len(s) = 43 + l + n
      BY DEF IsBeacon
    <3>2. 37 \in 1 .. 43 + l + n /\ 37 + 1 + l <= 43 + l + n
      BY <1>0
    <3> QED BY <3>1, <3>2
  <2>2. E(37) = <<[id |-> s[37], body |-> B(37 + 1, l)]>> \o E(37 + 1 + 1 + l)
    BY <1>1, <2>1
  <2>3. s[37] = 0 /\ 37 + 1 = 38 /\ 37 + 1 + 1 + l = 39 + l
    BY DEF IsBeacon
  <2> QED BY <2>2, <2>3
<1>3. E(39 + l) = <<e2>> \o E(42 + l)
  <2>1. 39 + l \in 1 .. Len(s) /\ s[39 + l + 1] = 1 /\ 39 + l + 1 + 1 <= Len(s) /\ 1 \in Nat
    <3>1. 39 + l + 1 = 40 + l
      OBVIOUS
    <3> QED BY <1>0, <3>1 DEF IsBeacon
  <2>2. E(39 + l) = <<[id |-> s[39 + l], body |-> B(39 + l + 1, 1)]>> \o E(39 + l + 1 + 1 + 1)
    BY <1>1, <2>1
  <2>3. s[39 + l] = 1 /\ 39 + l + 1 = 40 + l /\ 39 + l + 1 + 1 + 1 = 42 + l
    BY DEF IsBeacon
  <2> QED BY <2>2, <2>3
<1>4. E(42 + l) = <<e3>> \o E(Len(s) + 1)
  <2>1. 42 + l \in 1 .. Len(s) /\ s[42 + l + 1] = n /\ 42 + l + 1 + n <= Len(s)
    <3>1. 42 + l + 1 = 43 + l
      OBVIOUS
    <3> QED BY <1>0, <3>1 DEF IsBeacon
  <2>2. E(42 + l) = <<[id |-> s[42 + l], body |-> B(42 + l + 1, n)]>> \o E(42 + l + 1 + 1 + n)
    BY <1>1, <2>1
  <2>3. s[42 + l] = 221 /\ 42 + l + 1 = 43 + l /\ 42 + l + 1 + 1 + n = Len(s) + 1
    BY <1>0 DEF IsBeacon
  <2> QED BY <2>2, <2>3
<1>5. Elements(s, 37, 1) = <<e1, e2, e3>>
  <2> HIDE DEF e1, e2, e3
  <2>1. E(37) = <<e1>> \o (<<e2>> \o (<<e3>> \o <<>>))
    BY <1>1, <1>2, <1>3, <1>4
  <2>2. E(37) = <<e1, e2, e3>>
    BY <2>1, OneByOne
  <2> QED BY <2>2 DEF E
<1>6. /\ Len(e3.body) = n /\ \A i \in 1 .. n : e3.body[i] = s[(43 + l) + i]
      /\ ReadInfo(SubSeq(e3.body, 5, Len(e3.body))) = [counter |-> counter, msgs |-> msgs]
      /\ SubSeq(e3.body, 5, Len(e3.body)) # <<>>
  <2>1. 43 + l \in Nat /\ 4 \in Nat /\ n = 4 + 4 + 25 * Len(msgs) /\ (43 + l) + n <= Len(s)
        /\ (43 + l) + 4 = 47 + l /\ 4 + 1 = 5
    <3>1. Len(msgs) \in Nat /\ n = 5 + (3 + 25 * Len(msgs))
      BY MsgsNumbers DEF IsBeacon
    <3> QED BY <1>0, <3>1
  <2> DEFINE k == 43 + l
             a == 4
  <2>2. BodySays(s, k, n, a, counter, msgs)
    <3>1. Carries(s, k + a, counter, msgs)
      BY <2>1 DEF IsBeacon
    <3>2. k \in Nat /\ a \in Nat /\ n = a + 4 + 25 * Len(msgs) /\ k + n <= Len(s)
      BY <2>1
    <3> HIDE DEF k, a
    <3> QED BY <3>1, <3>2, BodyRead
  <2>3. e3.body = SubSeq(s, (43 + l) + 1, (43 + l) + n)
    BY DEF B
  <2> HIDE DEF e3
  <2> QED BY <2>1, <2>2, <2>3 DEF BodySays
<1>7. SubSeq(e3.body, 1, 4) = OpenDroneId
  <2> DEFINE body == e3.body
  <2>1. body \in Seq(Octet)
    <3>1. 43 + l \in Nat /\ (43 + l) + n <= Len(s)
      BY <1>0
    <3>2. B(43 + l, n) \in Seq(Octet)
      BY <3>1, PartAt DEF B
    <3> QED BY <3>2
  <2>2. /\ body[1] = 250 /\ body[2] = 11 /\ body[3] = 188 /\ body[4] = 13
    <3>1. 1 \in 1 .. n /\ 2 \in 1 .. n /\ 3 \in 1 .. n /\ 4 \in 1 .. n
          /\ (43 + l) + 1 = 44 + l /\ (43 + l) + 2 = 45 + l /\ (43 + l) + 3 = 46 + l /\ (43 + l) + 4 = 47 + l
      BY <1>0
    <3> HIDE DEF e3
    <3>2. /\ e3.body[1] = s[(43 + l) + 1] /\ e3.body[2] = s[(43 + l) + 2]
          /\ e3.body[3] = s[(43 + l) + 3] /\ e3.body[4] = s[(43 + l) + 4]
      BY <1>6, <3>1
    <3> QED BY <3>1, <3>2 DEF IsBeacon
  <2> HIDE DEF body
  <2>3. 0 \in Nat /\ 4 \in Nat /\ 0 + 4 <= Len(body) /\ 0 + 1 = 1 /\ 0 + 4 = 4
    BY <1>0, <1>6 DEF body
  <2> DEFINE t == SubSeq(body, 1, 4)
  <2>4. t \in Seq(Octet) /\ Len(t) = 4 /\ \A i \in 1 .. 4 : t[i] = body[0 + i]
    <3>1. /\ SubSeq(body, 0 + 1, 0 + 4) \in Seq(Octet) /\ Len(SubSeq(body, 0 + 1, 0 + 4)) = 4
          /\ \A i \in 1 .. 4 : SubSeq(body, 0 + 1, 0 + 4)[i] = body[0 + i]
      BY <2>1, <2>3, PartAt
    <3> QED BY <2>3, <3>1
  <2>5. t[1] = 250 /\ t[2] = 11 /\ t[3] = 188 /\ t[4] = 13
    <3>1. t[1] = body[0 + 1] /\ t[2] = body[0 + 2] /\ t[3] = body[0 + 3] /\ t[4] = body[0 + 4]
      <4> HIDE DEF t
      <4> QED BY <2>4
    <3> HIDE DEF t
    <3> QED BY <2>2, <3>1
  <2> HIDE DEF t
  <2>6. t = <<250, 11, 188, 13>>
    BY <2>4, <2>5
  <2> QED BY <2>6 DEF OpenDroneId, t, body
<1>8. VendorInfo(e1) = <<>> /\ VendorInfo(e2) = <<>>
  BY DEF VendorInfo
<1>9. VendorInfo(e3) = SubSeq(e3.body, 5, Len(e3.body))
  <2>1. e3.id = 221 /\ Len(e3.body) > 4
    <3>1. e3.id = 221
      OBVIOUS
    <3> HIDE DEF e3
    <3> QED BY <1>0, <1>6, <3>1
  <2> HIDE DEF e3
  <2> QED BY <1>7, <2>1 DEF VendorInfo
<1>10. e1 # Broken /\ e2 # Broken /\ e3 # Broken
  <2>1. e1.id # Broken.id /\ e2.id # Broken.id /\ e3.id # Broken.id
    BY DEF Broken
  <2> HIDE DEF e1, e2, e3
  <2> QED BY <2>1
<1> HIDE DEF e1, e2, e3
<1> DEFINE es == <<e1, e2, e3>>
           mine == {i \in DOMAIN es : VendorInfo(es[i]) # <<>>}
<1>11. mine = {3}
  <2>1. DOMAIN es = {1, 2, 3} /\ es[1] = e1 /\ es[2] = e2 /\ es[3] = e3
    OBVIOUS
  <2> HIDE DEF es
  <2> QED BY <1>6, <1>8, <1>9, <2>1
<1>12. ~Contains(es, Broken)
  <2>1. Len(es) = 3 /\ es[1] = e1 /\ es[2] = e2 /\ es[3] = e3
    OBVIOUS
  <2> HIDE DEF es
  <2>2. \A i \in 1 .. 3 : i = 1 \/ i = 2 \/ i = 3
    OBVIOUS
  <2> QED BY <1>10, <2>1, <2>2 DEF Contains
<1>13. es[3] = e3
  OBVIOUS
<1> HIDE DEF es
<1>14. (CHOOSE i \in mine : TRUE) = 3 /\ ~(\A i \in mine : mine # {i})
  BY <1>11
<1>15. ReadFrame(s) = IF Contains(es, Broken) \/ \A i \in mine : mine # {i} THEN ReadNothing
                      ELSE ReadInfo(VendorInfo(es[CHOOSE i \in mine : TRUE]))
  <2>1. s[1] = 128
    BY DEF IsBeacon
  <2>2. ReadFrame(s) =
          LET elements == Elements(s, 37, 1)
              seen == {i \in DOMAIN elements : VendorInfo(elements[i]) # <<>>}
          IN  IF Contains(elements, Broken) \/ \A i \in seen : seen # {i} THEN ReadNothing
              ELSE ReadInfo(VendorInfo(elements[CHOOSE i \in seen : TRUE]))
    BY <2>1 DEF ReadFrame
  <2>3. Elements(s, 37, 1) = es
    BY <1>5 DEF es
  <2> HIDE DEF es
  <2> QED BY <2>2, <2>3
<1> HIDE DEF mine
<1> QED BY <1>6, <1>9, <1>12, <1>13, <1>14, <1>15

(* An action frame as far as a receiver looks: two elements, the first of  *)
(* which names the service and carries the pack.                           *)
IsAction(s, n, counter, msgs) ==
  /\ n = 14 + 25 * Len(msgs) /\ Len(s) = 40 + n /\ s[1] = 208
  /\ s[31] = 3 /\ s[32] = n /\ s[33] = 0
  /\ s[34] = 136 /\ s[35] = 105 /\ s[36] = 25 /\ s[37] = 157 /\ s[38] = 146 /\ s[39] = 9
  /\ s[43] = n - 10 /\ Carries(s, 43, counter, msgs)
  /\ s[34 + n] = 14 /\ s[35 + n] = 4 /\ s[36 + n] = 0

(* The walk with lengths of two bytes.                                     *)
LEMMA WideWalk ==
  ASSUME NEW s \in Seq(Nat)
  PROVE  /\ Elements(s, Len(s) + 1, 2) = <<>>
         /\ \A at \in 1 .. Len(s), k \in Nat :
              (s[at + 1] = k /\ s[at + 2] = 0 /\ at + 2 + k <= Len(s)) =>
                Elements(s, at, 2) =
                  <<[id |-> s[at], body |-> SubSeq(s, (at + 2) + 1, (at + 2) + k)]>>
                    \o Elements(s, at + 1 + 2 + k, 2)
<1>1. /\ Elements(s, Len(s) + 1, 2) = <<>>
      /\ \A at \in 1 .. Len(s), k \in Nat :
           (k = s[at + 1] + (IF 2 = 2 THEN 256 * s[at + 2] ELSE 0) /\ at + 2 + k <= Len(s)) =>
             Elements(s, at, 2) =
               <<[id |-> s[at], body |-> SubSeq(s, (at + 2) + 1, (at + 2) + k)]>>
                 \o Elements(s, at + 1 + 2 + k, 2)
  <2>1. 2 \in {1, 2}
    OBVIOUS
  <2> QED BY <2>1, ElementsWalk
<1>2. ASSUME NEW at \in 1 .. Len(s), NEW k \in Nat, s[at + 1] = k, s[at + 2] = 0
      PROVE  k = s[at + 1] + (IF 2 = 2 THEN 256 * s[at + 2] ELSE 0)
  BY <1>2
<1> QED BY <1>1, <1>2

(* A receiver that walks through an action frame finds what it carries.    *)
LEMMA ActionRead ==
  ASSUME NEW msgs, Msgs(msgs), NEW counter, NEW n \in Nat,
         NEW s \in Seq(Octet), IsAction(s, n, counter, msgs)
  PROVE  ReadFrame(s) = [counter |-> counter, msgs |-> msgs]
<1> DEFINE E(at) == Elements(s, at, 2)
           B(a, k) == SubSeq(s, a + 1, a + k)
           e1 == [id |-> 3, body |-> B(33, n)]
           e2 == [id |-> 14, body |-> B(36 + n, 4)]
<1>0. n >= 14 /\ s \in Seq(Nat) /\ Len(s) \in Nat /\ Len(s) = 40 + n
  <2>1. Len(msgs) \in Nat
    BY MsgsNumbers
  <2>2. s \in Seq(Nat) /\ Len(s) \in Nat
    BY OctetsAreNats
  <2>3. n = 14 + 25 * Len(msgs) /\ Len(s) = 40 + n
    BY DEF IsAction
  <2> QED BY <2>1, <2>2, <2>3
<1>1. /\ E(Len(s) + 1) = <<>>
      /\ \A at \in 1 .. Len(s), k \in Nat :
           (s[at + 1] = k /\ s[at + 2] = 0 /\ at + 2 + k <= Len(s)) =>
             E(at) = <<[id |-> s[at], body |-> B(at + 2, k)]>> \o E(at + 1 + 2 + k)
  BY <1>0, WideWalk
<1> HIDE DEF E, B
<1>2. E(31) = <<e1>> \o E(34 + n)
  <2>1. 31 \in 1 .. Len(s) /\ s[31 + 1] = n /\ s[31 + 2] = 0 /\ 31 + 2 + n <= Len(s)
    <3>1. s[32] = n /\ s[33] = 0 /\ 31 + 1 = 32 /\ 31 + 2 = 33 /\ Len(s) = 40 + n
      BY DEF IsAction
    <3>2. 31 \in 1 .. 40 + n /\ 31 + 2 + n <= 40 + n
      BY <1>0
    <3> QED BY <3>1, <3>2
  <2>2. E(31) = <<[id |-> s[31], body |-> B(31 + 2, n)]>> \o E(31 + 1 + 2 + n)
    BY <1>1, <2>1
  <2>3. s[31] = 3 /\ 31 + 2 = 33 /\ 31 + 1 + 2 + n = 34 + n
    BY DEF IsAction
  <2> QED BY <2>2, <2>3
<1>3. E(34 + n) = <<e2>> \o E(Len(s) + 1)
  <2>1. /\ 34 + n \in 1 .. Len(s) /\ s[34 + n + 1] = 4 /\ s[34 + n + 2] = 0
        /\ 34 + n + 2 + 4 <= Len(s) /\ 4 \in Nat
    <3>1. s[35 + n] = 4 /\ s[36 + n] = 0 /\ Len(s) = 40 + n
      BY DEF IsAction
    <3>2. /\ 34 + n + 1 = 35 + n /\ 34 + n + 2 = 36 + n
          /\ 34 + n \in 1 .. 40 + n /\ 34 + n + 2 + 4 <= 40 + n
      OBVIOUS
    <3> QED BY <3>1, <3>2
  <2>2. E(34 + n) = <<[id |-> s[34 + n], body |-> B(34 + n + 2, 4)]>> \o E(34 + n + 1 + 2 + 4)
    BY <1>1, <2>1
  <2>3. s[34 + n] = 14 /\ 34 + n + 2 = 36 + n /\ 34 + n + 1 + 2 + 4 = Len(s) + 1
    BY <1>0 DEF IsAction
  <2> QED BY <2>2, <2>3
<1>4. Elements(s, 31, 2) = <<e1, e2>>
  <2> HIDE DEF e1, e2
  <2>1. E(31) = <<e1>> \o (<<e2>> \o <<>>)
    BY <1>1, <1>2, <1>3
  <2>2. E(31) = <<e1, e2>>
    BY <2>1, OneByOne
  <2> QED BY <2>2 DEF E
<1>5. /\ Len(e1.body) = n /\ \A i \in 1 .. n : e1.body[i] = s[33 + i]
      /\ ReadInfo(SubSeq(e1.body, 11, Len(e1.body))) = [counter |-> counter, msgs |-> msgs]
      /\ SubSeq(e1.body, 11, Len(e1.body)) # <<>>
  <2> DEFINE k == 33
             a == 10
  <2>1. /\ k \in Nat /\ a \in Nat /\ n = a + 4 + 25 * Len(msgs)
        /\ k + n <= Len(s) /\ k + a = 43 /\ a + 1 = 11
    <3>1. Len(msgs) \in Nat /\ n = 14 + 25 * Len(msgs)
      BY MsgsNumbers DEF IsAction
    <3> QED BY <1>0, <3>1
  <2>2. BodySays(s, k, n, a, counter, msgs)
    <3>1. Carries(s, k + a, counter, msgs)
      BY <2>1 DEF IsAction
    <3>2. k \in Nat /\ a \in Nat /\ n = a + 4 + 25 * Len(msgs) /\ k + n <= Len(s)
      BY <2>1
    <3> HIDE DEF k, a
    <3> QED BY <3>1, <3>2, BodyRead
  <2>3. e1.body = SubSeq(s, k + 1, k + n)
    BY DEF B
  <2> HIDE DEF e1
  <2> QED BY <2>1, <2>2, <2>3 DEF BodySays
<1>6. SubSeq(e1.body, 1, 6) = ServiceId /\ e1.body[10] = Len(e1.body) - 10
  <2> DEFINE body == e1.body
  <2>1. body \in Seq(Octet)
    <3>1. 33 \in Nat /\ 33 + n <= Len(s)
      BY <1>0
    <3>2. B(33, n) \in Seq(Octet)
      BY <3>1, PartAt DEF B
    <3> QED BY <3>2
  <2>2. /\ body[1] = 136 /\ body[2] = 105 /\ body[3] = 25
        /\ body[4] = 157 /\ body[5] = 146 /\ body[6] = 9 /\ body[10] = n - 10
    <3>1. /\ 1 \in 1 .. n /\ 2 \in 1 .. n /\ 3 \in 1 .. n /\ 4 \in 1 .. n /\ 5 \in 1 .. n
          /\ 6 \in 1 .. n /\ 10 \in 1 .. n
      BY <1>0
    <3> HIDE DEF e1
    <3>2. /\ e1.body[1] = s[33 + 1] /\ e1.body[2] = s[33 + 2] /\ e1.body[3] = s[33 + 3]
          /\ e1.body[4] = s[33 + 4] /\ e1.body[5] = s[33 + 5] /\ e1.body[6] = s[33 + 6]
          /\ e1.body[10] = s[33 + 10]
      BY <1>5, <3>1
    <3>3. /\ 33 + 1 = 34 /\ 33 + 2 = 35 /\ 33 + 3 = 36 /\ 33 + 4 = 37 /\ 33 + 5 = 38
          /\ 33 + 6 = 39 /\ 33 + 10 = 43
      OBVIOUS
    <3> QED BY <3>2, <3>3 DEF IsAction
  <2>7. body[10] = Len(body) - 10
    <3>1. Len(e1.body) = n
      BY <1>5
    <3> HIDE DEF e1
    <3> QED BY <2>2, <3>1
  <2> HIDE DEF body
  <2>3. 0 \in Nat /\ 6 \in Nat /\ 0 + 6 <= Len(body) /\ 0 + 1 = 1 /\ 0 + 6 = 6
    BY <1>0, <1>5 DEF body
  <2> DEFINE t == SubSeq(body, 1, 6)
  <2>4. t \in Seq(Octet) /\ Len(t) = 6 /\ \A i \in 1 .. 6 : t[i] = body[0 + i]
    <3>1. /\ SubSeq(body, 0 + 1, 0 + 6) \in Seq(Octet) /\ Len(SubSeq(body, 0 + 1, 0 + 6)) = 6
          /\ \A i \in 1 .. 6 : SubSeq(body, 0 + 1, 0 + 6)[i] = body[0 + i]
      BY <2>1, <2>3, PartAt
    <3> QED BY <2>3, <3>1
  <2>5. t[1] = 136 /\ t[2] = 105 /\ t[3] = 25 /\ t[4] = 157 /\ t[5] = 146 /\ t[6] = 9
    <3>1. /\ t[1] = body[0 + 1] /\ t[2] = body[0 + 2] /\ t[3] = body[0 + 3]
          /\ t[4] = body[0 + 4] /\ t[5] = body[0 + 5] /\ t[6] = body[0 + 6]
      <4> HIDE DEF t
      <4> QED BY <2>4
    <3> HIDE DEF t
    <3> QED BY <2>2, <3>1
  <2> HIDE DEF t
  <2>6. t = <<136, 105, 25, 157, 146, 9>>
    BY <2>4, <2>5
  <2> QED BY <2>6, <2>7 DEF ServiceId, t, body
<1>7. ServiceInfo(e2) = <<>>
  BY DEF ServiceInfo
<1>8. ServiceInfo(e1) = SubSeq(e1.body, 11, Len(e1.body))
  <2>1. e1.id = 3 /\ Len(e1.body) > 10
    <3>1. e1.id = 3
      OBVIOUS
    <3> HIDE DEF e1
    <3> QED BY <1>0, <1>5, <3>1
  <2> HIDE DEF e1
  <2> QED BY <1>6, <2>1 DEF ServiceInfo
<1>9. e1 # Broken /\ e2 # Broken
  <2>1. e1.id # Broken.id /\ e2.id # Broken.id
    BY DEF Broken
  <2> HIDE DEF e1, e2
  <2> QED BY <2>1
<1> HIDE DEF e1, e2
<1> DEFINE es == <<e1, e2>>
           mine == {i \in DOMAIN es : ServiceInfo(es[i]) # <<>>}
<1>11. mine = {1}
  <2>1. DOMAIN es = {1, 2} /\ es[1] = e1 /\ es[2] = e2
    OBVIOUS
  <2> HIDE DEF es
  <2> QED BY <1>5, <1>7, <1>8, <2>1
<1>12. ~Contains(es, Broken)
  <2>1. Len(es) = 2 /\ es[1] = e1 /\ es[2] = e2
    OBVIOUS
  <2> HIDE DEF es
  <2>2. \A i \in 1 .. 2 : i = 1 \/ i = 2
    OBVIOUS
  <2> QED BY <1>9, <2>1, <2>2 DEF Contains
<1>13. es[1] = e1
  OBVIOUS
<1> HIDE DEF es
<1>14. (CHOOSE i \in mine : TRUE) = 1 /\ ~(\A i \in mine : mine # {i})
  BY <1>11
<1>15. ReadFrame(s) = IF Contains(es, Broken) \/ \A i \in mine : mine # {i} THEN ReadNothing
                      ELSE ReadInfo(ServiceInfo(es[CHOOSE i \in mine : TRUE]))
  <2>1. s[1] # 128
    BY DEF IsAction
  <2>2. ReadFrame(s) =
          LET elements == Elements(s, 31, 2)
              seen == {i \in DOMAIN elements : ServiceInfo(elements[i]) # <<>>}
          IN  IF Contains(elements, Broken) \/ \A i \in seen : seen # {i} THEN ReadNothing
              ELSE ReadInfo(ServiceInfo(elements[CHOOSE i \in seen : TRUE]))
    BY <2>1 DEF ReadFrame
  <2>3. Elements(s, 31, 2) = es
    BY <1>4 DEF es
  <2> HIDE DEF es
  <2> QED BY <2>2, <2>3
<1> HIDE DEF mine
<1> QED BY <1>5, <1>8, <1>12, <1>13, <1>14, <1>15

(* A beacon that was built says what it was built of.                      *)
LEMMA BeaconSays ==
  ASSUME NEW msgs \in Seq(Octet), NEW name \in Seq(Octet), NEW counter \in Octet, NEW room,
         BuildBeaconFrame(msgs, name, counter, room).result = "Ok"
  PROVE  ReadFrame(BuildBeaconFrame(msgs, name, counter, room).bytes) = [counter |-> counter, msgs |-> msgs]
<1> DEFINE s == BuildBeaconFrame(msgs, name, counter, room).bytes
           l == Len(name)
           n == 5 + (3 + 25 * Len(msgs))
<1>1. /\ Msgs(msgs) /\ l \in Nat /\ s \in Seq(Octet) /\ Len(s) = 43 + l + n /\ s[1] = 128
      /\ s[37] = 0 /\ s[38] = l /\ s[39 + l] = 1 /\ s[40 + l] = 1
      /\ s[42 + l] = 221 /\ s[43 + l] = n
      /\ s[44 + l] = 250 /\ s[45 + l] = 11 /\ s[46 + l] = 188 /\ s[47 + l] = 13
      /\ Carries(s, 47 + l, counter, msgs)
  BY BeaconShape
<1>2. n \in Nat /\ n = 5 + (3 + 25 * Len(msgs))
  <2>1. Len(msgs) \in Nat
    BY <1>1, MsgsNumbers
  <2> QED BY <2>1
<1> HIDE DEF s, l, n
<1>3. IsBeacon(s, l, n, counter, msgs)
  BY <1>1, <1>2 DEF IsBeacon
<1>4. ReadFrame(s) = [counter |-> counter, msgs |-> msgs]
  BY <1>1, <1>2, <1>3, BeaconRead
<1> QED BY <1>4 DEF s

(* So does an action frame.                                                *)
LEMMA ActionSays ==
  ASSUME NEW msgs \in Seq(Octet), NEW counter \in Octet, NEW room,
         BuildNanActionFrame(msgs, counter, room).result = "Ok"
  PROVE  ReadFrame(BuildNanActionFrame(msgs, counter, room).bytes) = [counter |-> counter, msgs |-> msgs]
<1> DEFINE s == BuildNanActionFrame(msgs, counter, room).bytes
           n == 14 + 25 * Len(msgs)
<1>1. /\ Msgs(msgs) /\ s \in Seq(Octet) /\ Len(s) = 40 + n /\ s[1] = 208
      /\ s[31] = 3 /\ s[32] = n /\ s[33] = 0
      /\ s[34] = 136 /\ s[35] = 105 /\ s[36] = 25 /\ s[37] = 157 /\ s[38] = 146 /\ s[39] = 9
      /\ s[43] = n - 10 /\ Carries(s, 43, counter, msgs)
      /\ s[34 + n] = 14 /\ s[35 + n] = 4 /\ s[36 + n] = 0
  BY NanShape
<1>2. n \in Nat /\ n = 14 + 25 * Len(msgs)
  <2>1. Len(msgs) \in Nat
    BY <1>1, MsgsNumbers
  <2> QED BY <2>1
<1> HIDE DEF s, n
<1>3. IsAction(s, n, counter, msgs)
  BY <1>1, <1>2 DEF IsAction
<1>4. ReadFrame(s) = [counter |-> counter, msgs |-> msgs]
  BY <1>1, <1>2, <1>3, ActionRead
<1> QED BY <1>4 DEF s

(* A pack that was built is read for the messages it was built of.         *)
LEMMA PackSays ==
  ASSUME NEW msgs \in Seq(Octet), NEW room, BuildPack(msgs, room).result = "Ok"
  PROVE  ReadInfo(<<0>> \o BuildPack(msgs, room).bytes).msgs = msgs
<1> DEFINE p == BuildPack(msgs, room).bytes
           zero == <<0>>
           info == zero \o p
           c == Len(msgs)
<1>1. Msgs(msgs) /\ p \in Seq(Octet) /\ Len(p) = 3 + 25 * c
  BY PackShape
<1>2. c \in Nat
  BY <1>1, MsgsNumbers
<1>3. zero \in Seq(Octet) /\ Len(zero) = 1
  BY OctetsUsed, ShortBytes
<1> HIDE DEF p, zero
<1>4. info \in Seq(Octet) /\ Len(info) = Len(zero) + Len(p) /\ Holds(info, Len(zero), p)
  <2>1. zero \in Seq(Octet) /\ p \in Seq(Octet)
    BY <1>1, <1>3
  <2> QED BY <2>1, Appended
<1> HIDE DEF info, c
<1>5. Holds(info, 0 + 1, p) /\ Len(info) = 4 + 25 * c /\ 0 \in Nat
  BY <1>1, <1>2, <1>3, <1>4
<1>6. Carries(info, 0, info[0 + 1], msgs)
  <2>1. Holds(info, 0 + 1, BuildPack(msgs, room).bytes)
    BY <1>5 DEF p
  <2> QED BY <1>4, <1>5, <2>1, HoldsPack
<1>7. ReadInfo(info) = [counter |-> info[0 + 1], msgs |-> msgs]
  <2> DEFINE x == info[0 + 1]
  <2>1. Carries(info, 0, x, msgs) /\ Len(info) = 4 + 25 * Len(msgs)
    BY <1>5, <1>6 DEF c
  <2> HIDE DEF x
  <2>2. ReadInfo(info) = [counter |-> x, msgs |-> msgs]
    BY <1>1, <1>4, <2>1, InfoIsRead
  <2> QED BY <2>2 DEF x
<1>8. ReadInfo(info).msgs = msgs
  BY <1>7
<1> QED BY <1>8 DEF info, zero, p

(* The advert of Bluetooth 4 says what it was built of.                    *)
LEMMA LegacySays ==
  ASSUME NEW m \in Octet, NEW r \in Octet
  PROVE  ReadLegacy(BuildLegacyAdv(m, r)) = [counter |-> r, msgs |-> <<m>>]
<1> DEFINE head == <<30, 22, 250, 255, 13, r>>
           body == MessageBytes(m)
           advert == head \o body
           lead == SubSeq(advert, 1 + 1, 1 + 4)
           rest == SubSeq(advert, 6 + 1, 6 + 25)
<1>1. /\ head \in Seq(Octet) /\ Len(head) = 6 /\ head[1] = 30 /\ head[2] = 22 /\ head[3] = 250
      /\ head[4] = 255 /\ head[5] = 13 /\ head[6] = r
  <2>1. 30 \in Octet /\ 22 \in Octet
    BY DEF Octet
  <2>2. head \in Seq(Octet) /\ Len(head) = 6
    BY <2>1, OctetsUsed, ShortBytes
  <2> QED BY <2>2
<1>2. body \in Seq(Octet) /\ Len(body) = 25 /\ \A i \in 1 .. 25 : body[i] = m
  <2>1. body = [i \in 1 .. 25 |-> m]
    BY RadioAssumption DEF MessageBytes
  <2>2. 25 \in Nat /\ [i \in 1 .. 25 |-> m] \in [1 .. 25 -> Octet]
    OBVIOUS
  <2>3. [i \in 1 .. 25 |-> m] \in Seq(Octet) /\ Len([i \in 1 .. 25 |-> m]) = 25
    BY <2>2, FunctionIsSeq
  <2> QED BY <2>1, <2>3
<1> HIDE DEF head, body
<1>3. /\ advert \in Seq(Octet) /\ Len(advert) = 31
      /\ \A i \in 1 .. 6 : advert[i] = head[i]
      /\ \A i \in 1 .. 25 : advert[6 + i] = body[i]
  <2>1. head \in Seq(Octet) /\ body \in Seq(Octet)
    BY <1>1, <1>2
  <2>2. /\ advert \in Seq(Octet) /\ Len(advert) = Len(head) + Len(body)
        /\ \A i \in 1 .. Len(head) : advert[i] = head[i]
        /\ \A i \in 1 .. Len(body) : advert[Len(head) + i] = body[i]
    BY <2>1, JoinedAt
  <2>3. Len(head) = 6 /\ Len(body) = 25
    BY <1>1, <1>2
  <2> HIDE DEF advert
  <2> QED BY <2>2, <2>3
<1> HIDE DEF advert
<1>4. advert[1] = 30 /\ advert[6] = r /\ advert[7] = m
  <2>1. advert[1] = head[1] /\ advert[6] = head[6] /\ advert[6 + 1] = body[1] /\ body[1] = m
    BY <1>2, <1>3
  <2> QED BY <1>1, <2>1
<1>5. lead = <<22, 250, 255, 13>>
  <2>1. 1 \in Nat /\ 4 \in Nat /\ 1 + 4 <= Len(advert)
    BY <1>3
  <2>2. lead \in Seq(Octet) /\ Len(lead) = 4 /\ \A i \in 1 .. 4 : lead[i] = advert[1 + i]
    <3> DEFINE a == 1
               n == 4
    <3>1. advert \in Seq(Octet) /\ a \in Nat /\ n \in Nat /\ a + n <= Len(advert)
      BY <1>3, <2>1
    <3> HIDE DEF a, n
    <3>2. /\ SubSeq(advert, a + 1, a + n) \in Seq(Octet) /\ Len(SubSeq(advert, a + 1, a + n)) = n
          /\ \A i \in 1 .. n : SubSeq(advert, a + 1, a + n)[i] = advert[a + i]
      BY <3>1, PartAt
    <3> QED BY <3>2 DEF a, n
  <2> HIDE DEF lead
  <2>3. /\ lead[1] = advert[1 + 1] /\ lead[2] = advert[1 + 2]
        /\ lead[3] = advert[1 + 3] /\ lead[4] = advert[1 + 4]
    BY <2>2
  <2>4. advert[2] = head[2] /\ advert[3] = head[3] /\ advert[4] = head[4] /\ advert[5] = head[5]
    BY <1>3
  <2>5. lead[1] = 22 /\ lead[2] = 250 /\ lead[3] = 255 /\ lead[4] = 13
    BY <1>1, <2>3, <2>4
  <2> QED BY <2>2, <2>5
<1>6. rest = body
  <2>1. 6 \in Nat /\ 25 \in Nat /\ 6 + 25 <= Len(advert)
    BY <1>3
  <2>2. rest \in Seq(Octet) /\ Len(rest) = 25 /\ \A i \in 1 .. 25 : rest[i] = advert[6 + i]
    <3> DEFINE a == 6
               n == 25
    <3>1. advert \in Seq(Octet) /\ a \in Nat /\ n \in Nat /\ a + n <= Len(advert)
      BY <1>3, <2>1
    <3> HIDE DEF a, n
    <3>2. /\ SubSeq(advert, a + 1, a + n) \in Seq(Octet) /\ Len(SubSeq(advert, a + 1, a + n)) = n
          /\ \A i \in 1 .. n : SubSeq(advert, a + 1, a + n)[i] = advert[a + i]
      BY <3>1, PartAt
    <3> QED BY <3>2 DEF a, n
  <2> HIDE DEF rest
  <2>3. \A i \in 1 .. Len(rest) : rest[i] = body[i]
    BY <1>3, <2>2
  <2>4. Len(rest) = Len(body)
    BY <1>2, <2>2
  <2> QED BY <1>2, <2>2, <2>3, <2>4, SeqEqual
<1>7. /\ SubSeq(advert, 2, 5) = <<22, 250, 255, 13>>
      /\ SubSeq(advert, 7, Len(advert)) = MessageBytes(advert[7])
  <2>1. 1 + 1 = 2 /\ 1 + 4 = 5 /\ 6 + 1 = 7 /\ 6 + 25 = Len(advert)
    BY <1>3
  <2> QED BY <1>4, <1>5, <1>6, <2>1 DEF body
<1>8. advert[1] = Len(advert) - 1
  BY <1>3, <1>4
<1>9. ReadLegacy(advert) = [counter |-> r, msgs |-> <<m>>]
  BY <1>4, <1>7, <1>8 DEF ReadLegacy
<1> QED BY <1>9 DEF BuildLegacyAdv, advert, head, body

-----------------------------------------------------------------------------
(* A name cut to 32 bytes is bytes.                                        *)
LEMMA TruncatedTyped ==
  ASSUME NEW name \in Ssids
  PROVE  Truncated(name) \in Seq(Octet)
<1> DEFINE n == IF Len(name) < 32 THEN Len(name) ELSE 32
<1>1. name \in Seq(Octet)
  BY RadioAssumption
<1>2. Len(name) \in Nat
  BY <1>1, LenProperties
<1>3. 0 \in Nat /\ n \in Nat /\ 0 + n <= Len(name) /\ 0 + 1 = 1 /\ 0 + n = n
  BY <1>2
<1>4. Truncated(name) = SubSeq(name, 1, n)
  BY DEF Truncated
<1> HIDE DEF n
<1>5. SubSeq(name, 0 + 1, 0 + n) \in Seq(Octet)
  BY <1>1, <1>3, PartAt
<1> QED BY <1>3, <1>4, <1>5

(* What a radio keeps, from turn to turn.                                  *)
RadioInv ==
  /\ message_counter \in 0 .. CounterMod - 1 /\ ssid \in Seq(Octet)
  /\ meant = [frame |-> meant.frame, legacy |-> meant.legacy, pack |-> meant.pack]
  /\ ReceiverGetsPack

(* A counter is a byte.                                                    *)
LEMMA CountersAreOctets ==
  /\ \A c \in 0 .. CounterMod - 1 : c \in Octet
  /\ \A c \in 0 .. CounterMod - 1 : (c + 1) % CounterMod \in 0 .. CounterMod - 1
  /\ 0 \in 0 .. CounterMod - 1
<1>1. CounterMod \in Nat /\ CounterMod >= 1 /\ CounterMod <= 256
  BY RadioAssumption
<1>2. \A c \in 0 .. CounterMod - 1 : (c + 1) % CounterMod \in 0 .. CounterMod - 1
  BY <1>1
<1> QED BY <1>1, <1>2 DEF Octet

(* Sending a frame keeps what a receiver reads.                            *)
LEMMA SendKeeps ==
  ASSUME RadioInv, NEW built, NEW says, NEW refusals, Send(built, says, refusals),
         built.result = "Ok" => ReadFrame(built.bytes) = says,
         UNCHANGED <<legacy, extended>>
  PROVE  /\ meant' = [frame |-> meant'.frame, legacy |-> meant'.legacy, pack |-> meant'.pack]
         /\ ReceiverGetsPack'
<1>1. CASE built.result = "Ok" /\ TxRaw(refusals)
  <2>1. frame' = built.bytes /\ meant' = [meant EXCEPT !.frame = says]
    BY <1>1 DEF Send
  <2>2. meant' = [frame |-> says, legacy |-> meant.legacy, pack |-> meant.pack]
    BY <2>1 DEF RadioInv
  <2>3. meant'.frame = says /\ meant'.legacy = meant.legacy /\ meant'.pack = meant.pack
    BY <2>2
  <2>4. ReadFrame(frame') = says /\ legacy' = legacy /\ extended' = extended
    BY <1>1, <2>1
  <2> QED BY <2>2, <2>3, <2>4 DEF RadioInv, ReceiverGetsPack
<1>2. CASE ~(built.result = "Ok" /\ TxRaw(refusals))
  <2>1. frame' = frame /\ meant' = meant /\ legacy' = legacy /\ extended' = extended
    BY <1>2 DEF Send
  <2> QED BY <2>1 DEF RadioInv, ReceiverGetsPack
<1> QED BY <1>1, <1>2

(* bsp-esp32 wifi.rs and ble.rs, out-astm wifi.rs: whatever the driver     *)
(* refuses, a receiver that walks through the frame or the advert on the   *)
(* air by the lengths in it finds the messages that were handed over, with *)
(* the counter of their turn, for every name, every messages and every     *)
(* room of the buffer.                                                     *)
THEOREM ReceiversAlwaysGetPacks == OutputsSpec => []ReceiverGetsPack
<1>1. OutputsInit => RadioInv
  <2> SUFFICES ASSUME OutputsInit PROVE RadioInv
    OBVIOUS
  <2>1. RadioInit
    BY DEF OutputsInit
  <2>2. /\ ssid \in {Truncated(s) : s \in Ssids} /\ message_counter = 0
        /\ frame = <<>> /\ legacy = <<>> /\ extended = [near |-> <<>>, far |-> <<>>]
        /\ meant = [frame |-> ReadNothing, legacy |-> ReadNothing, pack |-> <<>>]
    BY <2>1 DEF RadioInit
  <2>3. ssid \in Seq(Octet) /\ message_counter \in 0 .. CounterMod - 1
    BY <2>2, TruncatedTyped, CountersAreOctets
  <2>4. meant = [frame |-> meant.frame, legacy |-> meant.legacy, pack |-> meant.pack]
    BY <2>2
  <2>5. ReceiverGetsPack
    BY <2>2 DEF ReceiverGetsPack
  <2> QED BY <2>3, <2>4, <2>5 DEF RadioInv
<1>2. RadioInv /\ [OutputsNext]_outputsVars => RadioInv'
  <2> SUFFICES ASSUME RadioInv, [OutputsNext]_outputsVars PROVE RadioInv'
    OBVIOUS
  <2>0. Packs \subseteq Seq(Octet) /\ ssid \in Seq(Octet) /\ message_counter \in 0 .. CounterMod - 1
    BY RadioAssumption DEF RadioInv
  <2>1. ASSUME NEW msgs \in Packs, NEW refusals \in 0 .. 4, WifiBcn(msgs, refusals)
        PROVE  RadioInv'
    <3> DEFINE built == BuildBeaconFrame(msgs, ssid, message_counter, FrameRoom)
               says == [counter |-> message_counter, msgs |-> msgs]
    <3>1. /\ Send(built, says, refusals) /\ message_counter' = (message_counter + 1) % CounterMod
          /\ ssid' = ssid /\ UNCHANGED <<legacy, extended>>
      BY <2>1 DEF WifiBcn
    <3>2. msgs \in Seq(Octet) /\ message_counter \in Octet
      BY <2>0, CountersAreOctets
    <3>3. built.result = "Ok" => ReadFrame(built.bytes) = says
      BY <2>0, <3>2, BeaconSays
    <3> HIDE DEF built, says
    <3>4. /\ meant' = [frame |-> meant'.frame, legacy |-> meant'.legacy, pack |-> meant'.pack]
          /\ ReceiverGetsPack'
      BY <3>1, <3>3, SendKeeps
    <3>5. message_counter' \in 0 .. CounterMod - 1
      BY <2>0, <3>1, CountersAreOctets
    <3> QED BY <2>0, <3>1, <3>4, <3>5 DEF RadioInv
  <2>2. ASSUME NEW msgs \in Packs, NEW c \in 0 .. CounterMod - 1, NEW refusals \in 0 .. 4,
               WifiNan(msgs, c, refusals)
        PROVE  RadioInv'
    <3> DEFINE built == BuildNanActionFrame(msgs, c, FrameRoom)
               says == [counter |-> c, msgs |-> msgs]
    <3>1. /\ Send(built, says, refusals) /\ message_counter' = message_counter
          /\ ssid' = ssid /\ UNCHANGED <<legacy, extended>>
      BY <2>2 DEF WifiNan
    <3>2. msgs \in Seq(Octet) /\ c \in Octet
      BY <2>0, CountersAreOctets
    <3>3. built.result = "Ok" => ReadFrame(built.bytes) = says
      BY <3>2, ActionSays
    <3> HIDE DEF built, says
    <3>4. /\ meant' = [frame |-> meant'.frame, legacy |-> meant'.legacy, pack |-> meant'.pack]
          /\ ReceiverGetsPack'
      BY <3>1, <3>3, SendKeeps
    <3> QED BY <2>0, <3>1, <3>4 DEF RadioInv
  <2>3. ASSUME NEW msgs \in Packs, NEW r \in 0 .. CounterMod - 1, NEW configured \in BOOLEAN,
               msgs # <<>>, TransmitLegacy(msgs[1], r, configured)
        PROVE  RadioInv'
    <3> DEFINE m == msgs[1]
               says == [counter |-> r, msgs |-> <<m>>]
               advert == BuildLegacyAdv(m, r)
    <3>1. /\ legacy' = advert /\ meant' = [meant EXCEPT !.legacy = says]
          /\ UNCHANGED <<ssid, message_counter, frame, extended>>
      BY <2>3 DEF TransmitLegacy
    <3>2. m \in Octet
      <4>1. msgs \in Seq(Octet) /\ Len(msgs) \in Nat
        BY <2>0, LenProperties
      <4>2. Len(msgs) # 0
        BY <2>3, <4>1, EmptySeq
      <4>3. 1 \in 1 .. Len(msgs)
        BY <4>1, <4>2
      <4> QED BY <4>1, <4>3, ElementOfSeq
    <3>3. r \in Octet
      BY CountersAreOctets
    <3> HIDE DEF m
    <3>4. ReadLegacy(advert) = says
      BY <3>2, <3>3, LegacySays
    <3> HIDE DEF advert, says
    <3>5. meant' = [frame |-> meant.frame, legacy |-> says, pack |-> meant.pack]
      BY <3>1 DEF RadioInv
    <3>6. meant'.frame = meant.frame /\ meant'.legacy = says /\ meant'.pack = meant.pack
      BY <3>5
    <3>7. ReceiverGetsPack'
      BY <3>1, <3>4, <3>6 DEF RadioInv, ReceiverGetsPack
    <3> QED BY <2>0, <3>1, <3>5, <3>6, <3>7 DEF RadioInv
  <2>4. ASSUME NEW msgs \in Packs, NEW near \in SetUps, NEW far \in SetUps,
               TransmitExtended(msgs, near, far)
        PROVE  RadioInv'
    <3> DEFINE pack == BuildPack(msgs, FrameRoom)
    <3>1. /\ pack.result = "Ok" /\ extended'.near = pack.bytes
          /\ meant' = [meant EXCEPT !.pack = msgs]
          /\ UNCHANGED <<ssid, message_counter, frame, legacy>>
      BY <2>4 DEF TransmitExtended
    <3>2. msgs \in Seq(Octet)
      BY <2>0
    <3>3. ReadInfo(<<0>> \o pack.bytes).msgs = msgs
      BY <3>1, <3>2, PackSays
    <3> HIDE DEF pack
    <3>5. meant' = [frame |-> meant.frame, legacy |-> meant.legacy, pack |-> msgs]
      BY <3>1 DEF RadioInv
    <3>6. meant'.frame = meant.frame /\ meant'.legacy = meant.legacy /\ meant'.pack = msgs
      BY <3>5
    <3>7. ReceiverGetsPack'
      BY <3>1, <3>3, <3>6 DEF RadioInv, ReceiverGetsPack
    <3> QED BY <2>0, <3>1, <3>5, <3>6, <3>7 DEF RadioInv
  <2>5. CASE UNCHANGED radioVars
    BY <2>5 DEF radioVars, RadioInv, ReceiverGetsPack
  <2> QED BY <2>1, <2>2, <2>3, <2>4, <2>5 DEF OutputsNext, RadioNext, outputsVars
<1>3. RadioInv => ReceiverGetsPack
  BY DEF RadioInv
<1> QED BY <1>1, <1>2, <1>3, PTL DEF OutputsSpec
=============================================================================
