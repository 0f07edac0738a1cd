---------------------------- MODULE InputsProofs ----------------------------
(***************************************************************************)
(* What the parsers of a board guarantee for every bus and every line: any *)
(* number of nodes and contexts, any frames, faults and limits.            *)
(***************************************************************************)
EXTENDS Inputs, MavlinkProofs, FiniteSetTheorems

-----------------------------------------------------------------------------
(* The bus.  What its parts are, for the receivers of this bus.            *)
Instants == 0 .. ClockMod - 1
Tids     == 0 .. TidMod - 1

PieceSet == Nodes \X Tids \X Nat

ContextSet ==
  [node : Nodes \cup {"none"}, ready : BOOLEAN, tid : Tids, toggle : BOOLEAN,
   buf : Seq(PieceSet), crc : Seq(PieceSet), prev : Instants, this : Instants]

CanFrame ==
  [node : Nodes, sot : BOOLEAN, eot : BOOLEAN, toggle : BOOLEAN, tid : Tids,
   piece : PieceSet, crc : Seq(PieceSet)]

Sender ==
  [node : Nodes, at : Nat, length : Nat \ {0}, tid : Tids, due : BOOLEAN, age : Nat,
   undue : Tids]

(* No two contexts in use are of one node.                                 *)
OneEach ==
  \A i, j \in DOMAIN contexts :
    (contexts[i].ready /\ contexts[j].ready /\ i # j) => contexts[i].node # contexts[j].node

BusTyped ==
  /\ bus \in Buses /\ clock \in Instants /\ last_fix \in Instants /\ fix_age \in 0 .. ClockMod
  /\ quiet \in [Nodes -> 0 .. HalfTurn + 1]
  /\ contexts \in [1 .. bus.contexts -> ContextSet]
  /\ \A i \in 1 .. bus.contexts : Len(contexts[i].buf) <= MaxPieces
  /\ nodes \in [Nodes -> Sender]
  /\ \A n \in Nodes : nodes[n].node = n /\ nodes[n].at < nodes[n].length
  /\ bus_faults \in 0 .. bus.faults

(* The stamp of the last fix is as old as the fix, until the clock has     *)
(* turned.                                                                 *)
FixAged == (last_fix # Never /\ fix_age < ClockMod) => Since(last_fix) = fix_age

BusInv == BusTyped /\ OneEach /\ FixAged

-----------------------------------------------------------------------------
(* What a turn of the clock does to an age.                                *)
LEMMA ModOfDifference ==
  ASSUME NEW m \in Nat \ {0}, NEW a \in 0 .. m - 1, NEW b \in 0 .. m - 1
  PROVE  (a - b) % m = IF a >= b THEN a - b ELSE a - b + m
<1>1. CASE a >= b
  <2>1. a - b \in 0 .. m - 1
    BY <1>1
  <2> QED BY <1>1, <2>1, ModSmall
<1>2. CASE a < b
  <2> DEFINE r == a - b + m
  <2>1. r \in 0 .. m - 1 /\ a - b = (-1) * m + r
    BY <1>2
  <2>2. ((-1) * m + r) % m = r
    <3> HIDE DEF r
    <3> QED BY <2>1, SMTT(30)
  <2> QED BY <1>2, <2>1, <2>2
<1> QED BY <1>1, <1>2

(* An age grows with the clock until a whole turn has gone.                *)
LEMMA SinceGrows ==
  ASSUME NEW m \in Nat \ {0}, NEW now \in 0 .. m - 1, NEW stamp \in 0 .. m - 1, NEW d \in Nat,
         ((now - stamp) % m) + d < m
  PROVE  (((now + d) % m) - stamp) % m = ((now - stamp) % m) + d
<1>1. (now - stamp) % m = IF now >= stamp THEN now - stamp ELSE now - stamp + m
  BY ModOfDifference
<1>2. d \in 0 .. m - 1
  BY <1>1
<1>3. (now + d) % m = IF now + d < m THEN now + d ELSE now + d - m
  BY <1>2, ModOfTwo
<1> DEFINE later == (now + d) % m
<1>4. later \in 0 .. m - 1
  BY <1>2, <1>3
<1>5. (later - stamp) % m = IF later >= stamp THEN later - stamp ELSE later - stamp + m
  BY <1>4, ModOfDifference
<1> HIDE DEF later
<1>6. later = IF now + d < m THEN now + d ELSE now + d - m
  BY <1>3 DEF later
<1> DEFINE age == (now - stamp) % m
           after == (later - stamp) % m
<1> HIDE DEF age, after
<1>7. /\ age = IF now >= stamp THEN now - stamp ELSE now - stamp + m
      /\ after = IF later >= stamp THEN later - stamp ELSE later - stamp + m
      /\ age + d < m
  BY <1>1, <1>5 DEF age, after
<1>8. after = age + d
  BY <1>4, <1>6, <1>7
<1> QED BY <1>8 DEF age, after, later

(* The bounds of the histories.                                            *)
LEMMA UpToBounded ==
  ASSUME NEW bound \in Nat, NEW n \in Nat
  PROVE  UpTo(bound, n) \in 0 .. bound
  BY DEF UpTo

(* Half a turn is a time.                                                  *)
LEMMA HalfTurnTyped == HalfTurn \in Nat /\ TidTimeout <= HalfTurn
  BY BusAssumption DEF HalfTurn

-----------------------------------------------------------------------------
(* One frame.  What a parser does with it leaves a context of its node,    *)
(* never longer than a transfer may be.                                    *)
LEMMA AddFrameTyped ==
  ASSUME BusTyped, NEW t0 \in ContextSet, Len(t0.buf) <= MaxPieces, NEW f \in CanFrame
  PROVE  LET c == AddFrame(t0, f).context
         IN  c \in ContextSet /\ c.node = t0.node /\ Len(c.buf) <= MaxPieces
<1> DEFINE t == IF NeedsRestart(t0, f) THEN Restarted(t0, f) ELSE t0
           s == Stamped(t, f)
           w == Written(s, f)
           Good(c) == c \in ContextSet /\ c.node = t0.node /\ Len(c.buf) <= MaxPieces
<1>0. /\ TidMod \in Nat \ {0} /\ MaxPieces \in Nat \ {0} /\ clock \in Instants
      /\ f.tid \in Tids /\ f.piece \in PieceSet /\ f.crc \in Seq(PieceSet) /\ f.sot \in BOOLEAN
  BY BusAssumption DEF BusTyped, CanFrame
<1>1. \A n \in Tids : (n + 1) % TidMod \in Tids
  <2> SUFFICES ASSUME NEW n \in Tids PROVE (n + 1) % TidMod \in Tids
    OBVIOUS
  <2>1. n + 1 \in Nat
    BY <1>0 DEF Tids
  <2> QED BY <1>0, <2>1, ModBounded DEF Tids
<1>2. Good(Restarted(t0, f))
  <2> DEFINE id == IF f.sot THEN f.tid ELSE (f.tid + 1) % TidMod
  <2>1. id \in Tids
    BY <1>0, <1>1
  <2>2. <<>> \in Seq(PieceSet) /\ Len(<<>>) = 0
    OBVIOUS
  <2> HIDE DEF id
  <2>3. [t0 EXCEPT !.tid = id, !.toggle = FALSE, !.buf = <<>>, !.crc = <<>>, !.ready = TRUE]
          \in ContextSet
    BY <2>1, <2>2 DEF ContextSet
  <2> QED BY <1>0, <2>2, <2>3 DEF Restarted, ContextSet, id
<1>3. Good(t)
  BY <1>2
<1>4. Good(s)
  <2> HIDE DEF t
  <2> QED BY <1>0, <1>3 DEF Stamped, ContextSet
<1>5. ASSUME f.sot \/ Len(s.buf) < MaxPieces
      PROVE  Good(w)
  <2> HIDE DEF s
  <2> DEFINE b == IF f.sot THEN <<f.piece>> ELSE Append(s.buf, f.piece)
             c == IF f.sot THEN f.crc ELSE s.crc
  <2>1. s.buf \in Seq(PieceSet) /\ s.crc \in Seq(PieceSet) /\ s.toggle \in BOOLEAN
    BY <1>4 DEF ContextSet
  <2>2. b \in Seq(PieceSet) /\ Len(b) <= MaxPieces
    BY <1>0, <1>5, <2>1
  <2>3. c \in Seq(PieceSet) /\ (~s.toggle) \in BOOLEAN
    BY <1>0, <2>1, Zenon
  <2> HIDE DEF b, c
  <2>4. /\ [s EXCEPT !.buf = b, !.crc = c, !.toggle = ~@] \in ContextSet
        /\ [s EXCEPT !.buf = b, !.crc = c, !.toggle = ~@].node = t0.node
        /\ [s EXCEPT !.buf = b, !.crc = c, !.toggle = ~@].buf = b
    BY <1>4, <2>2, <2>3 DEF ContextSet
  <2>5. w = [s EXCEPT !.buf = b, !.crc = c, !.toggle = ~@]
    BY DEF Written, b, c
  <2> QED BY <2>2, <2>4, <2>5
<1>6. ASSUME NEW c, Good(c)
      PROVE  Good(Completed(c)) /\ Good(PreparedForNext(c))
  <2> DEFINE id == (c.tid + 1) % TidMod
             empty == [c EXCEPT !.tid = id, !.toggle = FALSE, !.buf = <<>>]
  <2>1. id \in Tids
    BY <1>1, <1>6 DEF ContextSet
  <2>2. <<>> \in Seq(PieceSet) /\ Len(<<>>) = 0
    OBVIOUS
  <2> HIDE DEF id
  <2>3. empty \in ContextSet /\ empty.node = t0.node /\ empty.buf = <<>>
    BY <1>6, <2>1, <2>2 DEF ContextSet
  <2>4. Good([c EXCEPT !.prev = c.this])
    BY <1>6 DEF ContextSet
  <2>5. PreparedForNext(c) = empty
    BY DEF PreparedForNext, id
  <2> HIDE DEF empty
  <2> QED BY <1>0, <2>2, <2>3, <2>4, <2>5 DEF Completed
<1> HIDE DEF Good, w, s, t
<1>7. Good(AddFrame(t0, f).context)
  <2>1. Good(t0)
    BY DEF Good
  <2>2. s.buf \in Seq(PieceSet) /\ MaxPieces \in Nat
    BY <1>0, <1>4 DEF Good, ContextSet
  <2>3. f.sot \/ Len(s.buf) < MaxPieces \/ (~f.sot /\ Len(s.buf) >= MaxPieces)
    BY <2>2
  <2> QED BY <1>3, <1>4, <1>5, <1>6, <2>1, <2>3 DEF AddFrame, w, s, t
<1> QED BY <1>7 DEF Good

(* The context that a frame is given to is typed and of its node.          *)
LEMMA ContextTyped ==
  ASSUME BusTyped, NEW n \in Nodes, Slot(n) \in DOMAIN contexts
  PROVE  Context(n) \in ContextSet /\ Context(n).node = n /\ Len(Context(n).buf) <= MaxPieces
<1> DEFINE t == contexts[Slot(n)]
<1>1. t \in ContextSet /\ Len(t.buf) <= MaxPieces
  BY DEF BusTyped
<1> HIDE DEF t
<1>2. Fresh(n) \in ContextSet /\ Fresh(n).node = n /\ Len(Fresh(n).buf) <= MaxPieces
  <2>1. 0 \in Tids /\ 0 \in Instants /\ <<>> \in Seq(PieceSet) /\ Len(<<>>) = 0 /\ 0 <= MaxPieces
    BY BusAssumption DEF Tids, Instants
  <2> QED BY <2>1 DEF Fresh, ContextSet, Never
<1>3. [t EXCEPT !.node = n] \in ContextSet /\ [t EXCEPT !.node = n].node = n
      /\ [t EXCEPT !.node = n].buf = t.buf
  BY <1>1 DEF ContextSet
<1>4. Context(n) = IF t.ready /\ t.node = n THEN t ELSE IF t.ready THEN Fresh(n)
                   ELSE [t EXCEPT !.node = n]
  BY DEF Context, t
<1> QED BY <1>1, <1>2, <1>3, <1>4

(* The context of a node that has one is where its frames go.              *)
LEMMA OwnSlot ==
  ASSUME BusTyped, OneEach, NEW n \in Nodes,
         NEW i \in DOMAIN contexts, contexts[i].ready, contexts[i].node = n
  PROVE  Slot(n) = i
<1> DEFINE own == {j \in DOMAIN contexts : contexts[j].ready /\ contexts[j].node = n}
<1>1. own = {i}
  BY DEF OneEach
<1>2. i \in Int
  BY DEF BusTyped
<1>3. Least({i}) = i
  BY <1>2 DEF Least
<1> QED BY <1>1, <1>3 DEF Slot

(* A frame that is fed leaves the contexts typed and each of its own node, *)
(* and the stamp of the last fix true.                                     *)
LEMMA FeedFrameKeeps ==
  ASSUME BusInv, NEW f \in CanFrame, NEW fix \in BOOLEAN, FeedFrame(f, fix),
         bus' = bus, clock' = clock
  PROVE  /\ contexts' \in [1 .. bus.contexts -> ContextSet]
         /\ \A i \in 1 .. bus.contexts : Len(contexts'[i].buf) <= MaxPieces
         /\ last_fix' \in Instants /\ fix_age' \in 0 .. ClockMod
         /\ OneEach' /\ FixAged'
<1> DEFINE n == f.node
           c == AddFrame(Context(n), f).context
           r == AddFrame(Context(n), f)
           k == Slot(n)
<1>0. /\ BusTyped /\ OneEach /\ FixAged /\ n \in Nodes
      /\ DOMAIN contexts = 1 .. bus.contexts
  BY DEF BusInv, BusTyped, CanFrame
<1>1. contexts' = [contexts EXCEPT ![k] = c]
  BY DEF FeedFrame
<1>2. k \in DOMAIN contexts => c \in ContextSet /\ c.node = n /\ Len(c.buf) <= MaxPieces
  BY <1>0, ContextTyped, AddFrameTyped
<1>3. \A i \in DOMAIN contexts : i # k => ~(contexts[i].ready /\ contexts[i].node = n)
  BY <1>0, OwnSlot
<1> HIDE DEF c, k
<1>4. /\ contexts' \in [1 .. bus.contexts -> ContextSet]
      /\ \A i \in 1 .. bus.contexts : Len(contexts'[i].buf) <= MaxPieces
  BY <1>0, <1>1, <1>2 DEF BusTyped
<1>5. OneEach'
  BY <1>0, <1>1, <1>2, <1>3 DEF OneEach
<1>6. last_fix' \in Instants /\ fix_age' \in 0 .. ClockMod
  BY <1>0, BusAssumption DEF FeedFrame, BusTyped, Instants
<1>7. FixAged'
  <2>1. CASE Fix2Stamps(r, fix)
    <3>1. last_fix' = clock /\ fix_age' = 0
      BY <2>1 DEF FeedFrame
    <3>2. (clock - clock) % ClockMod = 0
      BY <1>0, BusAssumption, ModOfDifference DEF BusTyped, Instants
    <3> QED BY <3>1, <3>2 DEF FixAged, Since
  <2>2. CASE ~Fix2Stamps(r, fix)
    BY <1>0, <2>2 DEF FeedFrame, FixAged, Since
  <2> QED BY <2>1, <2>2
<1> QED BY <1>4, <1>5, <1>6, <1>7

(* The frames that a node sends are frames.                                *)
LEMMA FrameTyped ==
  ASSUME NEW s \in Sender, s.at < s.length
  PROVE  FrameOf(s) \in CanFrame /\ FrameOf(s).node = s.node
<1>1. s.node \in Nodes /\ s.at \in Nat /\ s.length \in Nat \ {0} /\ s.tid \in Tids
  BY DEF Sender
<1>2. \A i \in 1 .. s.length : <<s.node, s.tid, i>> \in PieceSet
  BY <1>1 DEF PieceSet
<1>3. Pieces(s) \in Seq(PieceSet) /\ Pieces(s)[s.at + 1] \in PieceSet
  <2>1. Pieces(s) \in [1 .. s.length -> PieceSet]
    BY <1>2 DEF Pieces
  <2>2. Pieces(s) \in Seq(PieceSet)
    BY <1>1, <2>1, SeqDef
  <2> QED BY <1>1, <2>1, <2>2
<1> QED BY <1>1, <1>3 DEF FrameOf, CanFrame

(* What a node sends next leaves it before the end of a transfer.          *)
LEMMA SentTyped ==
  ASSUME NEW s \in Sender, s.at < s.length
  PROVE  LET n == SentFrame(s) IN n \in Sender /\ n.node = s.node /\ n.at < n.length
<1>1. /\ s.at \in Nat /\ s.length \in Nat \ {0} /\ s.tid \in Tids /\ s.tid + 1 \in Nat
      /\ s.undue + 1 \in Nat /\ TidMod - 1 \in Nat
  BY BusAssumption DEF Sender, Tids
<1> DEFINE id == (s.tid + 1) % TidMod
           count == IF s.due THEN 0 ELSE UpTo(TidMod - 1, s.undue + 1)
<1>2. id \in Tids
  BY <1>1, BusAssumption, ModBounded DEF Tids
<1>3. count \in Tids
  <2>1. UpTo(TidMod - 1, s.undue + 1) \in 0 .. TidMod - 1
    BY <1>1, UpToBounded
  <2>2. 0 \in 0 .. TidMod - 1
    BY <1>1
  <2> QED BY <2>1, <2>2 DEF Tids
<1> HIDE DEF id, count
<1>4. CASE s.at + 1 < s.length
  BY <1>1, <1>4 DEF SentFrame, Sender
<1>5. CASE ~(s.at + 1 < s.length)
  <2> DEFINE e == [s EXCEPT !.at = 0, !.tid = id, !.undue = count]
  <2>1. SentFrame(s) = e
    BY <1>5 DEF SentFrame, Idle, id, count
  <2>2. e \in Sender /\ e.at = 0 /\ e.length = s.length /\ e.node = s.node
    BY <1>1, <1>2, <1>3 DEF Sender
  <2> HIDE DEF e
  <2> QED BY <1>1, <2>1, <2>2
<1> QED BY <1>4, <1>5

(* The parts make up the whole: the bus itself never changes.              *)
LEMMA BusAssembled ==
  ASSUME BusInv, bus' = bus, clock' \in Instants, last_fix' \in Instants,
         fix_age' \in 0 .. ClockMod, quiet' \in [Nodes -> 0 .. HalfTurn + 1],
         contexts' \in [1 .. bus.contexts -> ContextSet],
         \A i \in 1 .. bus.contexts : Len(contexts'[i].buf) <= MaxPieces,
         nodes' \in [Nodes -> Sender],
         \A n \in Nodes : nodes'[n].node = n /\ nodes'[n].at < nodes'[n].length,
         bus_faults' \in 0 .. bus.faults, OneEach', FixAged'
  PROVE  BusInv'
<1>1. Nodes' = Nodes
  BY DEF Nodes
<1>2. ContextSet' = ContextSet /\ Sender' = Sender
  BY <1>1 DEF ContextSet, Sender, PieceSet
<1>3. Instants' = Instants /\ HalfTurn' = HalfTurn /\ bus \in Buses
  BY DEF Instants, HalfTurn, BusInv, BusTyped
<1>4. BusTyped'
  BY <1>1, <1>2, <1>3 DEF BusTyped
<1> QED BY <1>4 DEF BusInv

(* A sender that begins a transfer or goes on with one.                    *)
LEMMA SenderTyped ==
  ASSUME NEW s \in Sender, s.at < s.length, NEW length \in Nat \ {0}, NEW n, s.node = n,
         NEW d \in BOOLEAN
  PROVE  LET begun == IF s.at = Idle THEN [s EXCEPT !.length = length, !.due = d, !.age = 0]
                      ELSE s
         IN  begun \in Sender /\ begun.node = n /\ begun.at < begun.length
<1>1. CASE s.at = 0
  <2> DEFINE begun == [s EXCEPT !.length = length, !.due = d, !.age = 0]
  <2>1. begun \in Sender /\ begun.node = n /\ begun.at = 0 /\ begun.length = length
    BY <1>1 DEF Sender
  <2> HIDE DEF begun
  <2>2. begun.at < begun.length
    BY <2>1
  <2> QED BY <1>1, <2>1, <2>2 DEF Idle, begun
<1>2. CASE s.at # 0
  BY <1>2 DEF Idle
<1> QED BY <1>1, <1>2

(* Whether a transfer is still due is only a mark.                         *)
LEMMA MarkedTyped ==
  ASSUME NEW s \in Sender, s.at < s.length, NEW n, s.node = n, NEW d \in BOOLEAN
  PROVE  LET m == [s EXCEPT !.due = d] IN m \in Sender /\ m.node = n /\ m.at < m.length
<1>1. /\ [s EXCEPT !.due = d] \in Sender /\ [s EXCEPT !.due = d].node = n
      /\ [s EXCEPT !.due = d].at = s.at /\ [s EXCEPT !.due = d].length = s.length
  BY DEF Sender
<1> QED BY <1>1

(* Every step on the bus keeps the parts typed and the stamp true.         *)
LEMMA BusStepKeeps ==
  ASSUME BusInv, [BusNext]_busVars
  PROVE  BusInv'
<1>0. /\ BusTyped /\ OneEach /\ FixAged /\ bus \in Buses /\ nodes \in [Nodes -> Sender]
      /\ bus.lengths \subseteq Nat \ {0} /\ bus.fixes \subseteq BOOLEAN /\ bus.delays \subseteq Nat
      /\ ClockMod \in Nat \ {0} /\ HalfTurn \in Nat /\ bus.faults \in Nat /\ TidTimeout \in Nat
      /\ TidTimeout <= HalfTurn
  BY BusAssumption, HalfTurnTyped DEF BusInv, BusTyped
<1>1. ASSUME NEW n \in Nodes, NEW length \in bus.lengths, NEW fix \in bus.fixes,
             Transmit(n, length, fix)
      PROVE  BusInv'
  <2> DEFINE s == IF nodes[n].at = Idle
                  THEN [nodes[n] EXCEPT !.length = length, !.due = TRUE, !.age = 0]
                  ELSE nodes[n]
             d == Expected(s)
             e == [s EXCEPT !.due = d]
  <2>1. s \in Sender /\ s.node = n /\ s.at < s.length
    <3>1. nodes[n] \in Sender /\ nodes[n].node = n /\ nodes[n].at < nodes[n].length
      BY <1>0 DEF BusTyped
    <3> QED BY <1>0, <3>1, SenderTyped
  <2> HIDE DEF s
  <2>2. d \in BOOLEAN
    BY DEF Expected
  <2> HIDE DEF d
  <2>3. e \in Sender /\ e.node = n /\ e.at < e.length
    BY <2>1, <2>2, MarkedTyped
  <2>4. FrameOf(s) \in CanFrame /\ fix \in BOOLEAN
    BY <1>0, <2>1, FrameTyped
  <2>5. bus' = bus /\ clock' = clock /\ bus_faults' = bus_faults /\ FeedFrame(FrameOf(s), fix)
        /\ nodes' = [nodes EXCEPT ![n] = SentFrame(e)]
        /\ quiet' = IF s.at + 1 = s.length /\ d /\ s.length <= MaxPieces
                      THEN [quiet EXCEPT ![n] = s.age] ELSE quiet
    BY <1>1 DEF Transmit, s, d
  <2> HIDE DEF e
  <2>6. nodes' \in [Nodes -> Sender]
        /\ \A m \in Nodes : nodes'[m].node = m /\ nodes'[m].at < nodes'[m].length
    BY <1>0, <2>3, <2>5, SentTyped DEF BusTyped
  <2>7. quiet' \in [Nodes -> 0 .. HalfTurn + 1]
    <3>1. quiet \in [Nodes -> 0 .. HalfTurn + 1]
      BY <1>0 DEF BusTyped
    <3>2. d => s.age \in 0 .. HalfTurn + 1
      <4>1. s.age \in Nat
        BY <2>1 DEF Sender
      <4>2. d => s.age <= TidTimeout
        BY DEF Expected, d
      <4> QED BY <1>0, <4>1, <4>2
    <3> QED BY <2>5, <3>1, <3>2
  <2>8. clock' \in Instants /\ bus_faults' \in 0 .. bus.faults
    BY <1>0, <2>5 DEF BusTyped
  <2> QED BY <2>4, <2>5, <2>6, <2>7, <2>8, FeedFrameKeeps, BusAssembled
<1>2. ASSUME NEW n \in Nodes, NEW length \in bus.lengths, LoseFrame(n, length)
      PROVE  BusInv'
  <2> DEFINE s == IF nodes[n].at = Idle THEN [nodes[n] EXCEPT !.length = length, !.age = 0]
                  ELSE nodes[n]
             e == [s EXCEPT !.due = FALSE]
  <2>1. e \in Sender /\ e.node = n /\ e.at < e.length
    <3>1. nodes[n] \in Sender /\ nodes[n].node = n /\ nodes[n].at < nodes[n].length
      BY <1>0 DEF BusTyped
    <3> DEFINE b == [nodes[n] EXCEPT !.length = length, !.due = FALSE, !.age = 0]
    <3>2. CASE nodes[n].at = Idle
      <4>1. e = b
        BY <3>1, <3>2 DEF Sender
      <4> HIDE DEF e
      <4>2. length \in Nat \ {0} /\ FALSE \in BOOLEAN
        BY <1>0
      <4> QED BY <3>1, <3>2, <4>1, <4>2, SenderTyped
    <3>3. CASE nodes[n].at # Idle
      BY <3>1, <3>3, MarkedTyped
    <3> QED BY <3>2, <3>3
  <2>2. nodes' = [nodes EXCEPT ![n] = SentFrame(e)]
        /\ bus_faults' = bus_faults + 1 /\ bus_faults < bus.faults
        /\ UNCHANGED <<bus, clock, contexts, last_fix, fix_age, quiet>>
    BY <1>2 DEF LoseFrame
  <2> HIDE DEF e
  <2>3. nodes' \in [Nodes -> Sender]
        /\ \A m \in Nodes : nodes'[m].node = m /\ nodes'[m].at < nodes'[m].length
    BY <1>0, <2>1, <2>2, SentTyped DEF BusTyped
  <2>4. bus_faults' \in 0 .. bus.faults
    BY <1>0, <2>2 DEF BusTyped
  <2>5. OneEach' /\ FixAged'
    BY <1>0, <2>2 DEF OneEach, FixAged, Since
  <2> QED BY <1>0, <2>2, <2>3, <2>4, <2>5, BusAssembled DEF BusTyped
<1>3. ASSUME NEW n \in Nodes, NEW fix \in bus.fixes, Repeat(n, fix)
      PROVE  BusInv'
  <2> DEFINE s == [nodes[n] EXCEPT !.at = @ - 1]
  <2>1. s \in Sender /\ s.at < s.length
    <3>1. nodes[n] \in Sender /\ nodes[n].at < nodes[n].length /\ nodes[n].at # 0
      BY <1>0, <1>3 DEF BusTyped, Repeat, Idle
    <3> QED BY <3>1 DEF Sender
  <2>2. bus' = bus /\ clock' = clock /\ nodes' = nodes /\ quiet' = quiet
        /\ bus_faults' = bus_faults + 1 /\ bus_faults < bus.faults /\ FeedFrame(FrameOf(s), fix)
    BY <1>3 DEF Repeat
  <2> HIDE DEF s
  <2>3. FrameOf(s) \in CanFrame /\ fix \in BOOLEAN
    BY <1>0, <2>1, FrameTyped
  <2>4. bus_faults' \in 0 .. bus.faults
    BY <1>0, <2>2 DEF BusTyped
  <2>5. clock' \in Instants /\ quiet' \in [Nodes -> 0 .. HalfTurn + 1]
    BY <1>0, <2>2 DEF BusTyped
  <2>6. nodes' \in [Nodes -> Sender]
        /\ \A m \in Nodes : nodes'[m].node = m /\ nodes'[m].at < nodes'[m].length
    BY <1>0, <2>2 DEF BusTyped
  <2> QED BY <2>2, <2>3, <2>4, <2>5, <2>6, FeedFrameKeeps, BusAssembled
<1>4. ASSUME NEW d \in bus.delays, Wait(d)
      PROVE  BusInv'
  <2>1. d \in Nat /\ clock \in 0 .. ClockMod - 1 /\ fix_age \in 0 .. ClockMod
    BY <1>0 DEF BusTyped, Instants
  <2>2. /\ clock' = (clock + d) % ClockMod /\ fix_age' = UpTo(ClockMod, fix_age + d)
        /\ quiet' = [n \in Nodes |-> UpTo(HalfTurn + 1, quiet[n] + d)]
        /\ nodes' = [n \in Nodes |-> IF nodes[n].at = Idle THEN nodes[n]
                                     ELSE [nodes[n] EXCEPT !.age = UpTo(TidTimeout + 1, @ + d)]]
        /\ UNCHANGED <<bus, contexts, last_fix, bus_faults>>
    BY <1>4 DEF Wait
  <2>3. clock' \in Instants
    <3>1. clock + d \in Nat
      BY <2>1
    <3> QED BY <1>0, <2>2, <3>1, ModBounded DEF Instants
  <2>4. fix_age' \in 0 .. ClockMod
    BY <1>0, <2>1, <2>2, UpToBounded
  <2>5. quiet' \in [Nodes -> 0 .. HalfTurn + 1]
    <3>1. ASSUME NEW n \in Nodes PROVE UpTo(HalfTurn + 1, quiet[n] + d) \in 0 .. HalfTurn + 1
      <4>1. quiet[n] \in 0 .. HalfTurn + 1
        BY <1>0 DEF BusTyped
      <4>2. quiet[n] + d \in Nat /\ HalfTurn + 1 \in Nat
        BY <1>0, <2>1, <4>1
      <4> QED BY <4>2, UpToBounded
    <3> QED BY <2>2, <3>1
  <2>6. nodes' \in [Nodes -> Sender]
        /\ \A m \in Nodes : nodes'[m].node = m /\ nodes'[m].at < nodes'[m].length
    <3> SUFFICES ASSUME NEW m \in Nodes
                 PROVE  nodes'[m] \in Sender /\ nodes'[m].node = m
                        /\ nodes'[m].at < nodes'[m].length
      BY <2>2
    <3>1. nodes[m] \in Sender /\ nodes[m].node = m /\ nodes[m].at < nodes[m].length
          /\ nodes[m].age \in Nat
      BY <1>0 DEF BusTyped, Sender
    <3>2. UpTo(TidTimeout + 1, nodes[m].age + d) \in Nat
      <4>1. nodes[m].age + d \in Nat /\ TidTimeout + 1 \in Nat
        BY <1>0, <2>1, <3>1
      <4> QED BY <4>1 DEF UpTo
    <3> QED BY <2>2, <3>1, <3>2 DEF Sender
  <2>7. FixAged'
    <3> SUFFICES ASSUME last_fix # Never, fix_age' < ClockMod
                 PROVE  Since(last_fix)' = fix_age'
      BY <2>2 DEF FixAged
    <3>1. fix_age + d < ClockMod /\ fix_age' = fix_age + d /\ fix_age < ClockMod
      BY <1>0, <2>1, <2>2 DEF UpTo
    <3>2. (clock - last_fix) % ClockMod = fix_age
      BY <1>0, <3>1 DEF FixAged, Since
    <3>3. last_fix \in 0 .. ClockMod - 1
      BY <1>0 DEF BusTyped, Instants
    <3> QED BY <1>0, <2>1, <2>2, <3>1, <3>2, <3>3, SinceGrows DEF Since
  <2>8. OneEach'
    BY <1>0, <2>2 DEF OneEach
  <2> QED BY <1>0, <2>2, <2>3, <2>4, <2>5, <2>6, <2>7, <2>8, BusAssembled DEF BusTyped
<1>5. ASSUME UNCHANGED busVars
      PROVE  BusInv'
  BY <1>0, <1>5 DEF busVars, BusInv, BusTyped, OneEach, FixAged, Since, Nodes, ContextSet, Sender,
     PieceSet, HalfTurn
<1> QED BY <1>1, <1>2, <1>3, <1>4, <1>5 DEF BusNext

(* The first state, with or without receivers on the bus.                  *)
LEMMA BusBegins ==
  ASSUME BusInit
  PROVE  BusInv
<1>0. /\ bus \in Buses /\ bus.contexts \in Nat \ {0} /\ bus.start \in 0 .. ClockMod - 1
      /\ bus.faults \in Nat /\ ClockMod \in Nat \ {0} /\ HalfTurn \in Nat
      /\ TidMod \in Nat \ {0} /\ MaxPieces \in Nat \ {0}
  BY BusAssumption, HalfTurnTyped DEF BusInit
<1>1. 0 \in Tids /\ 0 \in Instants /\ <<>> \in Seq(PieceSet) /\ Len(<<>>) = 0 /\ 0 <= MaxPieces
  BY <1>0 DEF Tids, Instants
<1>2. Fresh("none") \in ContextSet /\ Len(Fresh("none").buf) <= MaxPieces
  BY <1>1 DEF Fresh, ContextSet, Never
<1>3. /\ clock \in Instants /\ last_fix \in Instants /\ fix_age \in 0 .. ClockMod
      /\ bus_faults \in 0 .. bus.faults
  BY <1>0, <1>1 DEF BusInit, Instants, Never
<1>4. quiet \in [Nodes -> 0 .. HalfTurn + 1]
  <2>1. clock \in Nat /\ HalfTurn + 1 \in Nat
    BY <1>0, <1>3 DEF Instants
  <2>2. UpTo(HalfTurn + 1, clock) \in 0 .. HalfTurn + 1
    BY <2>1, UpToBounded
  <2> QED BY <2>2 DEF BusInit
<1>5. /\ nodes \in [Nodes -> Sender]
      /\ \A n \in Nodes : nodes[n].node = n /\ nodes[n].at < nodes[n].length
  BY <1>1 DEF BusInit, Sender, Idle
<1>6. /\ contexts \in [1 .. bus.contexts -> ContextSet]
      /\ \A i \in 1 .. bus.contexts : Len(contexts[i].buf) <= MaxPieces
      /\ \A i \in DOMAIN contexts : ~contexts[i].ready
  BY <1>2 DEF BusInit, Fresh
<1> QED BY <1>0, <1>3, <1>4, <1>5, <1>6 DEF BusInv, BusTyped, OneEach, FixAged, BusInit

(* On every board the bus keeps what it promises, whichever input is       *)
(* looked at.                                                              *)
LEMMA AlwaysBusInv == InputsSpec => []BusInv
<1>1. InputsInit => BusInv
  BY BusBegins DEF InputsInit
<1>2. BusInv /\ [InputsNext]_<<lineVars, busVars, source>> => BusInv'
  <2> SUFFICES ASSUME BusInv, [InputsNext]_<<lineVars, busVars, source>> PROVE BusInv'
    OBVIOUS
  <2>1. [BusNext]_busVars
    BY DEF InputsNext
  <2> QED BY <2>1, BusStepKeeps
<1> QED BY <1>1, <1>2, PTL DEF InputsSpec

(* parser.rs:109-147, :300-382 of DroneCAN: whatever the nodes send and    *)
(* lose, no transfer outgrows its buffer, no two contexts are of one node, *)
(* and every stamp and id stays in its width.                              *)
THEOREM BusTypeCorrect == InputsSpec => []BusTypeOK
<1>1. BusInv => BusTypeOK
  <2> SUFFICES ASSUME BusInv PROVE BusTypeOK
    OBVIOUS
  <2>1. /\ clock \in 0 .. ClockMod - 1 /\ fix_age \in 0 .. ClockMod
        /\ quiet \in [Nodes -> 0 .. HalfTurn + 1] /\ bus_faults \in 0 .. bus.faults
    BY DEF BusInv, BusTyped, Instants
  <2>2. ASSUME NEW i \in DOMAIN contexts
        PROVE  LET t == contexts[i]
               IN  /\ t.tid \in 0 .. TidMod - 1 /\ Len(t.buf) <= MaxPieces
                   /\ {t.prev, t.this} \subseteq 0 .. ClockMod - 1
                   /\ \A j \in DOMAIN contexts :
                        (t.ready /\ contexts[j].ready /\ i # j) => t.node # contexts[j].node
    <3>1. contexts[i] \in ContextSet /\ Len(contexts[i].buf) <= MaxPieces
      BY <2>2 DEF BusInv, BusTyped
    <3>2. contexts[i].tid \in 0 .. TidMod - 1
          /\ {contexts[i].prev, contexts[i].this} \subseteq 0 .. ClockMod - 1
      BY <3>1 DEF ContextSet, Tids, Instants
    <3> QED BY <2>2, <3>1, <3>2 DEF BusInv, OneEach
  <2>3. ASSUME NEW n \in Nodes
        PROVE  /\ nodes[n].at \in 0 .. nodes[n].length - 1
               /\ nodes[n].tid \in 0 .. TidMod - 1 /\ nodes[n].undue \in 0 .. TidMod - 1
    <3>1. nodes[n] \in Sender /\ nodes[n].at < nodes[n].length
      BY <2>3 DEF BusInv, BusTyped
    <3>2. nodes[n].at \in Nat /\ nodes[n].length \in Nat
          /\ nodes[n].tid \in Tids /\ nodes[n].undue \in Tids
      BY <3>1 DEF Sender
    <3> QED BY <3>1, <3>2 DEF Tids
  <2> QED BY <2>1, <2>2, <2>3 DEF BusTypeOK
<1> QED BY <1>1, AlwaysBusInv, PTL

(* parser.rs:289-297 of DroneCAN: a position is handed out only within the *)
(* limit after a fix was decoded, or when the clock has turned since, for  *)
(* every limit, every width of the clock and whatever goes over the bus.   *)
THEOREM FixesAreFresh == InputsSpec => []FixIsFresh
<1>1. BusInv => FixIsFresh
  <2> SUFFICES ASSUME BusInv, HasFix, fix_age # ClockMod PROVE fix_age < CanFresh
    BY DEF FixIsFresh
  <2>1. fix_age \in 0 .. ClockMod /\ ClockMod \in Nat
    BY BusAssumption DEF BusInv, BusTyped
  <2>2. fix_age < ClockMod
    BY <2>1
  <2> QED BY <2>2 DEF BusInv, FixAged, HasFix
<1> QED BY <1>1, AlwaysBusInv, PTL

-----------------------------------------------------------------------------
(* What becomes of a transfer on the CAN bus.                              *)

(* A context that no frame has used has no stamps, and one in use is that  *)
(* of a receiver.                                                          *)
Unstamped(c) == c.prev = Never /\ c.this = Never

ContextsKnown ==
  \A i \in DOMAIN contexts :
    IF contexts[i].ready THEN contexts[i].node \in Nodes ELSE Unstamped(contexts[i])

EnoughContexts == Cardinality(Nodes) <= Len(contexts)

(* With a context for every receiver there is one in use by the node or    *)
(* one that no node has used.                                              *)
LEMMA SlotFits ==
  ASSUME BusTyped, OneEach, ContextsKnown, EnoughContexts, NEW n \in Nodes
  PROVE  /\ Slot(n) \in DOMAIN contexts
         /\ contexts[Slot(n)].ready => contexts[Slot(n)].node = n
         /\ ~contexts[Slot(n)].ready =>
              \A i \in DOMAIN contexts : contexts[i].ready => contexts[i].node # n
<1> DEFINE own  == {i \in DOMAIN contexts : contexts[i].ready /\ contexts[i].node = n}
           free == {i \in DOMAIN contexts : ~contexts[i].ready}
           L == bus.contexts
<1>0. /\ bus \in Buses /\ L \in Nat \ {0} /\ IsFiniteSet(Nodes)
      /\ contexts \in [1 .. L -> ContextSet] /\ DOMAIN contexts = 1 .. L
  BY BusAssumption DEF BusTyped, Nodes
<1>1. CASE own # {}
  <2>1. PICK i \in own : TRUE
    BY <1>1
  <2>2. Slot(n) = i
    BY <2>1, OwnSlot
  <2> QED BY <2>1, <2>2
<1>2. CASE own = {}
  <2>1. free # {}
    <3> SUFFICES ASSUME free = {} PROVE FALSE
      OBVIOUS
    <3> DEFINE f == [i \in 1 .. L |-> contexts[i].node]
               T == Nodes \ {n}
               S == 1 .. L
    <3>1. \A i \in S : contexts[i].ready /\ contexts[i].node # n /\ contexts[i].node \in Nodes
      BY <1>0, <1>2 DEF ContextsKnown
    <3>2. f \in [S -> T]
      BY <3>1
    <3>3. IsFiniteSet(S) /\ Cardinality(S) = L
      <4>1. L \in Nat /\ L # 0
        BY <1>0
      <4> QED BY <4>1, FS_Interval
    <3>4. IsFiniteSet(T) /\ Cardinality(T) = Cardinality(Nodes) - 1 /\ Cardinality(Nodes) \in Nat
      BY <1>0, FS_RemoveElement, FS_CardinalityType
    <3>5. Len(contexts) = L
      <4>1. L \in Nat /\ contexts \in Seq(ContextSet)
        BY <1>0, SeqDef
      <4> QED BY <1>0, <4>1, LenProperties
    <3>6. Cardinality(T) < Cardinality(S)
      <4> HIDE DEF L, S, T
      <4> QED BY <1>0, <3>3, <3>4, <3>5 DEF EnoughContexts
    <3> HIDE DEF f, S, T
    <3>7. \E x, y \in S : x # y /\ f[x] = f[y]
      BY <3>2, <3>3, <3>4, <3>6, FS_PigeonHole
    <3>8. PICK x, y \in S : x # y /\ f[x] = f[y]
      BY <3>7
    <3>9. contexts[x].node = contexts[y].node
      BY <3>8 DEF f, S
    <3> QED BY <1>0, <3>1, <3>8, <3>9 DEF OneEach, S
  <2>2. free \in SUBSET Nat
    BY <1>0
  <2>3. PICK i \in free : \A j \in free : i <= j
    <3> HIDE DEF free
    <3> QED BY <2>1, <2>2, LeastOf
  <2>4. Least(free) \in free
    BY <2>3 DEF Least
  <2>5. Slot(n) = Least(free)
    BY <1>2, <2>1 DEF Slot
  <2> HIDE DEF free
  <2>6. Slot(n) \in free
    BY <2>4, <2>5
  <2> QED BY <1>2, <2>6 DEF free
<1> QED BY <1>1, <1>2

(* So the context of a node is its own, or one without stamps.             *)
LEMMA OwnContext ==
  ASSUME BusTyped, OneEach, ContextsKnown, EnoughContexts, NEW n \in Nodes
  PROVE  /\ Context(n) \in ContextSet /\ Context(n).node = n
         /\ ~Context(n).ready => Unstamped(Context(n))
         /\ \A i \in DOMAIN contexts :
              contexts[i].ready /\ contexts[i].node = n => Context(n) = contexts[i]
         /\ Context(n).ready =>
              /\ contexts[Slot(n)] = Context(n) /\ contexts[Slot(n)].ready
              /\ contexts[Slot(n)].node = n
<1> DEFINE k == Slot(n)
           t == contexts[k]
<1>1. /\ k \in DOMAIN contexts /\ (t.ready => t.node = n)
      /\ ~t.ready => \A i \in DOMAIN contexts : contexts[i].ready => contexts[i].node # n
  BY SlotFits
<1>2. Context(n) \in ContextSet /\ Context(n).node = n
  BY <1>1, ContextTyped
<1>3. Context(n) = IF t.ready THEN t ELSE [t EXCEPT !.node = n]
  BY <1>1 DEF Context
<1>4. t \in ContextSet
  BY <1>1 DEF BusTyped
<1>5. \A i \in DOMAIN contexts : contexts[i].ready /\ contexts[i].node = n => k = i
  BY OwnSlot
<1> HIDE DEF k
<1>6. /\ [t EXCEPT !.node = n].ready = t.ready /\ [t EXCEPT !.node = n].prev = t.prev
      /\ [t EXCEPT !.node = n].this = t.this
  BY <1>4 DEF ContextSet
<1>7. ~t.ready => Unstamped(t)
  BY <1>1 DEF ContextsKnown
<1>8. ~Context(n).ready => Unstamped(Context(n))
  <2> HIDE DEF t
  <2> QED BY <1>3, <1>6, <1>7 DEF Unstamped
<1>9. Context(n).ready => t.ready /\ Context(n) = t
  <2> HIDE DEF t
  <2> QED BY <1>3, <1>6
<1> QED BY <1>1, <1>2, <1>3, <1>5, <1>8, <1>9 DEF k

(* What a frame can make of a context: nothing, the expectation of the     *)
(* rest of its transfer or of the next one.  The stamps are only set to    *)
(* the present, or handed on from the transfer to the last one.            *)
Outcome(c, f, r) ==
  /\ r \in ContextSet /\ (r.ready \/ r = c)
  /\ r = c \/ r.tid = f.tid \/ (r.tid = (f.tid + 1) % TidMod /\ ~r.toggle)
  /\ r.this \in {c.this, clock} /\ r.prev \in {c.prev, r.this}

(* Nothing else can become of it.                                         *)
LEMMA FrameOutcome ==
  ASSUME BusTyped, NEW c \in ContextSet, Len(c.buf) <= MaxPieces, NEW f \in CanFrame
  PROVE  Outcome(c, f, AddFrame(c, f).context)
<1> DEFINE t == IF NeedsRestart(c, f) THEN Restarted(c, f) ELSE c
           s == Stamped(t, f)
           w == Written(s, f)
           r == AddFrame(c, f).context
<1>0. r \in ContextSet
  BY AddFrameTyped
<1>1. /\ t.ready /\ DOMAIN t = DOMAIN c /\ t.this = c.this /\ t.prev = c.prev
      /\ t = c \/ t.tid = f.tid \/ (t.tid = (f.tid + 1) % TidMod /\ ~t.toggle)
  BY DEF NeedsRestart, Restarted, ContextSet
<1>2. DOMAIN c = {"node", "ready", "tid", "toggle", "buf", "crc", "prev", "this"}
  BY DEF ContextSet
<1> HIDE DEF t
<1>3. /\ s.ready /\ DOMAIN s = DOMAIN c /\ s.this \in {c.this, clock} /\ s.prev = c.prev
      /\ s.tid = t.tid
  BY <1>1, <1>2 DEF Stamped
<1> HIDE DEF s
<1>4. w.ready /\ DOMAIN w = DOMAIN c /\ w.this = s.this /\ w.prev = c.prev /\ w.tid = t.tid
  BY <1>2, <1>3 DEF Written
<1> HIDE DEF w
<1>5. ASSUME NEW x, DOMAIN x = DOMAIN c, x.ready
      PROVE  /\ Completed(x).ready /\ DOMAIN Completed(x) = DOMAIN c /\ Completed(x).tid = x.tid
             /\ Completed(x).this = x.this /\ Completed(x).prev = x.this
             /\ PreparedForNext(x).ready /\ PreparedForNext(x).tid = (x.tid + 1) % TidMod
             /\ ~PreparedForNext(x).toggle
             /\ PreparedForNext(x).this = x.this /\ PreparedForNext(x).prev = x.prev
  BY <1>2, <1>5 DEF Completed, PreparedForNext
<1>6. /\ r \in {c, t, w, PreparedForNext(s), PreparedForNext(Completed(s)),
                PreparedForNext(Completed(w))}
      /\ r \notin {c, t} => t.tid = f.tid
  BY DEF AddFrame, Valid, t, s, w
<1>7. CASE r = c
  BY <1>0, <1>7 DEF Outcome
<1>8. CASE r = t
  BY <1>0, <1>1, <1>8 DEF Outcome
<1>9. CASE r = w /\ t.tid = f.tid
  BY <1>0, <1>3, <1>4, <1>9 DEF Outcome
<1>10. CASE r = PreparedForNext(s) /\ t.tid = f.tid
  BY <1>0, <1>3, <1>5, <1>10 DEF Outcome
<1>11. CASE r = PreparedForNext(Completed(s)) /\ t.tid = f.tid
  BY <1>0, <1>3, <1>5, <1>11 DEF Outcome
<1>12. CASE r = PreparedForNext(Completed(w)) /\ t.tid = f.tid
  BY <1>0, <1>3, <1>4, <1>5, <1>12 DEF Outcome
<1> QED BY <1>6, <1>7, <1>8, <1>9, <1>10, <1>11, <1>12

-----------------------------------------------------------------------------
(* The stamps of a context are no older than the last transfer of its node *)
(* that was due.                                                           *)
StampsIn(c, q) == q <= HalfTurn => Since(c.prev) <= q /\ Since(c.this) <= q

(* The context expects the id of its node, or one of as many before it as  *)
(* transfers have not been due; or, amid a transfer, already the next one. *)
TidBehind(s, c) ==
  \E b \in 0 .. s.undue :
    (c.tid + b) % TidMod = s.tid /\ ((b = 0 /\ s.at = Idle) => ~c.toggle)

TidAhead(s, c) == c.tid = (s.tid + 1) % TidMod /\ ~c.toggle

TidNear(s, c) ==
  (c.ready /\ s.undue < TidMod - 1) => TidBehind(s, c) \/ (s.at # Idle /\ TidAhead(s, c))

(* Amid a transfer that is due it holds all of the frames so far, unless   *)
(* they are too many.                                                      *)
GoesAlong(s, c) ==
  /\ c.ready /\ c.this # Never /\ Since(c.this) = s.age
  /\ IF s.at <= MaxPieces
     THEN /\ c.tid = s.tid /\ c.toggle = (s.at % 2 = 1)
          /\ c.buf = SubSeq(Pieces(s), 1, s.at) /\ c.crc = Pieces(s)
     ELSE TidAhead(s, c)

DueGoesAlong(s, c) == (s.at # Idle /\ s.due /\ s.age <= TidTimeout) => GoesAlong(s, c)

Following(s, c, q) == StampsIn(c, q) /\ TidNear(s, c) /\ DueGoesAlong(s, c)

(* The present is no time ago.                                             *)
LEMMA SinceNow ==
  ASSUME BusTyped
  PROVE  Since(clock) = 0 /\ \A x \in Instants : Since(x) \in 0 .. ClockMod - 1
<1>1. ClockMod \in Nat \ {0} /\ clock \in 0 .. ClockMod - 1
  BY BusAssumption DEF BusTyped, Instants
<1>2. ASSUME NEW x \in Instants PROVE Since(x) = IF clock >= x THEN clock - x ELSE clock - x + ClockMod
  BY <1>1, ModOfDifference DEF Since, Instants
<1>3. clock \in Instants
  BY <1>1 DEF Instants
<1>4. Since(clock) = 0
  BY <1>1, <1>2, <1>3
<1>5. ASSUME NEW x \in Instants PROVE Since(x) \in 0 .. ClockMod - 1
  BY <1>1, <1>2 DEF Instants
<1> QED BY <1>4, <1>5

(* A frame keeps the stamps recent.                                        *)
LEMMA FrameKeepsStamps ==
  ASSUME BusTyped, NEW c, NEW f, NEW r, Outcome(c, f, r), NEW q \in Nat, StampsIn(c, q)
  PROVE  StampsIn(r, q)
<1>1. Since(clock) = 0
  BY SinceNow
<1>2. r.this \in {c.this, clock} /\ r.prev \in {c.prev, r.this}
  BY DEF Outcome
<1> SUFFICES ASSUME q <= HalfTurn PROVE Since(r.prev) <= q /\ Since(r.this) <= q
  BY DEF StampsIn
<1>3. Since(c.prev) <= q /\ Since(c.this) <= q
  BY DEF StampsIn
<1>4. Since(r.this) <= q
  <2>1. CASE r.this = c.this
    BY <1>3, <2>1
  <2>2. CASE r.this = clock
    <3>1. 0 <= q
      OBVIOUS
    <3> QED BY <1>1, <2>2, <3>1
  <2> QED BY <1>2, <2>1, <2>2
<1> QED BY <1>2, <1>3, <1>4

(* A frame of the transfer leaves the id near, while it is sent ...        *)
LEMMA FrameKeepsNear ==
  ASSUME BusTyped, NEW s \in Sender, NEW c \in ContextSet, NEW f \in CanFrame, f.tid = s.tid,
         NEW r, Outcome(c, f, r), TidNear(s, c), NEW e \in Sender,
         e.tid = s.tid, e.undue = s.undue, e.at # Idle
  PROVE  TidNear(e, r)
<1> SUFFICES ASSUME r.ready, s.undue < TidMod - 1
             PROVE  TidBehind(e, r) \/ TidAhead(e, r)
  BY DEF TidNear
<1>1. s.tid \in Tids /\ s.undue \in Nat /\ TidMod \in Nat \ {0, 1}
  BY BusAssumption DEF Sender, Tids
<1>2. CASE r = c
  <2>1. c.ready
    BY <1>2
  <2>2. TidBehind(s, c) \/ TidAhead(s, c)
    BY <2>1 DEF TidNear
  <2>3. CASE TidAhead(s, c)
    BY <1>2, <2>3 DEF TidAhead
  <2>4. CASE TidBehind(s, c)
    <3>1. PICK b \in 0 .. s.undue : (c.tid + b) % TidMod = s.tid
      BY <2>4 DEF TidBehind
    <3> QED BY <1>2, <3>1 DEF TidBehind
  <2> QED BY <2>2, <2>3, <2>4
<1>3. CASE r.tid = f.tid
  <2>1. 0 \in 0 .. e.undue
    BY <1>1
  <2>2. r.tid \in Tids /\ r.tid + 0 = r.tid
    BY <1>1, <1>3 DEF Tids
  <2>3. (r.tid + 0) % TidMod = e.tid
    BY <1>1, <1>3, <2>2, ModSmall DEF Tids
  <2> QED BY <2>1, <2>3 DEF TidBehind
<1>4. CASE r.tid = (f.tid + 1) % TidMod /\ ~r.toggle
  BY <1>4 DEF TidAhead
<1> QED BY <1>2, <1>3, <1>4 DEF Outcome

(* ... and one transfer more behind when it has ended and was not due.     *)
LEMMA EndKeepsNear ==
  ASSUME BusTyped, NEW s \in Sender, NEW c \in ContextSet, s.at # Idle, TidNear(s, c), NEW e \in Sender,
         e.tid = (s.tid + 1) % TidMod, e.undue = UpTo(TidMod - 1, s.undue + 1), e.at = Idle
  PROVE  TidNear(e, c)
<1> SUFFICES ASSUME c.ready, e.undue < TidMod - 1
             PROVE  TidBehind(e, c)
  BY DEF TidNear
<1>1. s.tid \in Tids /\ s.undue \in Nat /\ TidMod \in Nat \ {0, 1} /\ c.tid \in Tids /\ e.tid \in Tids
  BY BusAssumption DEF Sender, Tids, ContextSet
<1>2. e.undue = s.undue + 1 /\ s.undue < TidMod - 1
  BY <1>1 DEF UpTo
<1>3. CASE TidAhead(s, c)
  <2>1. c.tid + 0 = c.tid /\ c.tid = e.tid /\ ~c.toggle
    BY <1>1, <1>3 DEF TidAhead, Tids
  <2>2. (c.tid + 0) % TidMod = e.tid
    BY <1>1, <2>1, ModSmall DEF Tids
  <2>3. 0 \in 0 .. e.undue
    BY <1>1, <1>2
  <2> QED BY <2>1, <2>2, <2>3 DEF TidBehind
<1>4. CASE TidBehind(s, c)
  <2>1. PICK b \in 0 .. s.undue : (c.tid + b) % TidMod = s.tid
    BY <1>4 DEF TidBehind
  <2>2. b + 1 \in 0 .. e.undue /\ b + 1 # 0 /\ c.tid + b \in Nat /\ (c.tid + b) + 1 = c.tid + (b + 1)
    BY <1>1, <1>2 DEF Tids
  <2>3. ((c.tid + b) + 1) % TidMod = (((c.tid + b) % TidMod) + 1) % TidMod
    BY <1>1, <2>2, ModAdd
  <2>4. (c.tid + (b + 1)) % TidMod = e.tid
    BY <2>1, <2>2, <2>3
  <2> QED BY <2>2, <2>4 DEF TidBehind
<1> QED BY <1>2, <1>3, <1>4 DEF TidNear

(* A node that is near and about to begin is expected, or restarted.       *)
LEMMA BeginsNear ==
  ASSUME BusTyped, NEW s \in Sender, NEW c \in ContextSet, s.at = Idle, s.undue < TidMod - 1,
         c.ready, TidNear(s, c), (c.tid - s.tid) % TidMod <= 1
  PROVE  c.tid = s.tid /\ ~c.toggle
<1>1. s.tid \in Tids /\ s.undue \in Nat /\ TidMod \in Nat \ {0, 1} /\ c.tid \in Tids
  BY BusAssumption DEF Sender, Tids, ContextSet
<1>2. PICK b \in 0 .. s.undue : (c.tid + b) % TidMod = s.tid /\ (b = 0 => ~c.toggle)
  BY DEF TidNear, TidBehind
<1>3. b \in 0 .. TidMod - 1 /\ c.tid \in 0 .. TidMod - 1 /\ s.tid \in 0 .. TidMod - 1 /\ b < TidMod - 1
  BY <1>1 DEF Tids
<1>4. (c.tid + b) % TidMod = IF c.tid + b < TidMod THEN c.tid + b ELSE c.tid + b - TidMod
  BY <1>1, <1>3, ModOfTwo
<1>5. (c.tid - s.tid) % TidMod = IF c.tid >= s.tid THEN c.tid - s.tid ELSE c.tid - s.tid + TidMod
  BY <1>1, <1>3, ModOfDifference
<1> DEFINE x == c.tid
           y == s.tid
           M == TidMod
           d == (x - y) % M
           z == (x + b) % M
<1>6. /\ b \in 0 .. M - 1 /\ x \in 0 .. M - 1 /\ y \in 0 .. M - 1 /\ b < M - 1 /\ M \in Nat
      /\ z = IF x + b < M THEN x + b ELSE x + b - M
      /\ d = IF x >= y THEN x - y ELSE x - y + M
      /\ z = y /\ d <= 1
  BY <1>1, <1>2, <1>3, <1>4, <1>5
<1> HIDE DEF x, y, M, d, z
<1>7. b = 0
  BY <1>6
<1>8. x = y
  BY <1>6, <1>7
<1> QED BY <1>2, <1>7, <1>8 DEF x, y

(* The frame that a node sends next.                                       *)
LEMMA FrameSays ==
  ASSUME NEW s \in Sender, s.at < s.length
  PROVE  /\ FrameOf(s).sot = (s.at = 0) /\ FrameOf(s).eot = (s.at + 1 = s.length)
         /\ FrameOf(s).toggle = ((s.at + 1) % 2 = 0) /\ FrameOf(s).tid = s.tid
         /\ FrameOf(s).piece = Pieces(s)[s.at + 1] /\ FrameOf(s).crc = Pieces(s)
         /\ Pieces(s) \in Seq(PieceSet) /\ Len(Pieces(s)) = s.length
<1>1. s.node \in Nodes /\ s.at \in Nat /\ s.length \in Nat \ {0} /\ s.tid \in Tids
  BY DEF Sender
<1>2. Pieces(s) \in [1 .. s.length -> PieceSet]
  <2>1. \A i \in 1 .. s.length : <<s.node, s.tid, i>> \in PieceSet
    BY <1>1 DEF PieceSet
  <2> QED BY <2>1 DEF Pieces
<1>3. Pieces(s) \in Seq(PieceSet) /\ Len(Pieces(s)) = s.length
  <2>1. Pieces(s) \in Seq(PieceSet)
    BY <1>1, <1>2, SeqDef
  <2> QED BY <1>1, <1>2, <2>1, LenProperties
<1>4. s.at + 1 = 1 <=> s.at = 0
  BY <1>1
<1> QED BY <1>3, <1>4 DEF FrameOf

(* A piece more is received.                                               *)
LEMMA PieceAdded ==
  ASSUME NEW y \in Seq(PieceSet), NEW i \in 1 .. Len(y)
  PROVE  Append(SubSeq(y, 1, i - 1), y[i]) = SubSeq(y, 1, i)
<1>1. Len(y) \in Nat /\ y[i] \in PieceSet /\ \A j \in 1 .. Len(y) : y[j] \in PieceSet
  BY LenProperties, ElementOfSeq
<1>2. 1 \in 1 .. Len(y) /\ i \in 1 .. Len(y)
  BY <1>1
<1>3. SubSeq(y, 1, i) = SubSeq(y, 1, i - 1) \o <<y[i]>>
  BY <1>2, SubSeqRecursiveSecond
<1>4. SubSeq(y, 1, i - 1) \in Seq(PieceSet)
  <2>1. 1 \in Int /\ i - 1 \in Int /\ \A j \in 1 .. i - 1 : y[j] \in PieceSet
    BY <1>1
  <2> QED BY <2>1, SubSeqProperties
<1> QED BY <1>1, <1>3, <1>4, AppendIsConcat

(* Frames are looked at while the stamps are recent and the clock does not *)
(* read 0.                                                                 *)
LEMMA StampsAllow ==
  ASSUME BusTyped, NEW c \in ContextSet, NEW q \in Nat, q <= HalfTurn, StampsIn(c, q)
  PROVE  IsAfter(c.prev) /\ IsAfter(c.this)
<1>1. Since(c.prev) <= q /\ Since(c.this) <= q
  BY DEF StampsIn
<1>2. Since(c.prev) \in 0 .. ClockMod - 1 /\ Since(c.this) \in 0 .. ClockMod - 1
  BY SinceNow DEF ContextSet
<1>3. Since(c.prev) \in Int /\ Since(c.this) \in Int /\ HalfTurn \in Int
  BY <1>2, HalfTurnTyped
<1> DEFINE x == Since(c.prev)
           y == Since(c.this)
<1>4. x \in Int /\ y \in Int /\ HalfTurn \in Int /\ x <= q /\ y <= q
  BY <1>1, <1>3
<1> HIDE DEF x, y
<1>5. x <= HalfTurn /\ y <= HalfTurn
  BY <1>4
<1> QED BY <1>5 DEF IsAfter, x, y

(* parser.rs:300-382: the first frame of a transfer is accepted, whether   *)
(* its id is the one that was expected or not.                             *)
LEMMA BeginsAlong ==
  ASSUME BusTyped, NEW s \in Sender, s.at = 0, s.at < s.length, s.age = 0, s.undue < TidMod - 1,
         NEW c \in ContextSet, NEW q \in Nat, q <= HalfTurn, StampsIn(c, q), TidNear(s, c), clock # 0
  PROVE  LET r == AddFrame(c, FrameOf(s)).context
         IN  IF s.length = 1
             THEN TidAhead(s, r) /\ r.ready /\ r.prev = clock /\ r.this = clock
             ELSE GoesAlong([s EXCEPT !.at = 1], r)
<1> DEFINE f == FrameOf(s)
           t == IF NeedsRestart(c, f) THEN Restarted(c, f) ELSE c
           u == Stamped(t, f)
           w == Written(u, f)
           P == Pieces(s)
<1>1. /\ f.sot = TRUE /\ f.eot = (s.length = 1) /\ f.toggle = FALSE /\ f.tid = s.tid
      /\ f.piece = P[1] /\ f.crc = P /\ P \in Seq(PieceSet) /\ Len(P) = s.length
  <2>1. s.at + 1 = 1 /\ s.length \in Nat /\ (1 = s.length <=> s.length = 1) /\ (1 % 2 = 0) = FALSE
    BY DEF Sender
  <2> QED BY <2>1, FrameSays
<1> HIDE DEF f, P
<1>2. IsAfter(c.prev) /\ IsAfter(c.this)
  BY StampsAllow
<1>3. /\ c.tid \in Tids /\ c.toggle \in BOOLEAN /\ c.ready \in BOOLEAN
      /\ DOMAIN c = {"node", "ready", "tid", "toggle", "buf", "crc", "prev", "this"}
  BY DEF ContextSet
<1>4. t.ready /\ t.tid = s.tid /\ t.toggle = FALSE /\ DOMAIN t = DOMAIN c
  <2>1. CASE NeedsRestart(c, f)
    BY <1>1, <1>3, <2>1 DEF Restarted
  <2>2. CASE ~NeedsRestart(c, f)
    <3>1. c.ready /\ ~((c.tid - f.tid) % TidMod > 1)
      BY <1>1, <2>2 DEF NeedsRestart, SkipsAhead
    <3>2. (c.tid - f.tid) % TidMod <= 1
      <4>1. f.tid \in 0 .. TidMod - 1 /\ c.tid \in 0 .. TidMod - 1 /\ TidMod \in Nat \ {0}
        BY <1>1, <1>3, BusAssumption DEF Sender, Tids
      <4>2. (c.tid - f.tid) % TidMod \in Int
        BY <4>1, ModOfDifference
      <4> QED BY <3>1, <4>2
    <3>3. c.tid = s.tid /\ ~c.toggle
      BY <1>1, <3>1, <3>2, BeginsNear DEF Idle
    <3> QED BY <1>3, <2>2, <3>1, <3>3
  <2> QED BY <2>1, <2>2
<1> HIDE DEF t
<1>5. Valid(t, f)
  BY <1>1, <1>4 DEF Valid
<1>6. u.ready /\ u.this = clock /\ u.tid = s.tid /\ u.toggle = FALSE /\ DOMAIN u = DOMAIN c
  BY <1>1, <1>3, <1>4 DEF Stamped
<1>7. AddFrame(c, f).context = IF f.eot THEN PreparedForNext(Completed(u)) ELSE w
  BY <1>1, <1>2, <1>5 DEF AddFrame, t, u, w
<1> HIDE DEF u
<1>8. CASE s.length = 1
  <2>1. AddFrame(c, f).context = PreparedForNext(Completed(u))
    BY <1>1, <1>7, <1>8
  <2> DEFINE r == PreparedForNext(Completed(u))
  <2>2. r.tid = (s.tid + 1) % TidMod /\ ~r.toggle /\ r.ready /\ r.prev = clock /\ r.this = clock
    BY <1>3, <1>6 DEF PreparedForNext, Completed
  <2> QED BY <1>8, <2>1, <2>2 DEF TidAhead, f
<1>9. CASE s.length # 1
  <2>1. AddFrame(c, f).context = w
    BY <1>1, <1>7, <1>9
  <2>2. /\ w.ready /\ w.this = clock /\ w.tid = s.tid /\ w.toggle = TRUE
        /\ w.buf = <<P[1]>> /\ w.crc = P
    BY <1>1, <1>3, <1>6 DEF Written
  <2> DEFINE e == [s EXCEPT !.at = 1]
  <2>3. /\ e.at = 1 /\ e.tid = s.tid /\ e.age = 0 /\ Pieces(e) = P
    BY DEF Sender, Pieces, P
  <2>4. SubSeq(P, 1, 1) = <<P[1]>>
    <3>1. 1 \in 1 .. Len(P) /\ 1 - 1 = 0
      BY <1>1 DEF Sender
    <3>2. SubSeq(P, 1, 0) = <<>>
      BY <1>1, SubSeqEmpty
    <3>3. Append(SubSeq(P, 1, 1 - 1), P[1]) = SubSeq(P, 1, 1)
      BY <1>1, <3>1, PieceAdded
    <3>4. Append(<<>>, P[1]) = <<P[1]>>
      OBVIOUS
    <3> QED BY <3>1, <3>2, <3>3, <3>4
  <2>5. Since(clock) = 0 /\ 1 <= MaxPieces /\ (1 % 2 = 1) = TRUE
    BY SinceNow, BusAssumption
  <2> HIDE DEF w, e
  <2>6. GoesAlong(e, w)
    BY <2>2, <2>3, <2>4, <2>5 DEF GoesAlong, Never
  <2> QED BY <1>9, <2>1, <2>6 DEF e, f
<1> QED BY <1>8, <1>9

(* Its other frames are accepted as they come.                             *)
LEMMA GoesOnAlong ==
  ASSUME BusTyped, NEW s \in Sender, s.at # 0, s.at < s.length, s.at <= MaxPieces,
         s.age <= TidTimeout, NEW c \in ContextSet, GoesAlong(s, c),
         NEW q \in Nat, q <= HalfTurn, StampsIn(c, q), clock # 0
  PROVE  LET r == AddFrame(c, FrameOf(s)).context
         IN  /\ s.at + 1 < s.length => GoesAlong([s EXCEPT !.at = @ + 1], r)
             /\ s.at + 1 = s.length => TidAhead(s, r)
             /\ s.at + 1 = s.length /\ s.length <= MaxPieces =>
                  /\ AddFrame(c, FrameOf(s)).done = Pieces(s)
                  /\ r.prev = c.this /\ r.this = c.this
<1> DEFINE f == FrameOf(s)
           w == Written(c, f)
           P == Pieces(s)
<1>0. s.at \in Nat \ {0} /\ s.length \in Nat /\ MaxPieces \in Nat \ {0} /\ TidMod \in Nat \ {0, 1}
  BY BusAssumption DEF Sender
<1>1. /\ f.sot = FALSE /\ f.eot = (s.at + 1 = s.length) /\ f.toggle = ((s.at + 1) % 2 = 0)
      /\ f.tid = s.tid /\ f.piece = P[s.at + 1] /\ f.crc = P
      /\ P \in Seq(PieceSet) /\ Len(P) = s.length
  BY FrameSays
<1> HIDE DEF f, P
<1>2. IsAfter(c.prev) /\ IsAfter(c.this)
  BY StampsAllow
<1>3. /\ c.ready /\ c.this # Never /\ Since(c.this) = s.age /\ c.tid = s.tid
      /\ c.toggle = (s.at % 2 = 1) /\ c.buf = SubSeq(P, 1, s.at) /\ c.crc = P
      /\ DOMAIN c = {"node", "ready", "tid", "toggle", "buf", "crc", "prev", "this"}
  BY DEF GoesAlong, ContextSet, P
<1>4. ~NeedsRestart(c, f)
  <2>1. s.age \in Nat /\ TidTimeout \in Nat
    BY BusAssumption DEF Sender
  <2> QED BY <1>1, <1>3, <2>1 DEF NeedsRestart, TimedOut
<1>5. f.toggle = c.toggle
  <2>1. ((s.at + 1) % 2 = 0) = (s.at % 2 = 1)
    BY <1>0
  <2> QED BY <1>1, <1>3, <2>1
<1>6. Valid(c, f) /\ Stamped(c, f) = c
  BY <1>1, <1>3, <1>5 DEF Valid, Stamped
<1>7. Len(c.buf) = s.at
  BY <1>0, <1>1, <1>3, SubSeqProperties
<1>8. /\ s.at >= MaxPieces => AddFrame(c, f).context = PreparedForNext(c)
      /\ ~(s.at >= MaxPieces) /\ ~f.eot => AddFrame(c, f).context = w
      /\ ~(s.at >= MaxPieces) /\ f.eot =>
           /\ AddFrame(c, f).context = PreparedForNext(Completed(w))
           /\ AddFrame(c, f).done = IF ChecksumAgrees(w) THEN w.buf ELSE <<>>
  BY <1>1, <1>2, <1>4, <1>6, <1>7 DEF AddFrame, w
<1>9. /\ w.ready /\ w.this = c.this /\ w.tid = s.tid /\ w.toggle = ~c.toggle /\ w.crc = P
      /\ w.buf = Append(c.buf, f.piece) /\ DOMAIN w = DOMAIN c
  BY <1>1, <1>3 DEF Written
<1>10. w.buf = SubSeq(P, 1, s.at + 1)
  <2>1. s.at + 1 \in 1 .. Len(P) /\ (s.at + 1) - 1 = s.at
    BY <1>0, <1>1
  <2>2. Append(SubSeq(P, 1, (s.at + 1) - 1), P[s.at + 1]) = SubSeq(P, 1, s.at + 1)
    BY <1>1, <2>1, PieceAdded
  <2> QED BY <1>1, <1>3, <1>9, <2>1, <2>2
<1>11. w.toggle = ((s.at + 1) % 2 = 1)
  <2>1. ((s.at + 1) % 2 = 1) = ~(s.at % 2 = 1)
    BY <1>0
  <2> QED BY <1>3, <1>9, <2>1
<1> HIDE DEF w
<1> DEFINE e == [s EXCEPT !.at = @ + 1]
<1>12. e.at = s.at + 1 /\ e.tid = s.tid /\ e.age = s.age /\ Pieces(e) = P
  BY DEF Sender, Pieces, P
<1>13. TidAhead(s, PreparedForNext(c)) /\ PreparedForNext(c).ready
       /\ PreparedForNext(c).this = c.this
  BY <1>3 DEF TidAhead, PreparedForNext
<1>14. /\ TidAhead(s, PreparedForNext(Completed(w)))
       /\ PreparedForNext(Completed(w)).prev = c.this /\ PreparedForNext(Completed(w)).this = c.this
  BY <1>3, <1>9 DEF TidAhead, PreparedForNext, Completed
<1> HIDE DEF e
<1>15. CASE s.at >= MaxPieces
  <2>1. AddFrame(c, f).context = PreparedForNext(c)
    BY <1>8, <1>15
  <2>2. ~(s.at + 1 <= MaxPieces) /\ (s.at + 1 = s.length => ~(s.length <= MaxPieces))
    BY <1>0, <1>15
  <2>3. GoesAlong(e, PreparedForNext(c))
    BY <1>3, <1>12, <1>13, <2>2 DEF GoesAlong, TidAhead
  <2> QED BY <1>13, <2>1, <2>2, <2>3 DEF e, f
<1>16. CASE ~(s.at >= MaxPieces) /\ ~f.eot
  <2>1. AddFrame(c, f).context = w
    BY <1>8, <1>16
  <2>2. s.at + 1 <= MaxPieces /\ s.at + 1 # s.length
    <3>1. s.at + 1 # s.length
      BY <1>1, <1>16, Zenon
    <3> QED BY <1>0, <1>16, <3>1
  <2>3. GoesAlong(e, w)
    BY <1>3, <1>9, <1>10, <1>11, <1>12, <2>2 DEF GoesAlong
  <2> QED BY <2>1, <2>2, <2>3 DEF e, f
<1>17. CASE ~(s.at >= MaxPieces) /\ f.eot
  <2>1. /\ AddFrame(c, f).context = PreparedForNext(Completed(w))
        /\ AddFrame(c, f).done = IF ChecksumAgrees(w) THEN w.buf ELSE <<>>
    BY <1>8, <1>17
  <2>2. s.at + 1 = s.length /\ ~(s.at + 1 < s.length)
    <3>1. s.at + 1 = s.length
      BY <1>1, <1>17, Zenon
    <3> QED BY <1>0, <3>1
  <2>3. SubSeq(P, 1, s.at + 1) = P
    BY <1>1, <2>2, SubSeqFull
  <2>4. ChecksumAgrees(w) /\ w.buf = P
    BY <1>9, <1>10, <2>3 DEF ChecksumAgrees
  <2> QED BY <1>14, <2>1, <2>2, <2>4 DEF f, P
<1> QED BY <1>15, <1>16, <1>17

(* A frame that is not expected any more changes nothing: one that is      *)
(* repeated amid its transfer, and what comes after as many as fit.        *)
LEMMA RefusedAlong ==
  ASSUME BusTyped, NEW s \in Sender, s.at # 0, s.at < s.length, s.age <= TidTimeout,
         NEW c \in ContextSet, GoesAlong(s, c), NEW f, f.tid = s.tid,
         s.at > MaxPieces \/ f.toggle = (s.at % 2 = 0)
  PROVE  AddFrame(c, f).context = c
<1>0. /\ s.at \in Nat \ {0} /\ MaxPieces \in Nat \ {0} /\ TidMod \in Nat \ {0, 1}
      /\ s.tid \in 0 .. TidMod - 1 /\ s.age \in Nat /\ TidTimeout \in Nat
  BY BusAssumption DEF Sender, Tids
<1>1. c.ready /\ c.this # Never /\ Since(c.this) = s.age
  BY DEF GoesAlong
<1>2. (c.tid = s.tid /\ c.toggle = (s.at % 2 = 1) /\ s.at <= MaxPieces)
      \/ (s.at > MaxPieces /\ c.tid = (s.tid + 1) % TidMod)
  BY <1>0 DEF GoesAlong, TidAhead
<1> DEFINE y == (s.tid + 1) % TidMod
<1>3. y = (IF s.tid = TidMod - 1 THEN 0 ELSE s.tid + 1)
  BY <1>0, ModStep
<1> HIDE DEF y
<1>4. y \in 0 .. TidMod - 1 /\ y # s.tid
  BY <1>0, <1>3
<1>5. ~SkipsAhead(c, f)
  <2>1. CASE c.tid = s.tid
    <3>1. (s.tid - s.tid) % TidMod = 0
      BY <1>0, ModOfDifference
    <3> QED BY <2>1, <3>1 DEF SkipsAhead
  <2>2. CASE c.tid = y
    <3>1. (y - s.tid) % TidMod = IF y >= s.tid THEN y - s.tid ELSE y - s.tid + TidMod
      BY <1>0, <1>4, ModOfDifference
    <3> DEFINE d == (y - s.tid) % TidMod
    <3>2. d = IF y >= s.tid THEN y - s.tid ELSE y - s.tid + TidMod
      BY <3>1
    <3> HIDE DEF d
    <3>3. d = 1
      BY <1>0, <1>3, <3>2
    <3> QED BY <2>2, <3>3 DEF SkipsAhead, d
  <2> QED BY <1>2, <2>1, <2>2 DEF y
<1>6. ~NeedsRestart(c, f)
  <2>1. ~(Since(c.this) > TidTimeout)
    BY <1>0, <1>1
  <2> QED BY <1>1, <1>5, <2>1 DEF NeedsRestart, TimedOut
<1>7. ~Valid(c, f)
  <2>1. CASE s.at > MaxPieces
    <3>1. c.tid = y
      BY <1>0, <1>2, <2>1 DEF y
    <3> QED BY <1>4, <3>1 DEF Valid
  <2>2. CASE ~(s.at > MaxPieces)
    <3>1. f.toggle = (s.at % 2 = 0) /\ c.toggle = (s.at % 2 = 1)
      BY <1>2, <2>2
    <3>2. (s.at % 2 = 0) # (s.at % 2 = 1)
      BY <1>0
    <3> QED BY <3>1, <3>2 DEF Valid
  <2> QED BY <2>1, <2>2
<1> QED BY <1>6, <1>7 DEF AddFrame

(* How far a node is after it has sent a frame.                            *)
LEMMA SentSays ==
  ASSUME NEW s \in Sender, s.at < s.length
  PROVE  LET e == SentFrame(s)
         IN  /\ e \in Sender
             /\ s.at + 1 < s.length =>
                  /\ e = [s EXCEPT !.at = @ + 1] /\ e.at = s.at + 1 /\ e.at # Idle /\ e.due = s.due
                  /\ e.tid = s.tid /\ e.undue = s.undue
             /\ ~(s.at + 1 < s.length) =>
                  /\ s.at + 1 = s.length
                  /\ e.at = Idle /\ e.tid = (s.tid + 1) % TidMod
                  /\ e.undue = IF s.due THEN 0 ELSE UpTo(TidMod - 1, s.undue + 1)
<1>1. s.at \in Nat /\ s.length \in Nat
  BY DEF Sender
<1>2. DOMAIN s = {"node", "at", "length", "tid", "due", "age", "undue"}
  BY DEF Sender
<1>3. SentFrame(s) \in Sender
  BY SentTyped
<1>4. CASE s.at + 1 < s.length
  <2> DEFINE e == [s EXCEPT !.at = @ + 1]
  <2>1. SentFrame(s) = e
    BY <1>4 DEF SentFrame
  <2>2. e.at = s.at + 1 /\ e.due = s.due /\ e.tid = s.tid /\ e.undue = s.undue
    BY <1>2
  <2>3. s.at + 1 # 0
    BY <1>1
  <2> HIDE DEF e
  <2> QED BY <1>3, <1>4, <2>1, <2>2, <2>3 DEF Idle, e
<1>5. CASE ~(s.at + 1 < s.length)
  <2> DEFINE e == [s EXCEPT !.at = Idle, !.tid = (@ + 1) % TidMod,
                            !.undue = IF s.due THEN 0 ELSE UpTo(TidMod - 1, @ + 1)]
  <2>1. SentFrame(s) = e
    BY <1>5 DEF SentFrame
  <2>2. e.at = Idle /\ e.tid = (s.tid + 1) % TidMod
        /\ e.undue = IF s.due THEN 0 ELSE UpTo(TidMod - 1, s.undue + 1)
    BY <1>2
  <2>3. s.at + 1 = s.length
    BY <1>1, <1>5
  <2> HIDE DEF e
  <2> QED BY <1>3, <1>5, <2>1, <2>2, <2>3
<1> QED BY <1>4, <1>5

(* A transfer that is not due, or not any more: its node stays near.       *)
LEMMA NotDueFollows ==
  ASSUME BusTyped, NEW s \in Sender, s.at < s.length, NEW c \in ContextSet, NEW f \in CanFrame,
         f.tid = s.tid, NEW r, Outcome(c, f, r), NEW q \in Nat, TidNear(s, c), StampsIn(c, q)
  PROVE  Following(SentFrame([s EXCEPT !.due = FALSE]), r, q)
<1> DEFINE e == [s EXCEPT !.due = FALSE]
           m == [s EXCEPT !.at = 1]
           z == SentFrame(e)
<1>1. /\ e \in Sender /\ e.at = s.at /\ e.length = s.length /\ e.tid = s.tid
      /\ e.undue = s.undue /\ ~e.due
  <2> DEFINE no == FALSE
             x == [s EXCEPT !.due = no]
  <2>1. no \in BOOLEAN /\ ~no
    OBVIOUS
  <2> HIDE DEF no
  <2>2. /\ x \in Sender /\ x.at = s.at /\ x.length = s.length /\ x.tid = s.tid
        /\ x.undue = s.undue /\ x.due = no
    BY <2>1 DEF Sender
  <2>3. x = e
    BY DEF no
  <2> QED BY <2>1, <2>2, <2>3, Zenon
<1>2. /\ m \in Sender /\ m.at # Idle /\ m.tid = s.tid /\ m.undue = s.undue
  BY DEF Sender, Idle
<1> HIDE DEF e, m
<1>3. StampsIn(r, q) /\ r \in ContextSet
  BY FrameKeepsStamps DEF Outcome
<1>4. TidNear(m, r)
  BY <1>2, FrameKeepsNear
<1>5. CASE e.at + 1 < e.length
  <2>1. z \in Sender /\ z.at # Idle /\ ~z.due /\ z.tid = s.tid /\ z.undue = s.undue
    BY <1>1, <1>5, SentSays
  <2> HIDE DEF z
  <2>2. TidNear(z, r)
    BY <2>1, FrameKeepsNear
  <2> QED BY <1>3, <2>1, <2>2 DEF Following, DueGoesAlong, z, e
<1>6. CASE ~(e.at + 1 < e.length)
  <2>1. z \in Sender /\ z.at = Idle /\ z.tid = (m.tid + 1) % TidMod
        /\ z.undue = UpTo(TidMod - 1, m.undue + 1)
    BY <1>1, <1>2, <1>6, SentSays
  <2> HIDE DEF z
  <2>2. TidNear(z, r)
    BY <1>2, <1>3, <1>4, <2>1, EndKeepsNear
  <2> QED BY <1>3, <2>1, <2>2 DEF Following, DueGoesAlong, z, e
<1> QED BY <1>5, <1>6

(* A transfer that has ended where it was due leaves its node expected.    *)
LEMMA EndsExpected ==
  ASSUME BusTyped, NEW s \in Sender, s.at < s.length, s.at + 1 = s.length, s.due,
         NEW r \in ContextSet, TidAhead(s, r), NEW q, StampsIn(r, q)
  PROVE  Following(SentFrame(s), r, q)
<1> DEFINE z == SentFrame(s)
<1>0. ~(s.at + 1 < s.length)
  BY DEF Sender
<1>1. z.at = Idle /\ z.tid = (s.tid + 1) % TidMod /\ z.undue = 0
  BY <1>0, SentSays
<1> HIDE DEF z
<1>2. r.tid = z.tid /\ ~r.toggle /\ r.tid \in Tids
  BY <1>1 DEF TidAhead, ContextSet
<1>3. r.tid + 0 = r.tid /\ r.tid % TidMod = r.tid
  BY <1>2, BusAssumption, ModSmall DEF Tids
<1>4. 0 \in 0 .. z.undue /\ (r.tid + 0) % TidMod = z.tid
  BY <1>1, <1>2, <1>3
<1>5. TidBehind(z, r)
  BY <1>2, <1>4 DEF TidBehind
<1> QED BY <1>1, <1>5 DEF Following, TidNear, DueGoesAlong, z

(* ... and while it is sent, expected along with it.                       *)
LEMMA GoesExpected ==
  ASSUME BusTyped, NEW s \in Sender, s.at < s.length, s.at + 1 < s.length,
         NEW c \in ContextSet, NEW f \in CanFrame, f.tid = s.tid, NEW r, Outcome(c, f, r),
         TidNear(s, c), NEW q \in Nat, StampsIn(c, q), GoesAlong([s EXCEPT !.at = @ + 1], r)
  PROVE  Following(SentFrame(s), r, q)
<1> DEFINE z == SentFrame(s)
<1>1. z \in Sender /\ z = [s EXCEPT !.at = @ + 1] /\ z.at # Idle /\ z.tid = s.tid /\ z.undue = s.undue
  BY SentSays
<1> HIDE DEF z
<1>2. TidNear(z, r)
  BY <1>1, FrameKeepsNear
<1>3. StampsIn(r, q)
  BY FrameKeepsStamps
<1> QED BY <1>1, <1>2, <1>3 DEF Following, DueGoesAlong, z

(* What a frame of a transfer that is due makes of the context.            *)
LEMMA DueFollows ==
  ASSUME BusTyped, NEW s \in Sender, s.at < s.length, s.due, s.age <= TidTimeout, clock # 0,
         s.undue < TidMod - 1, s.at = Idle => s.age = 0,
         NEW c \in ContextSet, Len(c.buf) <= MaxPieces, NEW q \in Nat, q <= HalfTurn, Following(s, c, q)
  PROVE  LET r    == AddFrame(c, FrameOf(s))
             last == s.at + 1 = s.length
         IN  /\ Following(SentFrame(s), r.context,
                          IF last /\ s.length <= MaxPieces THEN s.age ELSE q)
             /\ last /\ s.length \in FixPieces .. MaxPieces => r.done = Pieces(s)
<1> DEFINE f == FrameOf(s)
           r == AddFrame(c, f)
           p == r.context
           z == SentFrame(s)
<1>0. /\ s.at \in Nat /\ s.length \in Nat \ {0} /\ MaxPieces \in Nat \ {0}
      /\ FixPieces \in Nat \ {0, 1}
  BY BusAssumption DEF Sender
<1>1. StampsIn(c, q) /\ TidNear(s, c)
  BY DEF Following
<1>2. f \in CanFrame /\ f.tid = s.tid
  BY FrameTyped, FrameSays
<1>3. Outcome(c, f, p)
  BY <1>2, FrameOutcome
<1>4. p \in ContextSet /\ StampsIn(p, q)
  BY <1>1, <1>3, FrameKeepsStamps DEF Outcome
<1> HIDE DEF f, r
<1>5. ASSUME s.at + 1 < s.length, GoesAlong([s EXCEPT !.at = @ + 1], p)
      PROVE  Following(z, p, q)
  BY <1>1, <1>2, <1>3, <1>5, GoesExpected
<1>6. ASSUME s.at + 1 = s.length, TidAhead(s, p), NEW u, StampsIn(p, u)
      PROVE  Following(z, p, u)
  BY <1>4, <1>6, EndsExpected
<1>7. CASE s.at = 0 /\ s.length = 1
  <2>1. TidAhead(s, p) /\ p.prev = clock /\ p.this = clock
    BY <1>1, <1>7, BeginsAlong DEF f, r, Idle
  <2>2. StampsIn(p, 0)
    BY <2>1, SinceNow DEF StampsIn
  <2>3. s.at + 1 = s.length /\ s.length <= MaxPieces /\ ~(s.length \in FixPieces .. MaxPieces)
        /\ s.age = 0
    BY <1>0, <1>7 DEF Idle
  <2>4. Following(z, p, 0)
    BY <1>6, <2>1, <2>2, <2>3
  <2> QED BY <2>3, <2>4 DEF r, f
<1>8. CASE s.at = 0 /\ s.length # 1
  <2>1. GoesAlong([s EXCEPT !.at = 1], p)
    BY <1>1, <1>8, BeginsAlong DEF f, r, Idle
  <2>2. [s EXCEPT !.at = 1] = [s EXCEPT !.at = @ + 1]
    BY <1>0, <1>8
  <2>3. s.at + 1 < s.length /\ s.at + 1 # s.length
    BY <1>0, <1>8
  <2>4. Following(z, p, q)
    BY <1>5, <2>1, <2>2, <2>3
  <2> QED BY <2>3, <2>4 DEF r, f
<1>9. CASE s.at # 0 /\ s.at <= MaxPieces
  <2>0. GoesAlong(s, c)
    BY <1>9 DEF Following, DueGoesAlong, Idle
  <2>1. /\ s.at + 1 < s.length => GoesAlong([s EXCEPT !.at = @ + 1], p)
        /\ s.at + 1 = s.length => TidAhead(s, p)
        /\ s.at + 1 = s.length /\ s.length <= MaxPieces =>
             r.done = Pieces(s) /\ p.prev = c.this /\ p.this = c.this
    BY <1>1, <1>9, <2>0, GoesOnAlong DEF f, r
  <2>2. CASE s.at + 1 = s.length /\ s.length <= MaxPieces
    <3>1. p.prev = c.this /\ p.this = c.this /\ Since(c.this) = s.age /\ r.done = Pieces(s)
      BY <2>0, <2>1, <2>2 DEF GoesAlong
    <3>2. s.age \in Nat /\ s.age <= s.age
      BY DEF Sender
    <3>3. StampsIn(p, s.age)
      BY <3>1, <3>2 DEF StampsIn
    <3>4. Following(z, p, s.age)
      BY <1>6, <2>1, <2>2, <3>3
    <3> QED BY <2>2, <3>1, <3>4 DEF r, f
  <2>3. CASE s.at + 1 = s.length /\ ~(s.length <= MaxPieces)
    <3>1. Following(z, p, q)
      BY <1>4, <1>6, <2>1, <2>3
    <3>2. ~(s.length \in FixPieces .. MaxPieces)
      BY <1>0, <2>3
    <3> QED BY <2>3, <3>1, <3>2 DEF r, f
  <2>4. CASE s.at + 1 # s.length
    <3>1. s.at + 1 < s.length
      BY <1>0, <2>4
    <3>2. Following(z, p, q)
      BY <1>5, <2>1, <3>1
    <3> QED BY <2>4, <3>2 DEF r, f
  <2> QED BY <2>2, <2>3, <2>4
<1>10. CASE s.at # 0 /\ ~(s.at <= MaxPieces)
  <2>0. GoesAlong(s, c)
    BY <1>10 DEF Following, DueGoesAlong, Idle
  <2>1. s.at > MaxPieces /\ ~(s.length <= MaxPieces) /\ ~(s.length \in FixPieces .. MaxPieces)
        /\ ~(s.at + 1 <= MaxPieces)
    BY <1>0, <1>10
  <2>2. p = c
    BY <1>2, <1>10, <2>0, <2>1, RefusedAlong DEF r
  <2>3. TidAhead(s, c)
    BY <1>10, <2>0 DEF GoesAlong
  <2>4. CASE s.at + 1 = s.length
    <3>1. Following(z, p, q)
      BY <1>4, <1>6, <2>2, <2>3, <2>4
    <3> QED BY <2>1, <2>4, <3>1 DEF r, f
  <2>5. CASE s.at + 1 # s.length
    <3>1. s.at + 1 < s.length
      BY <1>0, <2>5
    <3> DEFINE e == [s EXCEPT !.at = @ + 1]
    <3>2. e.at = s.at + 1 /\ e.tid = s.tid /\ e.age = s.age
      BY DEF Sender
    <3> HIDE DEF e
    <3>3. GoesAlong(e, p)
      BY <2>0, <2>1, <2>2, <2>3, <3>2 DEF GoesAlong, TidAhead
    <3>4. Following(z, p, q)
      BY <1>5, <3>1, <3>3 DEF e
    <3> QED BY <2>5, <3>4 DEF r, f
  <2> QED BY <2>4, <2>5
<1> QED BY <1>7, <1>8, <1>9, <1>10

(* A frame that arrives once more changes nothing that is due.             *)
LEMMA RepeatFollows ==
  ASSUME BusTyped, NEW s \in Sender, s.at < s.length, s.at # Idle,
         NEW c \in ContextSet, Len(c.buf) <= MaxPieces, NEW q \in Nat, Following(s, c, q)
  PROVE  Following(s, AddFrame(c, FrameOf([s EXCEPT !.at = @ - 1])).context, q)
<1> DEFINE b == [s EXCEPT !.at = @ - 1]
           f == FrameOf(b)
           r == AddFrame(c, f).context
<1>0. s.at \in Nat /\ s.at # 0 /\ s.length \in Nat
  BY DEF Sender, Idle
<1>1. b \in Sender /\ b.at = s.at - 1 /\ b.length = s.length /\ b.tid = s.tid /\ b.at < b.length
      /\ b.at + 1 = s.at
  BY <1>0 DEF Sender
<1> HIDE DEF b
<1>2. f \in CanFrame /\ f.tid = s.tid /\ f.toggle = (s.at % 2 = 0)
  BY <1>1, FrameTyped, FrameSays
<1> HIDE DEF f
<1>3. Outcome(c, f, r)
  BY <1>2, FrameOutcome
<1>4. CASE s.due /\ s.age <= TidTimeout
  <2>1. GoesAlong(s, c)
    BY <1>4 DEF Following, DueGoesAlong
  <2>2. r = c
    BY <1>0, <1>2, <1>4, <2>1, RefusedAlong
  <2> QED BY <2>2 DEF f, b
<1>5. CASE ~(s.due /\ s.age <= TidTimeout)
  <2>1. StampsIn(c, q) /\ TidNear(s, c)
    BY DEF Following
  <2> HIDE DEF r
  <2>2. StampsIn(r, q) /\ TidNear(s, r)
    BY <1>2, <1>3, <2>1, FrameKeepsStamps, FrameKeepsNear
  <2> QED BY <1>5, <2>2 DEF Following, DueGoesAlong, r, f, b
<1> QED BY <1>4, <1>5

(* A context is the same as one before for all that a node can tell: it is *)
(* that one, or no frame has used either.                                  *)
Alike(x, y) == y = x \/ (~x.ready /\ ~y.ready /\ Unstamped(x) /\ Unstamped(y))

(* A node does not tell contexts that are alike.                           *)
LEMMA AlikeFollows ==
  ASSUME NEW s, NEW x, NEW y, NEW q, Following(s, x, q), Alike(x, y)
  PROVE  Following(s, y, q)
<1>1. CASE y = x
  BY <1>1
<1>2. CASE ~x.ready /\ ~y.ready /\ Unstamped(x) /\ Unstamped(y)
  <2>1. x.prev = y.prev /\ x.this = y.this
    BY <1>2 DEF Unstamped
  <2>2. ~GoesAlong(s, x)
    BY <1>2 DEF GoesAlong
  <2> QED BY <1>2, <2>1, <2>2 DEF Following, StampsIn, TidNear, DueGoesAlong
<1> QED BY <1>1, <1>2 DEF Alike

(* The context of every node is its own, or one without stamps.            *)
BusKnown == BusInv /\ ContextsKnown /\ EnoughContexts

Owned(n) ==
  /\ Context(n) \in ContextSet /\ Len(Context(n).buf) <= MaxPieces /\ Context(n).node = n
  /\ ~Context(n).ready => Unstamped(Context(n))
  /\ \A i \in DOMAIN contexts :
       contexts[i].ready /\ contexts[i].node = n => Context(n) = contexts[i]
  /\ Context(n).ready =>
       \E i \in DOMAIN contexts :
         contexts[i] = Context(n) /\ contexts[i].ready /\ contexts[i].node = n

AllOwned == \A n \in Nodes : Owned(n)

(* So it is for every node, before a step and after it.                    *)
LEMMA EveryOwned == BusKnown => AllOwned
<1> SUFFICES ASSUME BusKnown, NEW n \in Nodes PROVE Owned(n)
  BY DEF AllOwned
<1>1. BusTyped /\ OneEach /\ ContextsKnown /\ EnoughContexts
  BY DEF BusKnown, BusInv
<1>2. Slot(n) \in DOMAIN contexts
  BY <1>1, SlotFits
<1>3. Len(Context(n).buf) <= MaxPieces
  BY <1>1, <1>2, ContextTyped
<1> QED BY <1>1, <1>2, <1>3, OwnContext DEF Owned

(* The same of the next state.                                             *)
LEMMA EveryOwnedNext == BusKnown' => AllOwned'
  BY EveryOwned, PTL

(* Every frame leaves the contexts of receivers or unused.                 *)
LEMMA KnownFed ==
  ASSUME BusInv, ContextsKnown, bus' = bus, NEW f \in CanFrame, NEW fix, FeedFrame(f, fix)
  PROVE  ContextsKnown'
<1> DEFINE n == f.node
           c == Context(n)
           r == AddFrame(c, f).context
           k == Slot(n)
<1>0. BusTyped /\ n \in Nodes /\ Nodes' = Nodes
  BY DEF BusInv, CanFrame, Nodes
<1>1. contexts' = [contexts EXCEPT ![k] = r]
  BY DEF FeedFrame
<1>2. CASE k \in DOMAIN contexts
  <2> DEFINE t == contexts[k]
  <2>1. c \in ContextSet /\ c.node = n /\ Len(c.buf) <= MaxPieces
    BY <1>0, <1>2, ContextTyped
  <2>2. Outcome(c, f, r) /\ r.node = n
    BY <1>0, <2>1, FrameOutcome, AddFrameTyped
  <2>3. t \in ContextSet /\ (~t.ready => Unstamped(t))
    BY <1>0, <1>2 DEF BusTyped, ContextsKnown
  <2>4. c = IF t.ready /\ t.node = n THEN t ELSE IF t.ready THEN Fresh(n) ELSE [t EXCEPT !.node = n]
    BY DEF Context
  <2> HIDE DEF t, c, k, r
  <2>5. [t EXCEPT !.node = n].prev = t.prev /\ [t EXCEPT !.node = n].this = t.this
    BY <2>3 DEF ContextSet
  <2>6. ~c.ready => Unstamped(c)
    BY <2>3, <2>4, <2>5 DEF Unstamped, Fresh
  <2>7. IF r.ready THEN r.node \in Nodes ELSE Unstamped(r)
    BY <1>0, <2>2, <2>6 DEF Outcome
  <2>8. \A i \in DOMAIN contexts' : i \in DOMAIN contexts /\ contexts'[i] = IF i = k THEN r ELSE contexts[i]
    BY <1>1
  <2>9. \A i \in DOMAIN contexts' :
          IF contexts'[i].ready THEN contexts'[i].node \in Nodes ELSE Unstamped(contexts'[i])
    BY <2>7, <2>8 DEF ContextsKnown
  <2> QED BY <1>0, <2>9 DEF ContextsKnown, Unstamped
<1>3. CASE k \notin DOMAIN contexts
  <2>1. contexts' = contexts
    BY <1>0, <1>1, <1>3 DEF BusTyped
  <2> QED BY <1>0, <2>1 DEF ContextsKnown, Unstamped
<1> QED BY <1>2, <1>3

(* While the contexts stay each node has the one it had.                   *)
LEMMA ContextsStay ==
  ASSUME BusKnown, BusKnown', contexts' = contexts, bus' = bus, NEW n \in Nodes
  PROVE  Alike(Context(n), Context(n)')
<1>1. Owned(n) /\ Owned(n)'
  <2>1. AllOwned /\ AllOwned' /\ n \in Nodes'
    BY EveryOwned, EveryOwnedNext DEF Nodes
  <2> QED BY <2>1 DEF AllOwned
<1> QED BY <1>1 DEF Owned, Alike

(* A frame changes the context of its node only.                           *)
LEMMA ContextsFed ==
  ASSUME BusKnown, BusKnown', bus' = bus, NEW h \in Nodes, NEW f \in CanFrame, f.node = h,
         NEW fix, FeedFrame(f, fix)
  PROVE  /\ Alike(AddFrame(Context(h), f).context, Context(h)')
         /\ \A n \in Nodes : n # h => Alike(Context(n), Context(n)')
<1> DEFINE c == Context(h)
           r == AddFrame(c, f).context
           k == Slot(h)
<1>0. BusTyped /\ OneEach /\ ContextsKnown /\ EnoughContexts
  BY DEF BusKnown, BusInv
<1>1. /\ k \in DOMAIN contexts /\ (contexts[k].ready => contexts[k].node = h)
  BY <1>0, SlotFits
<1>2. /\ c \in ContextSet /\ c.node = h /\ Len(c.buf) <= MaxPieces
      /\ ~c.ready => Unstamped(c)
      /\ \A i \in DOMAIN contexts : contexts[i].ready /\ contexts[i].node = h => c = contexts[i] /\ i = k
  BY <1>0, <1>1, ContextTyped, OwnContext, OwnSlot
<1>3. contexts' = [contexts EXCEPT ![k] = r]
  BY DEF FeedFrame
<1>4. r.node = h /\ (r.ready \/ r = c)
  <2>1. Outcome(c, f, r) /\ r.node = c.node
    BY <1>0, <1>2, FrameOutcome, AddFrameTyped
  <2> QED BY <1>2, <2>1 DEF Outcome
<1>5. \A n \in Nodes : Owned(n) /\ Owned(n)'
  <2>1. AllOwned /\ AllOwned' /\ Nodes' = Nodes
    BY EveryOwned, EveryOwnedNext DEF Nodes
  <2> QED BY <2>1 DEF AllOwned
<1> HIDE DEF k, r, c
<1>6. /\ DOMAIN contexts' = DOMAIN contexts /\ contexts'[k] = r
      /\ \A i \in DOMAIN contexts : i # k => contexts'[i] = contexts[i]
  BY <1>1, <1>3
<1>7. Alike(r, Context(h)')
  <2>1. CASE r.ready
    <3>1. Context(h)' = r
      BY <1>0, <1>1, <1>4, <1>5, <1>6, <2>1 DEF Owned
    <3> QED BY <3>1 DEF Alike
  <2>2. CASE ~r.ready
    <3>1. r = c /\ ~c.ready /\ Unstamped(r)
      BY <1>2, <1>4, <2>2
    <3>2. \A i \in DOMAIN contexts' : ~(contexts'[i].ready /\ contexts'[i].node = h)
      BY <1>2, <1>6, <2>2
    <3>3. ~Context(h)'.ready /\ Unstamped(Context(h)')
      <4>1. /\ ~Context(h)'.ready => Unstamped(Context(h)')
            /\ Context(h)'.ready =>
                 \E i \in DOMAIN contexts' :
                   contexts'[i] = Context(h)' /\ contexts'[i].ready /\ contexts'[i].node = h
        BY <1>0, <1>5 DEF Owned, Unstamped
      <4> QED BY <3>2, <4>1
    <3> QED BY <2>2, <3>1, <3>3 DEF Alike
  <2> QED BY <2>1, <2>2
<1>8. ASSUME NEW n \in Nodes, n # h PROVE Alike(Context(n), Context(n)')
  <2>0. /\ \A i \in DOMAIN contexts :
             contexts[i].ready /\ contexts[i].node = n => Context(n) = contexts[i]
        /\ ~Context(n).ready => Unstamped(Context(n))
        /\ Context(n).ready =>
             \E i \in DOMAIN contexts :
               contexts[i] = Context(n) /\ contexts[i].ready /\ contexts[i].node = n
        /\ \A i \in DOMAIN contexts' :
             contexts'[i].ready /\ contexts'[i].node = n => Context(n)' = contexts'[i]
        /\ ~Context(n)'.ready => Unstamped(Context(n)')
        /\ Context(n)'.ready =>
             \E i \in DOMAIN contexts' :
               contexts'[i] = Context(n)' /\ contexts'[i].ready /\ contexts'[i].node = n
    BY <1>5 DEF Owned, Unstamped
  <2>1. CASE Context(n).ready
    <3>1. PICK i \in DOMAIN contexts :
            contexts[i] = Context(n) /\ contexts[i].ready /\ contexts[i].node = n
      BY <2>0, <2>1
    <3>2. i # k
      BY <1>1, <1>8, <3>1
    <3>3. contexts'[i] = contexts[i] /\ i \in DOMAIN contexts'
      BY <1>6, <3>2
    <3>4. Context(n)' = Context(n)
      BY <2>0, <3>1, <3>3
    <3> QED BY <3>4 DEF Alike
  <2>2. CASE ~Context(n).ready
    <3>1. \A i \in DOMAIN contexts : ~(contexts[i].ready /\ contexts[i].node = n)
      BY <2>0, <2>2
    <3>2. \A i \in DOMAIN contexts' : ~(contexts'[i].ready /\ contexts'[i].node = n)
      BY <1>4, <1>6, <1>8, <3>1
    <3>3. ~Context(n)'.ready
      BY <2>0, <3>2
    <3> QED BY <2>0, <2>2, <3>3 DEF Alike
  <2> QED BY <2>1, <2>2
<1> QED BY <1>7, <1>8 DEF r, c

(* Time that passes makes the stamps and the transfer older alike.         *)
LEMMA WaitFollows ==
  ASSUME BusTyped, NEW d \in Nat, clock' = (clock + d) % ClockMod,
         NEW s \in Sender, NEW c \in ContextSet, NEW q \in 0 .. HalfTurn + 1, Following(s, c, q),
         NEW e, e = IF s.at = Idle THEN s ELSE [s EXCEPT !.age = UpTo(TidTimeout + 1, @ + d)],
         NEW u, u = UpTo(HalfTurn + 1, q + d)
  PROVE  Following(e, c, u)'
<1>0. /\ ClockMod \in Nat \ {0} /\ TidTimeout \in Nat /\ TidTimeout < ClockMod /\ s.age \in Nat
      /\ HalfTurn \in Nat /\ HalfTurn < ClockMod /\ clock \in 0 .. ClockMod - 1
  <2>1. ClockMod \in Nat \ {0} /\ TidTimeout \in Nat /\ 2 * TidTimeout < ClockMod
    BY BusAssumption
  <2>2. HalfTurn < ClockMod
    BY <2>1 DEF HalfTurn
  <2> QED BY <2>1, <2>2, HalfTurnTyped DEF BusTyped, Instants, Sender
<1>1. ASSUME NEW x \in Instants, NEW a \in Nat, Since(x) + d <= a, a < ClockMod
      PROVE  Since(x)' = Since(x) + d
  <2>1. (clock - x) % ClockMod \in Nat /\ x \in 0 .. ClockMod - 1
    BY SinceNow DEF Since, Instants
  <2>2. ((clock - x) % ClockMod) + d < ClockMod
    BY <1>0, <1>1, <2>1 DEF Since
  <2> QED BY <1>0, <2>1, <2>2, SinceGrows DEF Since
<1>2. c.prev \in Instants /\ c.this \in Instants
  BY DEF ContextSet
<1>3. Since(c.prev) \in Nat /\ Since(c.this) \in Nat
  BY <1>2, SinceNow
<1>4. ASSUME u <= HalfTurn PROVE Since(c.prev)' <= u /\ Since(c.this)' <= u
  <2>1. u = q + d /\ q <= HalfTurn /\ q \in Nat
    BY <1>0, <1>4 DEF UpTo
  <2>2. Since(c.prev) <= q /\ Since(c.this) <= q
    BY <2>1 DEF Following, StampsIn
  <2> DEFINE x == Since(c.prev)
             y == Since(c.this)
  <2>3. x \in Nat /\ y \in Nat /\ x <= q /\ y <= q
    BY <1>3, <2>2
  <2> HIDE DEF x, y
  <2>4. x + d <= HalfTurn /\ y + d <= HalfTurn /\ x + d <= u /\ y + d <= u
    BY <1>0, <1>4, <2>1, <2>3
  <2>5. Since(c.prev)' = x + d /\ Since(c.this)' = y + d
    BY <1>0, <1>1, <1>2, <2>4 DEF x, y
  <2> QED BY <2>4, <2>5
<1>5. StampsIn(c, u)'
  BY <1>4 DEF StampsIn, HalfTurn
<1>6. e.at = s.at /\ e.tid = s.tid /\ e.undue = s.undue /\ e.due = s.due /\ e.node = s.node
      /\ e.length = s.length
  BY DEF Sender
<1>7. TidNear(e, c)'
  BY <1>6 DEF Following, TidNear, TidBehind, TidAhead
<1>8. ASSUME e.at # Idle, e.due, e.age <= TidTimeout PROVE GoesAlong(e, c)'
  <2>1. e.age = UpTo(TidTimeout + 1, s.age + d)
    BY <1>6, <1>8 DEF Sender
  <2>2. e.age = s.age + d /\ s.age <= TidTimeout /\ s.age + d <= TidTimeout
    BY <1>0, <1>8, <2>1 DEF UpTo
  <2>3. GoesAlong(s, c)
    BY <1>6, <1>8, <2>2 DEF Following, DueGoesAlong
  <2>4. Since(c.this) = s.age
    BY <2>3 DEF GoesAlong
  <2>5. Since(c.this)' = e.age
    BY <1>0, <1>1, <1>2, <2>2, <2>4
  <2>6. Pieces(e) = Pieces(s)
    BY <1>6 DEF Pieces
  <2> QED BY <1>6, <2>3, <2>5, <2>6 DEF GoesAlong, TidAhead, Pieces
<1> QED BY <1>5, <1>7, <1>8 DEF Following, DueGoesAlong

(* What a node, its context and its last transfer have become.             *)
LEMMA FollowingNext ==
  ASSUME NEW n, NEW x, NEW y, NEW z, nodes'[n] = x, Context(n)' = y, quiet'[n] = z,
         Following(x, y, z)'
  PROVE  Following(nodes[n], Context(n), quiet[n])'
BY DEF Following, StampsIn, TidNear, TidBehind, TidAhead, DueGoesAlong, GoesAlong, Since, Pieces,
   HalfTurn

(* ... while the clock stays ...                                           *)
LEMMA FollowingNow ==
  ASSUME clock' = clock, NEW x, NEW y, NEW z, Following(x, y, z)
  PROVE  Following(x, y, z)'
BY DEF Following, StampsIn, TidNear, TidBehind, TidAhead, DueGoesAlong, GoesAlong, Since, Pieces,
   HalfTurn

(* Every node is followed by its context.                                  *)
AllFollow == \A n \in Nodes : Following(nodes[n], Context(n), quiet[n])

(* Nothing due was missed so far, and where there is a context for every   *)
(* receiver each is followed.                                              *)
FollowedInv == BusInv /\ ContextsKnown /\ ~missed /\ (EnoughContexts => AllFollow)

(* ... and whichever of two alike contexts it has.                         *)
LEMMA FollowingAgain ==
  ASSUME clock' = clock, NEW n \in Nodes, NEW x, NEW c, NEW z, Following(x, c, z),
         Alike(c, Context(n)'), nodes'[n] = x, quiet'[n] = z
  PROVE  Following(nodes[n], Context(n), quiet[n])'
<1>1. PICK y : y = Context(n)'
  OBVIOUS
<1>2. Following(x, y, z)
  BY <1>1, AlikeFollows
<1>3. Following(x, y, z)'
  BY <1>2, FollowingNow
<1> QED BY <1>1, <1>3, FollowingNext

(* There are as many contexts as ever.                                     *)
LEMMA EnoughStays ==
  ASSUME BusInv, BusInv', bus' = bus
  PROVE  EnoughContexts' = EnoughContexts
<1>0. Nodes' = Nodes /\ bus \in Buses /\ bus.contexts \in Nat
  BY BusAssumption DEF Nodes, BusInv, BusTyped
<1>1. contexts \in [1 .. bus.contexts -> ContextSet] /\ contexts' \in [1 .. bus.contexts -> ContextSet']
  BY <1>0 DEF BusInv, BusTyped
<1>2. Len(contexts) = bus.contexts
  <2>1. contexts \in Seq(ContextSet) /\ DOMAIN contexts = 1 .. bus.contexts
    BY <1>0, <1>1, SeqDef
  <2> QED BY <1>0, <2>1, LenProperties
<1>3. Len(contexts') = bus.contexts
  <2>1. contexts' \in Seq(ContextSet') /\ DOMAIN contexts' = 1 .. bus.contexts
    BY <1>0, <1>1, SeqDef
  <2> QED BY <1>0, <2>1, LenProperties
<1> QED BY <1>0, <1>2, <1>3 DEF EnoughContexts

(* What a node is typed to be.                                             *)
LEMMA NodeTyped ==
  ASSUME BusKnown, NEW n \in Nodes
  PROVE  /\ nodes[n] \in Sender /\ nodes[n].node = n /\ nodes[n].at < nodes[n].length
         /\ quiet[n] \in Nat /\ quiet[n] \in 0 .. HalfTurn + 1
         /\ Context(n) \in ContextSet /\ Len(Context(n).buf) <= MaxPieces
<1>1. Owned(n)
  BY EveryOwned DEF AllOwned
<1>2. quiet[n] \in 0 .. HalfTurn + 1
  BY DEF BusKnown, BusInv, BusTyped
<1> QED BY <1>1, <1>2, HalfTurnTyped DEF Owned, BusKnown, BusInv, BusTyped

(* A node that begins a transfer is where it was.                          *)
LEMMA BegunFollows ==
  ASSUME NEW s \in Sender, s.at = Idle, NEW c, NEW q, Following(s, c, q), NEW b \in Sender,
         b.at = Idle, b.tid = s.tid, b.undue = s.undue
  PROVE  Following(b, c, q)
BY DEF Following, TidNear, TidBehind, DueGoesAlong

(* A frame that is sent: of the transfers due none is missed.              *)
LEMMA TransmitClean ==
  ASSUME FollowedInv, BusInv', NEW n \in Nodes, NEW length \in bus.lengths, NEW fix \in bus.fixes,
         Transmit(n, length, fix)
  PROVE  FollowedInv'
<1> DEFINE s == IF nodes[n].at = Idle
                THEN [nodes[n] EXCEPT !.length = length, !.due = TRUE, !.age = 0]
                ELSE nodes[n]
           d == Expected(s)
           e == [s EXCEPT !.due = d]
           f == FrameOf(s)
           c == Context(n)
           last == s.at + 1 = s.length
           entire == last /\ d /\ s.length \in FixPieces .. MaxPieces
           q == IF last /\ d /\ s.length <= MaxPieces THEN s.age ELSE quiet[n]
<1>0. /\ BusInv /\ BusTyped /\ ContextsKnown /\ length \in Nat \ {0}
      /\ nodes \in [Nodes -> Sender] /\ quiet \in [Nodes -> 0 .. HalfTurn + 1]
  BY BusAssumption DEF FollowedInv, BusInv, BusTyped
<1>1. /\ bus' = bus /\ clock' = clock /\ FeedFrame(f, fix)
      /\ nodes' = [nodes EXCEPT ![n] = SentFrame(e)]
      /\ missed' = (entire /\ AddFrame(c, f).done # Pieces(s))
      /\ quiet' = IF last /\ d /\ s.length <= MaxPieces THEN [quiet EXCEPT ![n] = s.age] ELSE quiet
  BY DEF Transmit
<1>2. s \in Sender /\ s.node = n /\ s.at < s.length
  <2>1. nodes[n] \in Sender /\ nodes[n].node = n /\ nodes[n].at < nodes[n].length
    BY <1>0 DEF BusTyped
  <2> QED BY <1>0, <2>1, SenderTyped
<1>3. s.at = nodes[n].at /\ s.tid = nodes[n].tid /\ s.undue = nodes[n].undue
      /\ (s.at = Idle => s.age = 0) /\ (s.at # Idle => s = nodes[n])
  BY <1>0 DEF Sender
<1> HIDE DEF s
<1>4. f \in CanFrame /\ f.node = n /\ f.tid = s.tid
  BY <1>2, FrameTyped, FrameSays
<1>5. d \in BOOLEAN /\ (d => /\ s.due /\ s.age <= TidTimeout /\ clock # 0 /\ s.undue < TidMod - 1
                            /\ EnoughContexts /\ quiet[n] <= HalfTurn)
  BY <1>2 DEF Expected, EnoughContexts
<1>6. ContextsKnown'
  BY <1>0, <1>1, <1>4, KnownFed
<1>7. EnoughContexts' = EnoughContexts
  BY <1>0, <1>1, EnoughStays
<1>8. CASE ~EnoughContexts
  BY <1>1, <1>5, <1>6, <1>7, <1>8 DEF FollowedInv
<1>9. CASE EnoughContexts
  <2>0. BusKnown /\ BusKnown' /\ AllFollow /\ Nodes' = Nodes
    BY <1>0, <1>1, <1>6, <1>7, <1>9 DEF BusKnown, FollowedInv, Nodes
  <2>1. c \in ContextSet /\ Len(c.buf) <= MaxPieces /\ quiet[n] \in Nat
    BY <2>0, NodeTyped
  <2>2. Following(s, c, quiet[n])
    <3>1. Following(nodes[n], c, quiet[n]) /\ nodes[n] \in Sender
      BY <1>0, <2>0 DEF AllFollow
    <3> QED BY <1>2, <1>3, <3>1, BegunFollows
  <2>3. nodes'[n] = SentFrame(e) /\ quiet'[n] = q
    BY <1>0, <1>1
  <2>4. Following(SentFrame(e), AddFrame(c, f).context, q)
        /\ (entire => AddFrame(c, f).done = Pieces(s))
    <3>1. CASE d
      <4>1. e = s
        BY <1>2, <1>5, <3>1 DEF Sender
      <4> HIDE DEF e
      <4> QED BY <1>0, <1>2, <1>3, <1>5, <2>1, <2>2, <3>1, <4>1, DueFollows
    <3>2. CASE ~d
      <4>1. Outcome(c, f, AddFrame(c, f).context)
        BY <1>0, <1>4, <2>1, FrameOutcome
      <4>2. TidNear(s, c) /\ StampsIn(c, quiet[n])
        BY <2>2 DEF Following
      <4>3. e = [s EXCEPT !.due = FALSE] /\ q = quiet[n]
        BY <1>5, <3>2
      <4> HIDE DEF e, f, c, q, d
      <4> QED BY <1>0, <1>2, <1>4, <2>1, <3>2, <4>1, <4>2, <4>3, NotDueFollows
    <3> QED BY <3>1, <3>2
  <2> HIDE DEF e, f, c, q, d
  <2>5. ~missed'
    BY <1>1, <2>4
  <2>6. /\ Alike(AddFrame(Context(n), f).context, Context(n)')
        /\ \A m \in Nodes : m # n => Alike(Context(m), Context(m)')
    BY <1>1, <1>4, <2>0, ContextsFed
  <2>7. ASSUME NEW m \in Nodes
        PROVE  Following(nodes[m], Context(m), quiet[m])'
    <3>1. CASE m = n
      BY <1>1, <2>3, <2>4, <2>6, <3>1, FollowingAgain DEF c
    <3>2. CASE m # n
      <4>1. nodes'[m] = nodes[m] /\ quiet'[m] = quiet[m]
        BY <1>0, <1>1, <3>2
      <4>2. Following(nodes[m], Context(m), quiet[m])
        BY <2>0 DEF AllFollow
      <4> QED BY <1>1, <2>6, <3>2, <4>1, <4>2, FollowingAgain
    <3> QED BY <3>1, <3>2
  <2> QED BY <1>6, <2>0, <2>5, <2>7 DEF FollowedInv, AllFollow
<1> QED BY <1>8, <1>9

(* A frame that is lost: the transfer is not due any more.                 *)
LEMMA LoseClean ==
  ASSUME FollowedInv, BusInv', NEW n \in Nodes, NEW length \in bus.lengths, LoseFrame(n, length)
  PROVE  FollowedInv'
<1> DEFINE s == IF nodes[n].at = Idle THEN [nodes[n] EXCEPT !.length = length, !.age = 0]
                ELSE nodes[n]
           e == [s EXCEPT !.due = FALSE]
<1>0. /\ BusInv /\ BusTyped /\ ContextsKnown /\ length \in Nat \ {0}
      /\ nodes \in [Nodes -> Sender] /\ nodes[n] \in Sender /\ nodes[n].node = n
      /\ nodes[n].at < nodes[n].length
  BY BusAssumption DEF FollowedInv, BusInv, BusTyped
<1>1. /\ bus' = bus /\ clock' = clock /\ contexts' = contexts /\ quiet' = quiet /\ missed' = missed
      /\ nodes' = [nodes EXCEPT ![n] = SentFrame(e)]
  BY DEF LoseFrame
<1>2. s \in Sender /\ s.at < s.length /\ s.at = nodes[n].at /\ s.tid = nodes[n].tid
      /\ s.undue = nodes[n].undue /\ (s.at # Idle => s = nodes[n])
  <2>1. CASE nodes[n].at = Idle
    <3> DEFINE b == [nodes[n] EXCEPT !.length = length, !.age = 0]
    <3>1. s = b
      BY <2>1
    <3>2. b \in Sender /\ b.at = nodes[n].at /\ b.length = length /\ b.tid = nodes[n].tid
          /\ b.undue = nodes[n].undue
      BY <1>0 DEF Sender
    <3> HIDE DEF b, s
    <3>3. b.at < b.length
      BY <1>0, <2>1, <3>2 DEF Idle
    <3> QED BY <2>1, <3>1, <3>2, <3>3
  <2>2. CASE nodes[n].at # Idle
    BY <1>0, <2>2
  <2> QED BY <2>1, <2>2
<1> HIDE DEF s
<1>3. ContextsKnown'
  BY <1>0, <1>1 DEF ContextsKnown, Unstamped, Nodes
<1>4. EnoughContexts' = EnoughContexts
  BY <1>0, <1>1, EnoughStays
<1>5. CASE ~EnoughContexts
  BY <1>1, <1>3, <1>4, <1>5 DEF FollowedInv
<1>6. CASE EnoughContexts
  <2>0. BusKnown /\ BusKnown' /\ AllFollow /\ Nodes' = Nodes
    BY <1>0, <1>1, <1>3, <1>4, <1>6 DEF BusKnown, FollowedInv, Nodes
  <2> DEFINE c == Context(n)
             f == FrameOf(s)
  <2>1. c \in ContextSet /\ Len(c.buf) <= MaxPieces /\ quiet[n] \in Nat
    BY <2>0, NodeTyped
  <2>2. Following(nodes[n], c, quiet[n])
    BY <2>0 DEF AllFollow
  <2>3. Following(s, c, quiet[n])
    BY <1>0, <1>2, <2>2, BegunFollows
  <2>4. f \in CanFrame /\ f.tid = s.tid
    BY <1>2, FrameTyped, FrameSays
  <2>5. Outcome(c, f, c)
    BY <2>1 DEF Outcome
  <2>6. TidNear(s, c) /\ StampsIn(c, quiet[n])
    BY <2>3 DEF Following
  <2>7. Following(SentFrame(e), c, quiet[n])
    <3> HIDE DEF c, f
    <3> QED BY <1>0, <1>2, <2>1, <2>4, <2>5, <2>6, NotDueFollows
  <2> HIDE DEF e, f
  <2>8. ASSUME NEW m \in Nodes
        PROVE  Following(nodes[m], Context(m), quiet[m])'
    <3>1. Alike(Context(m), Context(m)')
      BY <1>1, <2>0, ContextsStay
    <3>2. CASE m = n
      <4>1. nodes'[m] = SentFrame(e) /\ quiet'[m] = quiet[n]
        BY <1>0, <1>1, <3>2
      <4> QED BY <1>1, <2>7, <3>1, <3>2, <4>1, FollowingAgain
    <3>3. CASE m # n
      <4>1. nodes'[m] = nodes[m] /\ quiet'[m] = quiet[m]
        BY <1>0, <1>1, <3>3
      <4>2. Following(nodes[m], Context(m), quiet[m])
        BY <2>0 DEF AllFollow
      <4> QED BY <1>1, <3>1, <4>1, <4>2, FollowingAgain
    <3> QED BY <3>2, <3>3
  <2> QED BY <1>1, <1>3, <2>0, <2>8 DEF FollowedInv, AllFollow
<1> QED BY <1>5, <1>6

(* A frame that comes once more.                                           *)
LEMMA RepeatClean ==
  ASSUME FollowedInv, BusInv', NEW n \in Nodes, NEW fix \in bus.fixes, Repeat(n, fix)
  PROVE  FollowedInv'
<1> DEFINE s == nodes[n]
           b == [s EXCEPT !.at = @ - 1]
           f == FrameOf(b)
           c == Context(n)
           r == AddFrame(c, f).context
<1>0. /\ BusInv /\ BusTyped /\ ContextsKnown
      /\ s \in Sender /\ s.node = n /\ s.at < s.length /\ s.at # Idle
  BY DEF FollowedInv, BusInv, BusTyped, Repeat
<1>1. /\ bus' = bus /\ clock' = clock /\ FeedFrame(f, fix) /\ nodes' = nodes /\ quiet' = quiet
      /\ missed' = missed
  BY DEF Repeat
<1>2. f \in CanFrame /\ f.node = n
  <2> HIDE DEF s
  <2>1. b \in Sender /\ b.at < b.length /\ b.node = n
    BY <1>0 DEF Sender, Idle
  <2> HIDE DEF b
  <2> QED BY <2>1, FrameTyped
<1>3. ContextsKnown'
  BY <1>0, <1>1, <1>2, KnownFed
<1>4. EnoughContexts' = EnoughContexts
  BY <1>0, <1>1, EnoughStays
<1>5. CASE ~EnoughContexts
  BY <1>1, <1>3, <1>4, <1>5 DEF FollowedInv
<1>6. CASE EnoughContexts
  <2>0. BusKnown /\ BusKnown' /\ AllFollow /\ Nodes' = Nodes
    BY <1>0, <1>1, <1>3, <1>4, <1>6 DEF BusKnown, FollowedInv, Nodes
  <2>1. c \in ContextSet /\ Len(c.buf) <= MaxPieces /\ quiet[n] \in Nat
    BY <2>0, NodeTyped
  <2>2. Following(s, c, quiet[n])
    BY <2>0 DEF AllFollow
  <2>3. Following(s, r, quiet[n])
    <3> HIDE DEF s, c
    <3> QED BY <1>0, <2>1, <2>2, RepeatFollows
  <2> HIDE DEF f
  <2>4. /\ Alike(AddFrame(Context(n), f).context, Context(n)')
        /\ \A m \in Nodes : m # n => Alike(Context(m), Context(m)')
    BY <1>1, <1>2, <2>0, ContextsFed
  <2>5. ASSUME NEW m \in Nodes
        PROVE  Following(nodes[m], Context(m), quiet[m])'
    <3>1. CASE m = n
      BY <1>1, <2>3, <2>4, <3>1, FollowingAgain
    <3>2. CASE m # n
      <4>1. nodes'[m] = nodes[m] /\ quiet'[m] = quiet[m]
        BY <1>1
      <4>2. Following(nodes[m], Context(m), quiet[m])
        BY <2>0 DEF AllFollow
      <4> QED BY <1>1, <2>4, <3>2, <4>1, <4>2, FollowingAgain
    <3> QED BY <3>1, <3>2
  <2> QED BY <1>1, <1>3, <2>0, <2>5 DEF FollowedInv, AllFollow
<1> QED BY <1>5, <1>6

(* Time that passes.                                                       *)
LEMMA WaitClean ==
  ASSUME FollowedInv, BusInv', NEW d \in bus.delays, Wait(d)
  PROVE  FollowedInv'
<1>0. BusInv /\ BusTyped /\ ContextsKnown /\ d \in Nat
  BY BusAssumption DEF FollowedInv, BusInv, BusTyped
<1>1. /\ bus' = bus /\ clock' = (clock + d) % ClockMod /\ contexts' = contexts /\ missed' = missed
      /\ quiet' = [n \in Nodes |-> UpTo(HalfTurn + 1, quiet[n] + d)]
      /\ nodes' = [n \in Nodes |-> IF nodes[n].at = Idle THEN nodes[n]
                                   ELSE [nodes[n] EXCEPT !.age = UpTo(TidTimeout + 1, @ + d)]]
  BY DEF Wait
<1>2. ContextsKnown'
  BY <1>0, <1>1 DEF ContextsKnown, Unstamped, Nodes
<1>3. EnoughContexts' = EnoughContexts
  BY <1>0, <1>1, EnoughStays
<1>4. CASE ~EnoughContexts
  BY <1>1, <1>2, <1>3, <1>4 DEF FollowedInv
<1>5. CASE EnoughContexts
  <2>0. BusKnown /\ BusKnown' /\ AllFollow /\ Nodes' = Nodes
    BY <1>0, <1>1, <1>2, <1>3, <1>5 DEF BusKnown, FollowedInv, Nodes
  <2>1. ASSUME NEW n \in Nodes
        PROVE  Following(nodes[n], Context(n), quiet[n])'
    <3>1. PICK x : x = nodes'[n]
      OBVIOUS
    <3>2. PICK y : y = Context(n)'
      OBVIOUS
    <3>3. PICK z : z = quiet'[n]
      OBVIOUS
    <3> DEFINE s == nodes[n]
               q == quiet[n]
    <3>4. s \in Sender /\ q \in 0 .. HalfTurn + 1 /\ Context(n) \in ContextSet
      BY <2>0, NodeTyped
    <3>5. Following(s, y, q)
      <4>1. Alike(Context(n), y)
        BY <1>1, <2>0, <3>2, ContextsStay
      <4>2. Following(s, Context(n), q)
        BY <2>0 DEF AllFollow
      <4> QED BY <4>1, <4>2, AlikeFollows
    <3>6. y \in ContextSet
      <4>1. AllOwned' /\ ContextSet' = ContextSet
        BY <2>0, EveryOwnedNext DEF ContextSet, PieceSet
      <4>2. Owned(n)'
        BY <2>0, <4>1 DEF AllOwned
      <4> QED BY <3>2, <4>1, <4>2 DEF Owned
    <3>7. x = IF s.at = Idle THEN s ELSE [s EXCEPT !.age = UpTo(TidTimeout + 1, @ + d)]
      BY <1>1, <3>1
    <3>8. z = UpTo(HalfTurn + 1, q + d)
      BY <1>1, <3>3
    <3> HIDE DEF s, q
    <3>9. Following(x, y, z)'
      BY <1>0, <1>1, <3>4, <3>5, <3>6, <3>7, <3>8, WaitFollows
    <3> QED BY <3>1, <3>2, <3>3, <3>9, FollowingNext
  <2> QED BY <1>1, <1>2, <2>0, <2>1 DEF FollowedInv, AllFollow
<1> QED BY <1>4, <1>5

(* No context has stamps when the parser starts.                           *)
LEMMA CleanBegins ==
  ASSUME BusInit
  PROVE  FollowedInv
<1>1. BusInv
  BY BusBegins
<1>2. \A i \in DOMAIN contexts : ~contexts[i].ready /\ Unstamped(contexts[i])
  BY DEF BusInit, Fresh, Unstamped
<1>3. ContextsKnown
  BY <1>2 DEF ContextsKnown
<1>4. ASSUME EnoughContexts, NEW n \in Nodes PROVE Following(nodes[n], Context(n), quiet[n])
  <2>1. Owned(n)
    BY <1>1, <1>3, <1>4, EveryOwned DEF BusKnown, AllOwned
  <2>2. ~Context(n).ready /\ Context(n).prev = 0 /\ Context(n).this = 0
    BY <1>2, <2>1 DEF Owned, Unstamped, Never
  <2>3. nodes[n].at = Idle /\ quiet[n] = UpTo(HalfTurn + 1, clock)
    BY DEF BusInit
  <2>4. clock \in 0 .. ClockMod - 1 /\ ClockMod \in Nat \ {0} /\ HalfTurn \in Nat
    BY <1>1, BusAssumption, HalfTurnTyped DEF BusInv, BusTyped, Instants
  <2>5. Since(0) = clock
    BY <2>4, ModOfDifference DEF Since
  <2>6. quiet[n] <= HalfTurn => clock <= quiet[n]
    BY <2>3, <2>4 DEF UpTo
  <2> QED BY <2>2, <2>3, <2>5, <2>6 DEF Following, StampsIn, TidNear, DueGoesAlong
<1> QED BY <1>1, <1>3, <1>4 DEF FollowedInv, AllFollow, BusInit

(* Every step on the bus.                                                  *)
LEMMA CleanStepKeeps ==
  ASSUME FollowedInv, [BusNext]_busVars
  PROVE  FollowedInv'
<1>1. BusInv'
  BY BusStepKeeps DEF FollowedInv
<1>2. ASSUME UNCHANGED busVars PROVE FollowedInv'
  <2>1. /\ bus' = bus /\ clock' = clock /\ contexts' = contexts /\ quiet' = quiet /\ nodes' = nodes
        /\ missed' = missed
    BY <1>2 DEF busVars
  <2>2. ContextsKnown' /\ EnoughContexts' = EnoughContexts /\ Nodes' = Nodes
    BY <2>1 DEF FollowedInv, ContextsKnown, Unstamped, Nodes, EnoughContexts
  <2>3. ASSUME EnoughContexts, NEW n \in Nodes
        PROVE  Following(nodes[n], Context(n), quiet[n])'
    <3>1. BusKnown /\ BusKnown'
      BY <1>1, <2>2, <2>3 DEF FollowedInv, BusKnown
    <3>2. Alike(Context(n), Context(n)')
      BY <2>1, <2>3, <3>1, ContextsStay
    <3>3. Following(nodes[n], Context(n), quiet[n])
      BY <2>3 DEF FollowedInv, AllFollow
    <3>4. nodes'[n] = nodes[n] /\ quiet'[n] = quiet[n]
      BY <2>1
    <3> QED BY <2>1, <2>3, <3>2, <3>3, <3>4, FollowingAgain
  <2> QED BY <1>1, <2>1, <2>2, <2>3 DEF FollowedInv, AllFollow
<1>3. FollowedInv'
  BY <1>1, <1>2, TransmitClean, LoseClean, RepeatClean, WaitClean DEF BusNext
<1> QED BY <1>3

(* parser.rs:300-382 of DroneCAN: a transfer that is due, with all its     *)
(* frames in time (see Expected), is decoded, for any number of receivers  *)
(* and contexts, any lengths, limits and widths, and whatever was lost or  *)
(* repeated before it.                                                     *)
THEOREM CleanTransfersAreTaken == InputsSpec => []CleanTransferTaken
<1>1. InputsInit => FollowedInv
  BY CleanBegins DEF InputsInit
<1>2. FollowedInv /\ [InputsNext]_<<lineVars, busVars, source>> => FollowedInv'
  <2> SUFFICES ASSUME FollowedInv, [InputsNext]_<<lineVars, busVars, source>> PROVE FollowedInv'
    OBVIOUS
  <2>1. [BusNext]_busVars
    BY DEF InputsNext
  <2> QED BY <2>1, CleanStepKeeps
<1>3. FollowedInv => CleanTransferTaken
  BY DEF FollowedInv, CleanTransferTaken
<1> QED BY <1>1, <1>2, <1>3, PTL DEF InputsSpec

-----------------------------------------------------------------------------
(* The line.  The parts of the MSP parser.                                 *)
MspGps == [fix_type : Nat, lat : Nat, heading : Nat, armed : Nat]

MspTaken == {<<>>} \cup (Nat \X Seq(Nat))

MspParser ==
  [buf : Seq(Byte), in_message : BOOLEAN, result : Results, taken : MspTaken, gps : MspGps]

(* The same of numbers and of bytes.                                       *)
LEMMA JoinedNats ==
  ASSUME NEW s \in Seq(Nat), NEW t \in Seq(Nat)
  PROVE  /\ s \o t \in Seq(Nat) /\ Len(s \o t) = Len(s) + Len(t)
         /\ \A i \in 1 .. Len(s) : (s \o t)[i] = s[i]
         /\ \A i \in 1 .. Len(t) : (s \o t)[Len(s) + i] = t[i]
BY JoinedAt

(* ... and bytes.                                                          *)
LEMMA JoinedBytes ==
  ASSUME NEW s \in Seq(Byte), NEW t \in Seq(Byte)
  PROVE  /\ s \o t \in Seq(Byte) /\ Len(s \o t) = Len(s) + Len(t)
         /\ \A i \in 1 .. Len(s) : (s \o t)[i] = s[i]
         /\ \A i \in 1 .. Len(t) : (s \o t)[Len(s) + i] = t[i]
BY JoinedAt

(* The values of bytes, and the bytes of values.                           *)
LEMMA ValuesTyped ==
  ASSUME NEW s \in Seq(Byte)
  PROVE  /\ Values(s) \in Seq(Nat) /\ Len(Values(s)) = Len(s)
         /\ \A i \in 1 .. Len(s) : Values(s)[i] = s[i].v
<1>1. Len(s) \in Nat /\ DOMAIN s = 1 .. Len(s) /\ \A i \in 1 .. Len(s) : s[i] \in Byte
  BY LenProperties, ElementOfSeq
<1>2. Values(s) \in [1 .. Len(s) -> Nat] /\ \A i \in 1 .. Len(s) : Values(s)[i] = s[i].v
  BY <1>1 DEF Values, Byte
<1> QED BY <1>1, <1>2, FunctionIsSeq

(* ... one byte for each.                                                  *)
LEMMA PlainsTyped ==
  ASSUME NEW vs \in Seq(Nat)
  PROVE  /\ Plains(vs) \in Seq(Byte) /\ Len(Plains(vs)) = Len(vs)
         /\ \A i \in 1 .. Len(vs) : Plains(vs)[i] = Plain(vs[i])
<1>1. Len(vs) \in Nat /\ DOMAIN vs = 1 .. Len(vs) /\ \A i \in 1 .. Len(vs) : vs[i] \in Nat
  BY LenProperties, ElementOfSeq
<1>2. ASSUME NEW i \in 1 .. Len(vs) PROVE Plain(vs[i]) \in Byte
  BY <1>1, EmptySeq DEF Plain, Byte
<1>3. /\ Plains(vs) \in [1 .. Len(vs) -> Byte]
      /\ \A i \in 1 .. Len(vs) : Plains(vs)[i] = Plain(vs[i])
  BY <1>1, <1>2 DEF Plains
<1> QED BY <1>1, <1>3, FunctionIsSeq

(* The bytes of an MSP frame, one by one.                                  *)
LEMMA MspBytesShape ==
  ASSUME NEW m \in MspFrame
  PROVE  LET b == MspBytes(m)
             n == Len(m.payload)
         IN  /\ n \in Nat /\ b \in Seq(Byte) /\ Len(b) = 6 + n
             /\ b[1].v = Dollar /\ b[2].v = LetterM /\ b[3].v = Arrow /\ b[4].v = n
             /\ b[5].v = m.type
             /\ \A i \in 1 .. n : b[5 + i].v = m.payload[i]
             /\ b[6 + n] = Check(m.check, m.payload, 1)
             /\ \A i \in 1 .. 5 + n : b[i].half = 0
<1> DEFINE n == Len(m.payload)
           head == <<Dollar, LetterM, Arrow, n, m.type>>
           vs == head \o m.payload
           last == <<Check(m.check, m.payload, 1)>>
           b == Plains(vs) \o last
<1>1. n \in Nat /\ m.payload \in Seq(Nat) /\ m.type \in Nat /\ m.check \in Nat
  BY LenProperties DEF MspFrame
<1>2. Len(m.payload) = n
  OBVIOUS
<1>3. last \in Seq(Byte) /\ Len(last) = 1 /\ last[1] = Check(m.check, m.payload, 1)
  BY <1>1 DEF Check, Byte
<1> HIDE DEF n, last
<1>4. head \in Seq(Nat) /\ Len(head) = 5 /\ head[1] = Dollar /\ head[2] = LetterM
      /\ head[3] = Arrow /\ head[4] = n /\ head[5] = m.type
  BY <1>1, MspAssumption
<1> HIDE DEF head
<1>5. /\ vs \in Seq(Nat) /\ Len(vs) = 5 + n
      /\ \A i \in 1 .. 5 : vs[i] = head[i]
      /\ \A i \in 1 .. n : vs[5 + i] = m.payload[i]
  <2>1. m.payload \in Seq(Nat)
    BY <1>1
  <2>2. /\ vs \in Seq(Nat) /\ Len(vs) = Len(head) + Len(m.payload)
        /\ \A i \in 1 .. Len(head) : vs[i] = head[i]
        /\ \A i \in 1 .. Len(m.payload) : vs[Len(head) + i] = m.payload[i]
    BY <1>4, <2>1, JoinedNats, Zenon
  <2> HIDE DEF vs
  <2> QED BY <1>2, <1>4, <2>2
<1> HIDE DEF vs
<1>6. /\ Plains(vs) \in Seq(Byte) /\ Len(Plains(vs)) = 5 + n
      /\ \A i \in 1 .. 5 + n : Plains(vs)[i].v = vs[i] /\ Plains(vs)[i].half = 0
  <2>1. /\ Plains(vs) \in Seq(Byte) /\ Len(Plains(vs)) = Len(vs)
        /\ \A i \in 1 .. Len(vs) : Plains(vs)[i] = Plain(vs[i])
    BY <1>5, PlainsTyped
  <2>2. \A i \in 1 .. Len(vs) : Plain(vs[i]).v = vs[i] /\ Plain(vs[i]).half = 0
    BY DEF Plain
  <2> QED BY <1>5, <2>1, <2>2
<1>7. /\ b \in Seq(Byte) /\ Len(b) = (5 + n) + 1
      /\ \A i \in 1 .. 5 + n : b[i] = Plains(vs)[i]
      /\ \A i \in 1 .. 1 : b[(5 + n) + i] = last[i]
  <2>1. /\ b \in Seq(Byte) /\ Len(b) = Len(Plains(vs)) + Len(last)
        /\ \A i \in 1 .. Len(Plains(vs)) : b[i] = Plains(vs)[i]
        /\ \A i \in 1 .. Len(last) : b[Len(Plains(vs)) + i] = last[i]
    BY <1>3, <1>6, JoinedBytes, Zenon
  <2> HIDE DEF b
  <2> QED BY <1>3, <1>6, <2>1
<1>8. b = MspBytes(m)
  BY DEF MspBytes, vs, last, head, n
<1> HIDE DEF b
<1>9. \A i \in 1 .. 5 : i \in 1 .. 5 + n
  BY <1>1
<1>10. \A i \in 1 .. 5 : b[i].v = head[i]
  BY <1>5, <1>6, <1>7, <1>9
<1>11. ASSUME NEW i \in 1 .. n PROVE b[5 + i].v = m.payload[i]
  <2>1. 5 + i \in 1 .. 5 + n
    BY <1>1
  <2> QED BY <1>5, <1>6, <1>7, <2>1
<1>12. (5 + n) + 1 = 6 + n /\ b[6 + n] = last[1]
  <2>1. (5 + n) + 1 = 6 + n
    BY <1>1
  <2> QED BY <1>7, <2>1
<1>13. b[1].v = Dollar /\ b[2].v = LetterM /\ b[3].v = Arrow /\ b[4].v = n /\ b[5].v = m.type
  BY <1>4, <1>10
<1>14. b \in Seq(Byte) /\ Len(b) = 6 + n /\ b[6 + n] = Check(m.check, m.payload, 1)
  BY <1>3, <1>7, <1>12
<1>15. \A i \in 1 .. 5 + n : b[i].half = 0
  BY <1>6, <1>7
<1> QED BY <1>1, <1>8, <1>11, <1>13, <1>14, <1>15 DEF n

(* A frame that is whole in the buffer is parsed.                          *)
LEMMA ParsesWhole ==
  ASSUME NEW p \in MspParser, NEW m \in MspFrame
  PROVE  ParseMsp(p, MspBytes(m)).result = "Ok" /\ ParseMsp(p, MspBytes(m)).taken = MspMeans(m)
<1> DEFINE b == MspBytes(m)
           n == Len(m.payload)
           data == Values(SubSeq(b, 6, Len(b) - 1))
           first == Values(SubSeq(b, 1, 3))
<1>1. /\ n \in Nat /\ b \in Seq(Byte) /\ Len(b) = 6 + n
      /\ b[1].v = Dollar /\ b[2].v = LetterM /\ b[3].v = Arrow /\ b[5].v = m.type
      /\ \A i \in 1 .. n : b[5 + i].v = m.payload[i]
      /\ b[6 + n] = Check(m.check, m.payload, 1)
  BY MspBytesShape
<1> HIDE DEF b
<1>2. Len(b) - 1 = 5 + n /\ 5 + n <= Len(b) /\ 0 + 3 <= Len(b)
  BY <1>1
<1>3. data = m.payload
  <2> DEFINE s == SubSeq(b, 5 + 1, 5 + n)
  <2>1. s \in Seq(Byte) /\ Len(s) = n /\ \A i \in 1 .. n : s[i] = b[5 + i]
    BY <1>1, <1>2, PartAt
  <2>2. s = SubSeq(b, 6, Len(b) - 1)
    BY <1>2
  <2> HIDE DEF s
  <2>3. Values(s) \in Seq(Nat) /\ Len(Values(s)) = n /\ \A i \in 1 .. n : Values(s)[i] = s[i].v
    BY <2>1, ValuesTyped
  <2>4. \A i \in 1 .. n : Values(s)[i] = m.payload[i]
    BY <1>1, <2>1, <2>3
  <2>5. m.payload \in Seq(Nat) /\ Len(m.payload) = n
    BY DEF MspFrame
  <2>6. Values(s) = m.payload
    <3> HIDE DEF n
    <3> QED BY <2>3, <2>4, <2>5, SeqEqual
  <2> QED BY <2>2, <2>6
<1>4. first = <<Dollar, LetterM, Arrow>>
  <2> DEFINE s == SubSeq(b, 0 + 1, 0 + 3)
             t == <<Dollar, LetterM, Arrow>>
  <2>1. s \in Seq(Byte) /\ Len(s) = 3 /\ \A i \in 1 .. 3 : s[i] = b[0 + i]
    BY <1>1, <1>2, PartAt
  <2>2. s = SubSeq(b, 1, 3)
    OBVIOUS
  <2> HIDE DEF s
  <2>3. Values(s) \in Seq(Nat) /\ Len(Values(s)) = 3 /\ \A i \in 1 .. 3 : Values(s)[i] = s[i].v
    BY <2>1, ValuesTyped
  <2>4. t \in Seq(Nat) /\ Len(t) = 3 /\ t[1] = Dollar /\ t[2] = LetterM /\ t[3] = Arrow
    BY MspAssumption
  <2> HIDE DEF t
  <2>5. \A i \in 1 .. 3 : Values(s)[i] = t[i]
    BY <1>1, <2>1, <2>3, <2>4
  <2>6. Values(s) = t
    BY <2>3, <2>4, <2>5, SeqEqual
  <2> QED BY <2>2, <2>6 DEF t
<1>5. Matches(b[Len(b)], data, 1)
  BY <1>1, <1>3 DEF Matches, Check
<1>6. ParseMsp(p, b) = [p EXCEPT !.result = "Ok", !.taken = <<b[5].v, data>>,
                                 !.gps = Snapshot(@, b[5].v, data)]
  <2> HIDE DEF data, first
  <2> QED BY <1>4, <1>5 DEF ParseMsp, data, first
<1> HIDE DEF data
<1> DEFINE taken == <<b[5].v, data>>
           gps == Snapshot(p.gps, b[5].v, data)
<1>7. ParseMsp(p, b) = [p EXCEPT !.result = "Ok", !.taken = taken, !.gps = gps]
  BY <1>6
<1> HIDE DEF taken, gps
<1>8. ParseMsp(p, b).result = "Ok" /\ ParseMsp(p, b).taken = taken
  BY <1>7 DEF MspParser
<1>9. taken = MspMeans(m)
  BY <1>1, <1>3 DEF taken, MspMeans
<1> QED BY <1>8, <1>9 DEF b

(* A value that is read leaves an MSP parser's parts in their ranges.      *)
MspKept(p) == p \in MspParser /\ Len(p.buf) <= MspBuffer

(* A message that is read leaves the parts as they are typed.              *)
LEMMA ParseMspKeeps ==
  ASSUME NEW p \in MspParser, NEW b \in Seq(Byte), Len(b) >= 6
  PROVE  /\ ParseMsp(p, b) \in MspParser
         /\ ParseMsp(p, b).buf = p.buf /\ ParseMsp(p, b).in_message = p.in_message
<1> DEFINE data == Values(SubSeq(b, 6, Len(b) - 1))
<1>1. data \in Seq(Nat)
  <2>1. Len(b) \in Nat
    BY LenProperties
  <2>2. 5 \in Nat /\ Len(b) - 6 \in Nat /\ 5 + (Len(b) - 6) <= Len(b)
        /\ 5 + 1 = 6 /\ 5 + (Len(b) - 6) = Len(b) - 1
    BY <2>1
  <2>3. SubSeq(b, 5 + 1, 5 + (Len(b) - 6)) \in Seq(Byte)
    BY <2>2, PartAt
  <2>4. SubSeq(b, 6, Len(b) - 1) \in Seq(Byte)
    BY <2>2, <2>3
  <2> QED BY <2>4, ValuesTyped
<1> HIDE DEF data
<1>2. ASSUME NEW g \in MspGps, NEW type
      PROVE  Snapshot(g, type, data) \in MspGps
  <2>1. Len(data) \in Nat /\ \A i \in 1 .. Len(data) : data[i] \in Nat
    BY <1>1, LenProperties, ElementOfSeq
  <2>2. Len(data) >= GpsLen => data[1] \in Nat /\ data[2] \in Nat /\ data[3] \in Nat
    <3>1. Len(data) >= GpsLen => {1, 2, 3} \subseteq 1 .. Len(data)
      BY <2>1, MspAssumption
    <3> QED BY <2>1, <3>1
  <2>3. Len(data) >= AttitudeLen => data[1] \in Nat
    <3>1. Len(data) >= AttitudeLen => 1 \in 1 .. Len(data)
      BY <2>1, MspAssumption
    <3> QED BY <2>1, <3>1
  <2>4. Len(data) >= StatusLen => data[2] \in Nat
    <3>1. Len(data) >= StatusLen => 2 \in 1 .. Len(data)
      BY <2>1, MspAssumption
    <3> QED BY <2>1, <3>1
  <2>5. ASSUME Len(data) >= GpsLen
        PROVE  [g EXCEPT !.fix_type = data[1], !.lat = data[2], !.heading = data[3]] \in MspGps
    BY <2>2, <2>5 DEF MspGps
  <2>6. ASSUME Len(data) >= AttitudeLen PROVE [g EXCEPT !.heading = data[1]] \in MspGps
    BY <2>3, <2>6 DEF MspGps
  <2>7. ASSUME Len(data) >= StatusLen PROVE [g EXCEPT !.armed = data[2]] \in MspGps
    BY <2>4, <2>7 DEF MspGps
  <2> QED BY <2>5, <2>6, <2>7, Zenon DEF Snapshot
<1>3. p.gps \in MspGps
  BY DEF MspParser
<1>4. Snapshot(p.gps, b[5].v, data) \in MspGps
  BY <1>2, <1>3
<1> DEFINE gps == Snapshot(p.gps, b[5].v, data)
           taken == <<b[5].v, data>>
<1>5. ParseMsp(p, b) \in { [p EXCEPT !.result = "Ok", !.taken = taken, !.gps = gps],
                           [p EXCEPT !.result = "BadCrc"] }
  BY DEF ParseMsp, data
<1> HIDE DEF gps, taken
<1>6. gps \in MspGps /\ taken \in MspTaken
  <2>1. b[5].v \in Nat
    <3>1. Len(b) \in Nat
      BY LenProperties
    <3>2. 5 \in 1 .. Len(b)
      BY <3>1
    <3>3. b[5] \in Byte
      BY <3>2, ElementOfSeq
    <3> QED BY <3>3 DEF Byte
  <2> QED BY <1>1, <1>4, <2>1 DEF gps, taken, MspTaken
<1>7. LET r == [p EXCEPT !.result = "Ok", !.taken = taken, !.gps = gps]
      IN  r \in MspParser /\ r.buf = p.buf /\ r.in_message = p.in_message
  BY <1>6 DEF MspParser, Results
<1>8. LET r == [p EXCEPT !.result = "BadCrc"]
      IN  r \in MspParser /\ r.buf = p.buf /\ r.in_message = p.in_message
  BY DEF MspParser, Results
<1> QED BY <1>5, <1>7, <1>8

(* One byte: the ranges stay, and the buffer does not outgrow its size.    *)
LEMMA MspFeedKeeps ==
  ASSUME NEW q, MspKept(q), NEW c \in Byte
  PROVE  MspKept(MspFeed(q, c))
<1> DEFINE p    == [q EXCEPT !.result = "Incomplete"]
           old  == IF Starts(p, c) THEN <<>> ELSE p.buf
           buf  == IF Len(old) < MspBuffer THEN Append(old, c) ELSE old
           full == Len(buf) >= 6 /\ Len(buf) >= 6 + buf[4].v
<1>1. p \in MspParser /\ p.buf = q.buf
  BY DEF MspKept, MspParser, Results
<1>2. MspBuffer \in Nat \ {0}
  BY MspAssumption
<1> HIDE DEF p
<1>3. p.buf \in Seq(Byte) /\ Len(p.buf) <= MspBuffer
  BY <1>1 DEF MspKept, MspParser
<1>4. old \in Seq(Byte) /\ Len(old) <= MspBuffer
  <2>1. <<>> \in Seq(Byte) /\ Len(<<>>) = 0
    BY EmptySeq
  <2> QED BY <1>2, <1>3, <2>1
<1> HIDE DEF old
<1>5. buf \in Seq(Byte) /\ Len(buf) <= MspBuffer
  <2>1. Append(old, c) \in Seq(Byte) /\ Len(Append(old, c)) = Len(old) + 1 /\ Len(old) \in Nat
    BY <1>4, AppendProperties, LenProperties
  <2> QED BY <1>2, <1>4, <2>1
<1> HIDE DEF buf
<1>6. MspFeed(q, c) = IF ~Starts(p, c) /\ ~p.in_message THEN p
                      ELSE IF full THEN [ParseMsp(p, buf) EXCEPT !.buf = <<>>, !.in_message = FALSE]
                      ELSE [p EXCEPT !.buf = buf, !.in_message = TRUE]
  BY DEF MspFeed, p, old, buf
<1>7. ASSUME full
      PROVE  MspKept([ParseMsp(p, buf) EXCEPT !.buf = <<>>, !.in_message = FALSE])
  <2>1. ParseMsp(p, buf) \in MspParser
    BY <1>1, <1>5, <1>7, ParseMspKeeps
  <2> DEFINE r == ParseMsp(p, buf)
  <2> HIDE DEF r
  <2>2. r \in MspParser
    BY <2>1 DEF r
  <2>3. <<>> \in Seq(Byte) /\ Len(<<>>) = 0
    BY EmptySeq
  <2>4. [r EXCEPT !.buf = <<>>, !.in_message = FALSE] \in MspParser
        /\ [r EXCEPT !.buf = <<>>, !.in_message = FALSE].buf = <<>>
    BY <2>2, <2>3 DEF MspParser
  <2>5. Len([r EXCEPT !.buf = <<>>, !.in_message = FALSE].buf) <= MspBuffer
    BY <1>2, <2>3, <2>4
  <2> QED BY <2>4, <2>5 DEF MspKept, r
<1>8. MspKept([p EXCEPT !.buf = buf, !.in_message = TRUE])
  <2>1. [p EXCEPT !.buf = buf, !.in_message = TRUE] \in MspParser
        /\ [p EXCEPT !.buf = buf, !.in_message = TRUE].buf = buf
    BY <1>1, <1>5 DEF MspParser
  <2> QED BY <1>5, <2>1 DEF MspKept
<1>9. MspKept(p)
  BY <1>1, <1>3 DEF MspKept
<1> HIDE DEF full
<1> QED BY <1>6, <1>7, <1>8, <1>9

(* The parser stands at the k-th byte of a frame.                          *)
ReadSoFar(p, b, k) ==
  (0 < k /\ k < Len(b)) => p.buf = SubSeq(b, 1, k) /\ p.in_message

(* The first byte of a frame starts one, whatever went before it.          *)
LEMMA MspBegins ==
  ASSUME NEW q, MspKept(q), NEW m \in MspFrame
  PROVE  ReadSoFar(MspFeed(q, MspBytes(m)[1]), MspBytes(m), 1)
<1> DEFINE b == MspBytes(m)
           c == b[1]
           p == [q EXCEPT !.result = "Incomplete"]
<1>1. b \in Seq(Byte) /\ Len(b) \in Nat /\ Len(b) >= 6 /\ b[1].v = Dollar
  <2>1. b \in Seq(Byte) /\ Len(m.payload) \in Nat /\ Len(b) = 6 + Len(m.payload)
        /\ b[1].v = Dollar
    BY MspBytesShape
  <2> QED BY <2>1
<1>2. MspBuffer \in Nat \ {0}
  BY MspAssumption
<1> HIDE DEF b
<1>3. Starts(p, c)
  BY <1>1 DEF Starts
<1>4. p \in MspParser
  BY DEF MspKept, MspParser, Results
<1> HIDE DEF c, p
<1>5. Append(<<>>, c) = <<c>> /\ Len(<<>>) = 0 /\ Len(<<c>>) = 1
  OBVIOUS
<1>6. MspFeed(q, c) = [p EXCEPT !.buf = <<c>>, !.in_message = TRUE]
  <2>1. 0 < MspBuffer /\ ~(1 >= 6)
    BY <1>2
  <2> QED BY <1>3, <1>5, <2>1 DEF MspFeed, p
<1>7. SubSeq(b, 1, 1) = <<c>>
  <2>1. 0 \in Nat /\ 1 \in Nat /\ 0 + 1 <= Len(b)
    BY <1>1
  <2>2. SubSeq(b, 0 + 1, 0 + 1) \in Seq(Byte) /\ Len(SubSeq(b, 0 + 1, 0 + 1)) = 1
        /\ \A i \in 1 .. 1 : SubSeq(b, 0 + 1, 0 + 1)[i] = b[0 + i]
    BY <1>1, <2>1, PartAt
  <2>3. SubSeq(b, 1, 1) \in Seq(Byte) /\ Len(SubSeq(b, 1, 1)) = 1 /\ SubSeq(b, 1, 1)[1] = c
    BY <2>2 DEF c
  <2>4. c \in Byte
    BY <1>1, ElementOfSeq DEF c
  <2>5. <<c>> \in Seq(Byte) /\ Len(<<c>>) = 1 /\ <<c>>[1] = c
    BY <2>4
  <2> DEFINE t == SubSeq(b, 1, 1)
             u == <<c>>
  <2>6. t \in Seq(Byte) /\ u \in Seq(Byte) /\ Len(t) = 1 /\ Len(u) = 1 /\ t[1] = u[1]
    BY <2>3, <2>5
  <2> HIDE DEF t, u
  <2>7. t = u
    BY <2>6, SeqEqual
  <2> QED BY <2>7 DEF t, u
<1>8. MspFeed(q, c).buf = <<c>> /\ MspFeed(q, c).in_message
  BY <1>4, <1>6 DEF MspParser
<1> QED BY <1>7, <1>8 DEF ReadSoFar, b, c

(* Each next byte of it is put behind the ones that were read, and the     *)
(* last one completes it.                                                  *)
LEMMA MspReadsOn ==
  ASSUME NEW q, MspKept(q), NEW m \in MspFrame, Unbroken(MspBytes(m)),
         NEW k \in Nat, 0 < k, k < Len(MspBytes(m)), ReadSoFar(q, MspBytes(m), k)
  PROVE  LET b == MspBytes(m)
             r == MspFeed(q, b[k + 1])
         IN  /\ ReadSoFar(r, b, k + 1)
             /\ k + 1 = Len(b) => r.result = "Ok" /\ r.taken = MspMeans(m)
<1> DEFINE b == MspBytes(m)
           n == Len(m.payload)
           c == b[k + 1]
           p == [q EXCEPT !.result = "Incomplete"]
           s == SubSeq(b, 1, k + 1)
<1>1. b \in Seq(Byte) /\ n \in Nat /\ Len(b) = 6 + n /\ b[4].v = n
  BY MspBytesShape
<1>2. k + 1 \in 2 .. Len(b) /\ k + 1 \in 1 .. Len(b) /\ 1 \in 1 .. Len(b)
      /\ k < Len(b) /\ (k + 1) - 1 = k
  BY <1>1
<1>3. c.v # Dollar /\ Len(b) <= MspBuffer
  BY <1>2 DEF Unbroken
<1>4. ParseMsp(p, b).result = "Ok" /\ ParseMsp(p, b).taken = MspMeans(m)
      /\ ParseMsp(p, b) \in MspParser /\ p \in MspParser
  <2>1. p \in MspParser
    BY DEF MspKept, MspParser, Results
  <2> HIDE DEF p
  <2>2. Len(b) >= 6
    BY <1>1
  <2> QED BY <1>1, <2>1, <2>2, ParsesWhole, ParseMspKeeps
<1>5. p.buf = SubSeq(b, 1, k) /\ p.in_message
  <2>1. q.buf = SubSeq(b, 1, k) /\ q.in_message
    BY DEF ReadSoFar
  <2> HIDE DEF b
  <2> QED BY <2>1 DEF MspKept, MspParser
<1> HIDE DEF b
<1>6. ~Starts(p, c)
  BY <1>3 DEF Starts
<1>7. s = Append(SubSeq(b, 1, k), c) /\ Len(SubSeq(b, 1, k)) = k
  <2>1. k + 1 \in 1 .. Len(b) /\ 0 \in Nat /\ 0 + k <= Len(b)
    BY <1>1, <1>2
  <2>2. s = SubSeq(b, 1, (k + 1) - 1) \o <<c>>
    BY <1>1, <1>2, SubSeqRecursiveSecond
  <2>3. SubSeq(b, 0 + 1, 0 + k) \in Seq(Byte) /\ Len(SubSeq(b, 0 + 1, 0 + k)) = k
    BY <1>1, <2>1, PartAt
  <2>4. SubSeq(b, 1, k) \in Seq(Byte) /\ Len(SubSeq(b, 1, k)) = k
    BY <2>3
  <2>5. c \in Byte
    BY <1>1, <1>2, ElementOfSeq
  <2>6. Append(SubSeq(b, 1, k), c) = SubSeq(b, 1, k) \o <<c>>
    BY <2>4, <2>5, AppendIsConcat
  <2> QED BY <1>2, <2>2, <2>4, <2>6
<1>8. s \in Seq(Byte) /\ Len(s) = k + 1 /\ (k + 1 >= 4 => s[4].v = n)
  <2>1. 0 \in Nat /\ k + 1 \in Nat /\ 0 + (k + 1) <= Len(b)
    BY <1>2
  <2>2. SubSeq(b, 0 + 1, 0 + (k + 1)) \in Seq(Byte)
        /\ Len(SubSeq(b, 0 + 1, 0 + (k + 1))) = k + 1
        /\ \A i \in 1 .. k + 1 : SubSeq(b, 0 + 1, 0 + (k + 1))[i] = b[0 + i]
    BY <1>1, <2>1, PartAt
  <2>3. s \in Seq(Byte) /\ Len(s) = k + 1 /\ \A i \in 1 .. k + 1 : s[i] = b[0 + i]
    BY <2>2
  <2>4. k + 1 >= 4 => 4 \in 1 .. k + 1
    OBVIOUS
  <2> QED BY <1>1, <2>3, <2>4
<1>9. (Len(s) >= 6 /\ Len(s) >= 6 + s[4].v) <=> k + 1 = Len(b)
  <2> HIDE DEF s
  <2>1. CASE k + 1 >= 6
    BY <1>1, <1>2, <1>8, <2>1
  <2>2. CASE k + 1 < 6
    BY <1>1, <1>8, <2>2
  <2> QED BY <2>1, <2>2
<1>10. MspFeed(q, c) = IF k + 1 = Len(b)
                       THEN [ParseMsp(p, s) EXCEPT !.buf = <<>>, !.in_message = FALSE]
                       ELSE [p EXCEPT !.buf = s, !.in_message = TRUE]
  <2>1. k < MspBuffer
    BY <1>1, <1>2, <1>3, MspAssumption
  <2>2. Len(p.buf) < MspBuffer /\ Append(p.buf, c) = s
    BY <1>5, <1>7, <2>1
  <2> DEFINE old == IF Starts(p, c) THEN <<>> ELSE p.buf
             buf == IF Len(old) < MspBuffer THEN Append(old, c) ELSE old
  <2> HIDE DEF s, c
  <2>3. MspFeed(q, c) =
          IF ~Starts(p, c) /\ ~p.in_message THEN p
          ELSE IF Len(buf) >= 6 /\ Len(buf) >= 6 + buf[4].v
               THEN [ParseMsp(p, buf) EXCEPT !.buf = <<>>, !.in_message = FALSE]
               ELSE [p EXCEPT !.buf = buf, !.in_message = TRUE]
    BY DEF MspFeed
  <2>4. old = p.buf
    BY <1>6
  <2>5. buf = s
    BY <2>2, <2>4
  <2> HIDE DEF old, buf, p
  <2> QED BY <1>5, <1>6, <1>9, <2>3, <2>5
<1>11. k + 1 = Len(b) => s = b
  BY <1>1, SubSeqFull
<1> HIDE DEF s, p, c
<1>12. CASE k + 1 = Len(b)
  <2>1. MspFeed(q, c) = [ParseMsp(p, b) EXCEPT !.buf = <<>>, !.in_message = FALSE]
    BY <1>10, <1>11, <1>12
  <2> DEFINE r == ParseMsp(p, b)
  <2> HIDE DEF r
  <2>2. r \in MspParser /\ r.result = "Ok" /\ r.taken = MspMeans(m)
    BY <1>4 DEF r
  <2>3. MspFeed(q, c) = [r EXCEPT !.buf = <<>>, !.in_message = FALSE]
    BY <2>1 DEF r
  <2>4. MspFeed(q, c).result = "Ok" /\ MspFeed(q, c).taken = MspMeans(m)
    BY <2>2, <2>3 DEF MspParser
  <2>5. ReadSoFar(MspFeed(q, c), b, k + 1)
    BY <1>1, <1>12 DEF ReadSoFar
  <2> QED BY <2>4, <2>5 DEF b, c
<1>13. CASE k + 1 # Len(b)
  <2>1. MspFeed(q, c) = [p EXCEPT !.buf = s, !.in_message = TRUE]
    BY <1>10, <1>13
  <2>2. MspFeed(q, c).buf = s /\ MspFeed(q, c).in_message
    BY <1>4, <2>1 DEF MspParser
  <2>3. ReadSoFar(MspFeed(q, c), b, k + 1)
    BY <2>2 DEF ReadSoFar, s
  <2> QED BY <1>13, <2>3 DEF b, c
<1> QED BY <1>12, <1>13

(* What came of the frame so far is what the parser holds of it, and when  *)
(* all of it came it has been taken.                                       *)
MspReading ==
  LET b == MspBytes(frame)
  IN  \E k \in 0 .. Len(b) :
        /\ rest = SubSeq(b, k + 1, Len(b))
        /\ ReadSoFar(parser, b, k)
        /\ k = Len(b) => parser.result = "Ok" /\ parser.taken = MspMeans(frame)

MspInv ==
  proto = "Msp" =>
    /\ frame \in MspFrame /\ MspKept(parser) /\ rest \in Seq(Byte)
    /\ (whole /\ Unbroken(MspBytes(frame))) => MspReading

(* What is left of a frame when its next byte has arrived.                 *)
LEMMA RestOfFrame ==
  ASSUME NEW S, NEW b \in Seq(S), NEW k \in 0 .. Len(b), SubSeq(b, k + 1, Len(b)) # <<>>
  PROVE  /\ k \in Nat /\ k < Len(b) /\ k + 1 \in 1 .. Len(b)
         /\ Head(SubSeq(b, k + 1, Len(b))) = b[k + 1]
         /\ Tail(SubSeq(b, k + 1, Len(b))) = SubSeq(b, (k + 1) + 1, Len(b))
<1>1. Len(b) \in Nat
  BY LenProperties
<1>2. k < Len(b)
  <2> SUFFICES ASSUME ~(k < Len(b)) PROVE FALSE
    OBVIOUS
  <2>1. Len(b) < k + 1 /\ k + 1 \in Int /\ Len(b) \in Int
    BY <1>1
  <2>2. SubSeq(b, k + 1, Len(b)) = <<>>
    BY <2>1, SubSeqEmpty
  <2> QED BY <2>2
<1>3. k + 1 \in 1 .. Len(b) /\ Len(b) \in k + 1 .. Len(b)
  BY <1>1, <1>2
<1>4. /\ Head(SubSeq(b, k + 1, Len(b))) = b[k + 1]
      /\ Tail(SubSeq(b, k + 1, Len(b))) = SubSeq(b, (k + 1) + 1, Len(b))
  BY <1>3, HeadTailOfSubSeq
<1> QED BY <1>1, <1>2, <1>3, <1>4

(* A step of the line.                                                     *)
LEMMA MspStepKeeps ==
  ASSUME MspInv, [LineNext]_lineVars
  PROVE  MspInv'
<1> SUFFICES ASSUME proto' = "Msp" PROVE MspInv'
  BY DEF MspInv
<1>1. ASSUME NEW m \in Messages[proto], SendFrame(m)
      PROVE  MspInv'
  <2>1. proto = "Msp" /\ m \in MspFrame
    BY <1>1, LineAssumption DEF SendFrame
  <2>2. frame' = m /\ rest' = MspBytes(m) /\ parser' = parser
    BY <1>1, <2>1 DEF SendFrame, BytesOf
  <2>3. MspBytes(m) \in Seq(Byte) /\ Len(MspBytes(m)) \in Nat /\ Len(MspBytes(m)) # 0
    <3>1. MspBytes(m) \in Seq(Byte) /\ Len(MspBytes(m)) = 6 + Len(m.payload)
          /\ Len(m.payload) \in Nat
      BY <2>1, MspBytesShape
    <3> QED BY <3>1
  <2>4. MspReading'
    <3>1. 0 \in 0 .. Len(MspBytes(m)) /\ 0 # Len(MspBytes(m)) /\ ~(0 < 0)
      BY <2>3
    <3>2. SubSeq(MspBytes(m), 0 + 1, Len(MspBytes(m))) = MspBytes(m)
      BY <2>3, SubSeqFull
    <3> QED BY <2>2, <3>1, <3>2 DEF MspReading, ReadSoFar
  <2> QED BY <2>1, <2>2, <2>3, <2>4 DEF MspInv
<1>2. ASSUME Arrive
      PROVE  MspInv'
  <2>1. proto = "Msp" /\ rest # <<>> /\ rest' = Tail(rest) /\ frame' = frame /\ whole' = whole
    BY <1>2 DEF Arrive
  <2>2. frame \in MspFrame /\ MspKept(parser) /\ rest \in Seq(Byte)
    BY <2>1 DEF MspInv
  <2>3. parser' = MspFeed(parser, Head(rest))
    BY <1>2, <2>1 DEF Arrive, Feed
  <2>4. Head(rest) \in Byte /\ Tail(rest) \in Seq(Byte)
    BY <2>1, <2>2, HeadTailProperties
  <2>5. MspKept(parser')
    BY <2>2, <2>3, <2>4, MspFeedKeeps
  <2>6. ASSUME whole, Unbroken(MspBytes(frame))
        PROVE  MspReading'
    <3> DEFINE b == MspBytes(frame)
    <3>1. b \in Seq(Byte) /\ Len(b) \in Nat /\ Len(b) # 0 /\ Len(b) # 1
      <4>1. b \in Seq(Byte) /\ Len(b) = 6 + Len(frame.payload) /\ Len(frame.payload) \in Nat
        BY <2>2, MspBytesShape
      <4> QED BY <4>1
    <3>2. PICK k \in 0 .. Len(b) : rest = SubSeq(b, k + 1, Len(b)) /\ ReadSoFar(parser, b, k)
      BY <2>1, <2>6 DEF MspInv, MspReading
    <3>3. /\ k \in Nat /\ k < Len(b) /\ k + 1 \in 1 .. Len(b) /\ k + 1 \in 0 .. Len(b)
          /\ Head(rest) = b[k + 1] /\ rest' = SubSeq(b, (k + 1) + 1, Len(b))
      <4>1. SubSeq(b, k + 1, Len(b)) # <<>>
        BY <2>1, <3>2
      <4> HIDE DEF b
      <4>2. /\ k \in Nat /\ k < Len(b) /\ k + 1 \in 1 .. Len(b)
            /\ Head(SubSeq(b, k + 1, Len(b))) = b[k + 1]
            /\ Tail(SubSeq(b, k + 1, Len(b))) = SubSeq(b, (k + 1) + 1, Len(b))
        BY <3>1, <4>1, RestOfFrame
      <4> QED BY <2>1, <3>1, <3>2, <4>2
    <3>4. /\ ReadSoFar(parser', b, k + 1)
          /\ k + 1 = Len(b) => parser'.result = "Ok" /\ parser'.taken = MspMeans(frame)
      <4>1. CASE k = 0
        <5>1. ReadSoFar(MspFeed(parser, b[1]), b, 1)
          BY <2>2, MspBegins
        <5>2. k + 1 = 1 /\ Head(rest) = b[1]
          BY <3>3, <4>1
        <5> HIDE DEF b
        <5> QED BY <2>3, <3>1, <5>1, <5>2
      <4>2. CASE 0 < k
        <5>1. /\ ReadSoFar(MspFeed(parser, b[k + 1]), b, k + 1)
              /\ k + 1 = Len(b) => /\ MspFeed(parser, b[k + 1]).result = "Ok"
                                   /\ MspFeed(parser, b[k + 1]).taken = MspMeans(frame)
          BY <2>2, <2>6, <3>2, <3>3, <4>2, MspReadsOn
        <5> HIDE DEF b
        <5> QED BY <2>3, <3>3, <5>1
      <4> QED BY <3>3, <4>1, <4>2
    <3>5. frame' = frame
      BY <2>1
    <3>6. \E j \in 0 .. Len(b) :
            /\ rest' = SubSeq(b, j + 1, Len(b))
            /\ ReadSoFar(parser', b, j)
            /\ j = Len(b) => parser'.result = "Ok" /\ parser'.taken = MspMeans(frame')
      <4> HIDE DEF b
      <4> QED BY <3>3, <3>4, <3>5
    <3> QED BY <3>5, <3>6 DEF MspReading
  <2> QED BY <2>1, <2>2, <2>4, <2>5, <2>6 DEF MspInv
<1>3. ASSUME Lose
      PROVE  MspInv'
  <2>1. proto = "Msp" /\ rest # <<>> /\ rest' = Tail(rest) /\ frame' = frame /\ ~whole'
        /\ parser' = parser
    BY <1>3 DEF Lose, Fault
  <2>2. Tail(rest) \in Seq(Byte)
    BY <2>1, HeadTailProperties DEF MspInv
  <2> QED BY <2>1, <2>2 DEF MspInv
<1>4. ASSUME NEW c \in Noise[proto], MakeUp(c)
      PROVE  MspInv'
  <2>1. proto = "Msp" /\ rest' = rest /\ frame' = frame /\ ~whole' /\ c \in Byte
    BY <1>4, LineAssumption DEF MakeUp, Fault
  <2>2. parser' = MspFeed(parser, c)
    BY <1>4, <2>1 DEF MakeUp, Feed
  <2>3. MspKept(parser')
    BY <2>1, <2>2, MspFeedKeeps DEF MspInv
  <2> QED BY <2>1, <2>3 DEF MspInv
<1>5. ASSUME UNCHANGED lineVars
      PROVE  MspInv'
  BY <1>5 DEF lineVars, MspInv, MspReading
<1> QED BY <1>1, <1>2, <1>3, <1>4, <1>5 DEF LineNext

(* The parser of MSP is where MspInv says, at all times.                   *)
LEMMA AlwaysMspInv == InputsSpec => []MspInv
<1>1. InputsInit => MspInv
  <2> SUFFICES ASSUME InputsInit, proto = "Msp"
               PROVE  frame \in MspFrame /\ MspKept(parser) /\ rest \in Seq(Byte) /\ ~whole
    BY DEF MspInv
  <2>1. frame \in MspFrame /\ rest = <<>> /\ ~whole /\ parser = MspNew
    BY LineAssumption DEF InputsInit, LineInit, NewParser
  <2>2. MspKept(MspNew)
    <3>1. <<>> \in Seq(Byte) /\ <<>> \in MspTaken /\ Len(<<>>) = 0 /\ 0 <= MspBuffer
      BY EmptySeq, MspAssumption DEF MspTaken
    <3> QED BY <3>1 DEF MspKept, MspParser, MspGps, Results, MspNew
  <2> QED BY <2>1, <2>2
<1>2. MspInv /\ [InputsNext]_<<lineVars, busVars, source>> => MspInv'
  <2> SUFFICES ASSUME MspInv, [InputsNext]_<<lineVars, busVars, source>> PROVE MspInv'
    OBVIOUS
  <2>1. [LineNext]_lineVars
    BY DEF InputsNext
  <2> QED BY <2>1, MspStepKeeps
<1> QED BY <1>1, <1>2, PTL DEF InputsSpec

(* parser.rs:141-159 of MSP: whatever the line did before, a frame that    *)
(* arrives whole, fits the buffer and has no "$" behind its first byte is  *)
(* taken, for every set of frames, every noise and any number of faults.   *)
THEOREM WholeFramesAreTaken == InputsSpec => []MspAlwaysInStep
<1>1. MspInv => MspAlwaysInStep
  <2> SUFFICES ASSUME MspInv, proto = "Msp", rest = <<>>, whole, Unbroken(MspBytes(frame))
               PROVE  parser.result = "Ok" /\ parser.taken = MspMeans(frame)
    BY DEF MspAlwaysInStep, ShouldBeTaken, BytesOf
  <2> DEFINE b == MspBytes(frame)
  <2>1. PICK k \in 0 .. Len(b) :
          /\ rest = SubSeq(b, k + 1, Len(b))
          /\ k = Len(b) => parser.result = "Ok" /\ parser.taken = MspMeans(frame)
    BY DEF MspInv, MspReading
  <2>2. b \in Seq(Byte)
    BY MspBytesShape DEF MspInv
  <2> HIDE DEF b
  <2>3. Len(b) \in Nat
    BY <2>2, LenProperties
  <2>4. k = Len(b)
    <3> SUFFICES ASSUME k # Len(b) PROVE FALSE
      OBVIOUS
    <3>1. k \in Nat /\ k + 1 <= Len(b)
      BY <2>3
    <3>2. k + 1 \in Int /\ Len(b) \in Int /\ \A i \in k + 1 .. Len(b) : b[i] \in Byte
      BY <2>2, <2>3, <3>1, ElementOfSeq
    <3>3. Len(SubSeq(b, k + 1, Len(b))) = Len(b) - (k + 1) + 1
      BY <3>1, <3>2, SubSeqProperties
    <3>4. SubSeq(b, k + 1, Len(b)) = <<>>
      BY <2>1
    <3>5. Len(<<>>) = Len(b) - (k + 1) + 1
      BY <3>3, <3>4
    <3>6. Len(<<>>) = 0
      OBVIOUS
    <3>7. Len(b) - (k + 1) + 1 = 0
      BY <3>5, <3>6
    <3> QED BY <2>3, <3>1, <3>7
  <2> QED BY <2>1, <2>4
<1> QED BY <1>1, AlwaysMspInv, PTL
=============================================================================
