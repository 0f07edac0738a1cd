---------------------------- MODULE DronecanBus ----------------------------
(***************************************************************************)
(* GPS receivers on a CAN bus and the DroneCAN parser of the board.  A     *)
(* position is a transfer of several frames, told apart by a transfer id   *)
(* and a toggle bit; the frames of the nodes interleave as the arbitration *)
(* has it, get lost or are repeated.  The parser keeps one context a node, *)
(* and stamps of the 32-bit millisecond clock with 0 for "never".          *)
(***************************************************************************)
EXTENDS Integers, Sequences, SequencesExt, FiniteSets

CONSTANTS
  Buses,          (* the buses to look at: the receivers, the lengths of     *)
                  (* their transfers in frames and whether they have a fix,  *)
                  (* the contexts of the parser and when it starts, the      *)
                  (* times that may pass between two frames, and a bound on  *)
                  (* the frames lost and repeated                            *)
  MaxPieces,      (* MAX_TRANSFER_SIZE, in frames                            *)
  FixPieces,      (* FIX2_FIXED_BYTES, in frames                             *)
  TidMod,         (* the transfer ids, 32                                    *)
  TidTimeout,     (* TID_TIMEOUT_MS and                                      *)
  CanFresh,       (* FRESHNESS_MS, in the unit of the clock                  *)
  ClockMod        (* a turn of the clock                                     *)

ASSUME BusAssumption ==
  /\ \A b \in Buses :
       /\ IsFiniteSet(b.receivers)
       /\ b.contexts \in Nat \ {0} /\ b.lengths \subseteq Nat \ {0} /\ b.fixes \subseteq BOOLEAN
       /\ b.delays \subseteq Nat /\ b.start \in 0 .. ClockMod - 1 /\ b.faults \in Nat
  /\ TidMod \in Nat \ {0, 1} /\ ClockMod \in Nat \ {0}
  /\ MaxPieces \in Nat \ {0} /\ FixPieces \in Nat \ {0, 1} /\ TidTimeout \in Nat /\ 2 * TidTimeout < ClockMod

VARIABLES
  bus,         (* the bus                                                    *)
  clock,       (* now_ms                                                     *)
  contexts,    (* DronecanParser.transfers                                   *)
  last_fix,    (* last_update_ms                                             *)
  nodes,       (* per node: the transfer it sends and how far it is          *)
  bus_faults,
  fix_age,     (* histories: the time since the last fix was decoded, up to  *)
  quiet,       (* a turn; per node since the start or since a transfer of it *)
               (* was due, up to more than half a turn                       *)
  missed       (* history: a transfer that was due has not been decoded      *)

busVars == <<bus, clock, contexts, last_fix, nodes, bus_faults, fix_age, quiet, missed>>

Never == 0

Nodes == bus.receivers

(* A context that no frame has used. *)
Fresh(n) ==
  [node |-> n, ready |-> FALSE, tid |-> 0, toggle |-> FALSE, buf |-> <<>>, crc |-> <<>>,
   prev |-> Never, this |-> Never]

-----------------------------------------------------------------------------
(* The clock. *)

Since(stamp) == (clock - stamp) % ClockMod

(* is_after: no more than half a turn ahead of the stamp. *)
HalfTurn == (ClockMod - 1) \div 2

IsAfter(stamp) == Since(stamp) <= HalfTurn

TimedOut(t) == t.this # Never /\ Since(t.this) > TidTimeout

-----------------------------------------------------------------------------
(* The contexts. *)

Least(S) == CHOOSE i \in S : \A j \in S : i <= j

LastUsed(t) == IF t.this # Never THEN t.this ELSE clock

(* get_or_create_context: the one of the node, an unused one, or the one   *)
(* whose stamp is the smallest number.                                     *)
Slot(n) ==
  LET own  == {i \in DOMAIN contexts : contexts[i].ready /\ contexts[i].node = n}
      free == {i \in DOMAIN contexts : ~contexts[i].ready}
      old  == {i \in DOMAIN contexts :
                 \A j \in DOMAIN contexts : LastUsed(contexts[i]) <= LastUsed(contexts[j])}
  IN  IF own # {} THEN Least(own) ELSE IF free # {} THEN Least(free) ELSE Least(old)

Context(n) ==
  LET t == contexts[Slot(n)]
  IN  IF t.ready /\ t.node = n THEN t ELSE IF t.ready THEN Fresh(n) ELSE [t EXCEPT !.node = n]

(* Mutant: the expected id leaves its five bits. *)
PreparedForNextUnwrapped(t) == [t EXCEPT !.tid = @ + 1, !.toggle = FALSE, !.buf = <<>>]

PreparedForNext(t) == [t EXCEPT !.tid = (@ + 1) % TidMod, !.toggle = FALSE, !.buf = <<>>]

(* restart: a frame that is not the first is the tail of a transfer that   *)
(* cannot be had any more.                                                 *)
Restarted(t, f) ==
  [t EXCEPT !.tid = IF f.sot THEN f.tid ELSE (f.tid + 1) % TidMod,
            !.toggle = FALSE, !.buf = <<>>, !.crc = <<>>, !.ready = TRUE]

(* Mutant: any other id than the expected one. *)
SkipsAheadNever(t, f) == FALSE

(* The expected id is neither that of the frame nor the next one. *)
SkipsAhead(t, f) == (t.tid - f.tid) % TidMod > 1

NeedsRestart(t, f) == ~t.ready \/ TimedOut(t) \/ (f.sot /\ SkipsAhead(t, f))

Valid(t, f) == ~(f.sot /\ f.toggle) /\ f.toggle = t.toggle /\ f.tid = t.tid

(* Stamped by its first frame. *)
Stamped(t, f) == IF f.sot THEN [t EXCEPT !.this = clock] ELSE t

(* writePayload: the first frame carries the checksum of all. *)
Written(t, f) ==
  [t EXCEPT !.buf = IF f.sot THEN <<f.piece>> ELSE Append(@, f.piece),
            !.crc = IF f.sot THEN f.crc ELSE @, !.toggle = ~@]

Completed(t) == [t EXCEPT !.prev = t.this]

(* check_payload_crc: the checksum of a transfer is the list of its pieces. *)
ChecksumAgrees(t) == t.buf = t.crc

(* addFrame: the context after the frame, and what it completed. *)
AddFrame(t0, f) ==
  LET t == IF NeedsRestart(t0, f) THEN Restarted(t0, f) ELSE t0
      s == Stamped(t, f)
      w == Written(s, f)
      nothing(c) == [context |-> c, done |-> <<>>]
  IN  IF clock = 0 \/ ~IsAfter(t0.prev) \/ ~IsAfter(t0.this) THEN nothing(t0)
      ELSE IF NeedsRestart(t0, f) /\ ~f.sot THEN nothing(t)
      ELSE IF ~Valid(t, f) THEN nothing(t)
      ELSE IF f.sot /\ f.eot THEN nothing(PreparedForNext(Completed(s)))
      ELSE IF ~f.sot /\ Len(s.buf) >= MaxPieces THEN nothing(PreparedForNext(s))
      ELSE IF ~f.eot THEN nothing(w)
      ELSE [context |-> PreparedForNext(Completed(w)),
            done |-> IF ChecksumAgrees(w) THEN w.buf ELSE <<>>]

(* Mutant: get has no limit. *)
HasFixEver == last_fix # Never

(* get *)
HasFix == last_fix # Never /\ Since(last_fix) < CanFresh

-----------------------------------------------------------------------------
(* The nodes.  The pieces of a transfer are told apart by their place, and *)
(* those of two transfers by their ids.                                    *)

Idle == 0

Pieces(s) == [k \in 1 .. s.length |-> <<s.node, s.tid, k>>]

FrameOf(s) ==
  LET k == s.at + 1
  IN  [node |-> s.node, sot |-> k = 1, eot |-> k = s.length, toggle |-> k % 2 = 0, tid |-> s.tid,
       piece |-> Pieces(s)[k], crc |-> Pieces(s)]

UpTo(bound, n) == IF n < bound THEN n ELSE bound

(* A node counts the transfers in a row that were not due. *)
SentFrame(s) ==
  IF s.at + 1 < s.length THEN [s EXCEPT !.at = @ + 1]
  ELSE [s EXCEPT !.at = Idle, !.tid = (@ + 1) % TidMod,
                 !.undue = IF s.due THEN 0 ELSE UpTo(TidMod - 1, @ + 1)]

(* decode_fix2: a position that is long enough and has a fix (status >= 2) *)
(* is stamped.                                                             *)
Fix2Stamps(r, fix) == fix /\ Len(r.done) >= FixPieces

(* feed *)
FeedFrame(f, fix) ==
  LET r == AddFrame(Context(f.node), f)
  IN  /\ contexts' = [contexts EXCEPT ![Slot(f.node)] = r.context]
      /\ last_fix' = IF Fix2Stamps(r, fix) THEN clock ELSE last_fix
      /\ fix_age' = IF Fix2Stamps(r, fix) THEN 0 ELSE fix_age

(* A transfer is due when its frames come whole and in time, not at the    *)
(* instant 0, the parser has a context for every node, less than half a    *)
(* turn has gone since the last transfer of the node that was due and not  *)
(* too long, or since the clock started, and not all other ids have gone   *)
(* by without one that was due: it would look like that one once more.     *)
Expected(s) ==
  /\ s.due /\ s.age <= TidTimeout /\ clock # 0 /\ s.undue < TidMod - 1
  /\ Cardinality(Nodes) <= Len(contexts)
  /\ quiet[s.node] <= HalfTurn

(* A node sends the next frame of its transfer, or the first of a new one. *)
Transmit(n, length, fix) ==
  LET s     == IF nodes[n].at = Idle
               THEN [nodes[n] EXCEPT !.length = length, !.due = TRUE, !.age = 0]
               ELSE nodes[n]
      due   == Expected(s)
      last  == s.at + 1 = s.length
      whole == last /\ due /\ s.length \in FixPieces .. MaxPieces
  IN  /\ nodes[n].at # Idle => length = nodes[n].length
      /\ FeedFrame(FrameOf(s), fix)
      /\ nodes' = [nodes EXCEPT ![n] = SentFrame([s EXCEPT !.due = due])]
      /\ missed' = (whole /\ AddFrame(Context(n), FrameOf(s)).done # Pieces(s))
      /\ quiet' = IF last /\ due /\ s.length <= MaxPieces THEN [quiet EXCEPT ![n] = s.age] ELSE quiet
      /\ UNCHANGED <<bus, clock, bus_faults>>

LoseFrame(n, length) ==
  LET s == IF nodes[n].at = Idle THEN [nodes[n] EXCEPT !.length = length, !.age = 0] ELSE nodes[n]
  IN  /\ bus_faults < bus.faults /\ bus_faults' = bus_faults + 1
      /\ nodes[n].at # Idle => length = nodes[n].length
      /\ nodes' = [nodes EXCEPT ![n] = SentFrame([s EXCEPT !.due = FALSE])]
      /\ UNCHANGED <<bus, clock, contexts, last_fix, fix_age, quiet, missed>>

(* The frame of a transfer that was sent last arrives once more. *)
Repeat(n, fix) ==
  /\ bus_faults < bus.faults /\ bus_faults' = bus_faults + 1
  /\ nodes[n].at # Idle
  /\ FeedFrame(FrameOf([nodes[n] EXCEPT !.at = @ - 1]), fix)
  /\ UNCHANGED <<bus, clock, nodes, quiet, missed>>

Wait(d) ==
  /\ clock' = (clock + d) % ClockMod
  /\ fix_age' = UpTo(ClockMod, fix_age + d)
  /\ quiet' = [n \in Nodes |-> UpTo(HalfTurn + 1, quiet[n] + d)]
  /\ nodes' = [n \in Nodes |-> IF nodes[n].at = Idle THEN nodes[n]
                               ELSE [nodes[n] EXCEPT !.age = UpTo(TidTimeout + 1, @ + d)]]
  /\ UNCHANGED <<bus, contexts, last_fix, bus_faults, missed>>

BusInit ==
  /\ bus \in Buses
  /\ clock = bus.start /\ fix_age = ClockMod
  /\ contexts = [i \in 1 .. bus.contexts |-> Fresh("none")]
  /\ last_fix = Never
  /\ nodes = [n \in Nodes |-> [node |-> n, at |-> Idle, length |-> 1, tid |-> 0,
                               due |-> FALSE, age |-> 0, undue |-> 0]]
  /\ bus_faults = 0 /\ missed = FALSE
  /\ quiet = [n \in Nodes |-> UpTo(HalfTurn + 1, clock)]

BusNext ==
  \/ \E n \in Nodes, length \in bus.lengths, fix \in bus.fixes : Transmit(n, length, fix)
  \/ \E n \in Nodes, length \in bus.lengths : LoseFrame(n, length)
  \/ \E n \in Nodes, fix \in bus.fixes : Repeat(n, fix)
  \/ \E d \in bus.delays : Wait(d)

BusSpec == BusInit /\ [][BusNext]_busVars

-----------------------------------------------------------------------------
BusTypeOK ==
  /\ clock \in 0 .. ClockMod - 1 /\ fix_age \in 0 .. ClockMod
  /\ quiet \in [Nodes -> 0 .. HalfTurn + 1]
  /\ \A i \in DOMAIN contexts :
       LET t == contexts[i]
       IN  /\ t.tid \in 0 .. TidMod - 1 /\ Len(t.buf) <= MaxPieces
           /\ {t.prev, t.this} \subseteq 0 .. ClockMod - 1
           /\ \A j \in DOMAIN contexts :
                (t.ready /\ contexts[j].ready /\ i # j) => t.node # contexts[j].node
  /\ \A n \in Nodes : /\ nodes[n].at \in 0 .. nodes[n].length - 1
                     /\ {nodes[n].tid, nodes[n].undue} \subseteq 0 .. TidMod - 1
  /\ bus_faults \in 0 .. bus.faults

(* parser.rs:300-382: a transfer that is due, with all its frames in time  *)
(* (see Expected), is decoded, whatever was lost or repeated before it and *)
(* however the frames of the other nodes come in between.                  *)
CleanTransferTaken == ~missed

(* parser.rs:289-297: get gives a position only within its limit after a   *)
(* fix, until a turn of the clock later the stamp reads as recent again.   *)
FixIsFresh == HasFix => fix_age < CanFresh \/ fix_age = ClockMod
=============================================================================
