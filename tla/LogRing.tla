------------------------------ MODULE LogRing ------------------------------
(***************************************************************************)
(* The log of the web interface: the last entries in a ring, rendered as a *)
(* JSON list into a buffer of a fixed size.  Levels, stamps and the fixed  *)
(* parts of an entry are characters of their own.                          *)
(***************************************************************************)
EXTENDS Texts

CONSTANTS
  Lines,      (* lines of the log                                            *)
  RingMax,    (* LOG_RING_MAX                                                *)
  MsgMax,     (* LOG_MSG_MAX                                                 *)
  BufSize,    (* LOG_BUF_SIZE                                                *)
  Reserve     (* the 128 bytes that are kept for the end of the list         *)

ASSUME RingAssumption ==
  /\ RingMax \in Nat \ {0} /\ MsgMax \in Nat \ {0} /\ BufSize \in Nat /\ 1 < BufSize
  /\ Reserve \in 1 .. BufSize /\ Lines \subseteq Seq(Nat)

VARIABLES
  ring, head, count,   (* LogRing                                            *)
  uptime,              (* the stamp of the next line                         *)
  logged               (* history: the last RingMax lines, with their stamps *)

logVars == <<ring, head, count, uptime, logged>>

(* The characters that JSON has to escape, those it drops, and the fixed   *)
(* parts of a list.                                                        *)
Escaped == {120, 121}
Control == 122
Backslash == 120
Opening == 130   (* {"t": *)
Middle  == 131   (* ,"l":" and ","m":" *)
Closing == 132   (* "} *)
Comma == 133
ListBegin == 134
ListEnd == 135

LevelLetters == 1 .. 5
Info == 3

(* level_from_line *)
LevelFromLine(line) ==
  IF line # <<>> /\ line[1] \in LevelLetters THEN line[1] ELSE Info

(* copy_trunc leaves room for a NUL. *)
CopyTrunc(line) == Slice(CText(line), MsgMax - 1)

(* json_escape into a buffer of 2 * MsgMax, of which 4 characters are kept *)
(* free.                                                                   *)
JsonEscape(msg) ==
  FoldLeft(LAMBDA out, c :
             IF Len(out) >= 2 * MsgMax - 4 THEN out
             ELSE IF c \in Escaped THEN out \o <<Backslash, c>>
             ELSE IF c = Control THEN out ELSE Append(out, c),
           <<>>, msg)

(* An entry in the list: push_u32 writes the stamp. *)
Rendered(e) ==
  <<Opening, e.time, Middle, e.level, Middle>> \o JsonEscape(e.msg) \o <<Closing>>

-----------------------------------------------------------------------------
(* Mutant: the head stays where it is. *)
PushStuck(line) ==
  LET at == (head + count) % RingMax
      e  == [time |-> uptime, level |-> LevelFromLine(line), msg |-> CopyTrunc(line)]
  IN  /\ ring' = [ring EXCEPT ![at] = e]
      /\ count' = Least(count + 1, RingMax) /\ UNCHANGED head

(* push *)
Push(line) ==
  LET at == (head + count) % RingMax
      e  == [time |-> uptime, level |-> LevelFromLine(line), msg |-> CopyTrunc(line)]
  IN  /\ ring' = [ring EXCEPT ![at] = e]
      /\ IF count < RingMax THEN count' = count + 1 /\ UNCHANGED head
         ELSE head' = (head + 1) % RingMax /\ UNCHANGED count

(* push_bytes and push_cstr: what does not fit is cut. *)
PushBytes(buf, bytes) == Slice(buf \o bytes, BufSize)

(* render_log_json: an entry that reaches into the reserve is cut there    *)
(* and ends the list.                                                      *)
RenderLogJson ==
  LET start == IF count < RingMax THEN 0 ELSE head
      limit == BufSize - Reserve
      entry(i) == (IF i > 1 THEN <<Comma>> ELSE <<>>)
                    \o Rendered(ring[(start + i - 1) % RingMax])
      body == FoldLeft(LAMBDA buf, i :
                         IF Len(buf) >= limit /\ i > 1 THEN buf
                         ELSE PushBytes(buf, entry(i)),
                       PushBytes(<<>>, <<ListBegin>>), [i \in 1 .. count |-> i])
  IN  PushBytes(IF count > 0 THEN Slice(body, limit) ELSE body, <<ListEnd>>)

Log(line) ==
  /\ Push(line)
  /\ uptime' = uptime + 1
  /\ logged' = LET all == Append(logged, <<line, uptime>>)
               IN  SubSeq(all, Len(all) - Least(Len(all), RingMax) + 1, Len(all))

(* A bound on the stamps. *)
LogNext == uptime < 2 * RingMax + 1 /\ \E line \in Lines : Log(line)

LogInit ==
  /\ ring = [i \in 0 .. RingMax - 1 |-> [time |-> 0, level |-> 0, msg |-> <<>>]]
  /\ head = 0 /\ count = 0 /\ uptime = 0 /\ logged = <<>>

-----------------------------------------------------------------------------
(* The list of the lines that are remembered, oldest first. *)
WholeList ==
  LET entry(i) == Rendered([time |-> logged[i][2], level |-> LevelFromLine(logged[i][1]),
                            msg |-> CopyTrunc(logged[i][1])])
  IN  FoldLeft(LAMBDA out, i : IF i = 1 THEN out \o entry(i) ELSE out \o <<Comma>> \o entry(i),
               <<ListBegin>>, [i \in DOMAIN logged |-> i])

(* web.rs:106-157: what the web interface shows is the beginning of the    *)
(* list of the last lines, oldest first, and all of it when there is room. *)
LogInOrder ==
  Front(RenderLogJson) = Slice(WholeList, IF logged = <<>> THEN 1 ELSE BufSize - Reserve)
=============================================================================
