--------------------------- MODULE NmeaSentences ---------------------------
(***************************************************************************)
(* The NMEA parser.  A line is a sequence of words (the runs of characters *)
(* between separators), commas, the star before the checksum and the       *)
(* newline.  The checksum is dropped unread; empty fields vanish, as in    *)
(* strtok, and those behind them move up.                                  *)
(***************************************************************************)
EXTENDS Naturals, Sequences, SequencesExt

CONSTANTS
  Coordinates,   (* the words of the form ddmm.mmmm                          *)
  Integer,       (* c_atoi of the words that start with a digit              *)
  NmeaBuffer,    (* NMEA_BUF_SIZE ...                                        *)
  LineMax,       (* ... LINE_MAX, both in words and separators ...           *)
  MaxFields      (* ... and MAX_FIELDS                                       *)

ASSUME NmeaAssumption ==
  /\ NmeaBuffer \in Nat \ {0} /\ LineMax \in Nat \ {0} /\ MaxFields \in Nat /\ MaxFields >= 7
  /\ \A w \in DOMAIN Integer : Integer[w] \in Nat

Comma   == ","
Star    == "*"
NewLine == "newline"

Gga == {"$GPGGA", "$GNGGA"}
Rmc == {"$GPRMC", "$GNRMC"}
Vtg == {"$GPVTG", "$GNVTG"}

Nowhere == [at |-> "none", negative |-> FALSE]

(* gps: the snapshot. *)
NmeaNew ==
  [buf |-> <<>>, gps |-> [fix_type |-> 0, lat |-> Nowhere, lon |-> Nowhere, heading |-> 0]]

-----------------------------------------------------------------------------
(* Fields.  Two words without a comma between them are one field, which    *)
(* the conversions read from its start.                                    *)

Atoi(field) == IF field[1] \in DOMAIN Integer THEN Integer[field[1]] ELSE 0

(* c_atof, of which the heading takes the whole degrees. *)
Atof(field) == Atoi(field)

(* nmea_to_decimal. *)
Decimal(field, dir) ==
  [at |-> IF field[1] \in Coordinates THEN field[1] ELSE "other",
   negative |-> dir # <<>> /\ dir[1] \in {"S", "W"}]

(* A run of commas is one separator. *)
Token(a, w) ==
  IF w = Comma THEN [a EXCEPT !.open = FALSE]
  ELSE IF a.open THEN [a EXCEPT !.fields[Len(a.fields)] = Append(@, w)]
  ELSE [fields |-> Append(a.fields, <<w>>), open |-> TRUE]

Strtok(line) == FoldLeft(Token, [fields |-> <<>>, open |-> FALSE], line).fields

-----------------------------------------------------------------------------
(* parse_gga, parse_rmc and parse_vtg; fields[1] is the name. *)

ParseGga(gps, fields) ==
  IF Len(fields) < 7 \/ Atoi(fields[7]) < 1 THEN gps
  ELSE [gps EXCEPT !.fix_type = IF Atoi(fields[7]) >= 2 THEN 3 ELSE 1,
                   !.lat = Decimal(fields[3], fields[4]), !.lon = Decimal(fields[5], fields[6])]

(* Mutant: the status letter is not looked at. *)
ParseRmcVoid(gps, fields) ==
  IF Len(fields) < 6 THEN gps
  ELSE [gps EXCEPT !.lat = Decimal(fields[4], fields[5]),
                   !.lon = Decimal(fields[6], IF Len(fields) > 6 THEN fields[7] ELSE <<>>)]

ParseRmc(gps, fields) ==
  IF Len(fields) < 6 \/ fields[3][1] # "A" THEN gps
  ELSE [gps EXCEPT !.lat = Decimal(fields[4], fields[5]),
                   !.lon = Decimal(fields[6], IF Len(fields) > 6 THEN fields[7] ELSE <<>>)]

ParseVtg(gps, fields) == [gps EXCEPT !.heading = Atof(fields[2])]

ParseFields(gps, fields) ==
  IF Len(fields) < 2 \/ Len(fields[1]) # 1 THEN gps
  ELSE CASE fields[1][1] \in Gga -> ParseGga(gps, fields)
         [] fields[1][1] \in Rmc -> ParseRmc(gps, fields)
         [] fields[1][1] \in Vtg -> ParseVtg(gps, fields)
         [] OTHER -> gps

ParseLine(gps, line) ==
  LET work   == SubSeq(line, 1, IF Len(line) < LineMax THEN Len(line) ELSE LineMax - 1)
      star   == SelectInSeq(work, LAMBDA w : w = Star)
      tokens == Strtok(IF star = 0 THEN work ELSE SubSeq(work, 1, star - 1))
  IN  ParseFields(gps, SubSeq(tokens, 1, IF Len(tokens) < MaxFields THEN Len(tokens) ELSE MaxFields))

(* Mutant: only the newline ends a line. *)
NmeaFeedUnbounded(p, w) ==
  IF w = NewLine THEN [buf |-> <<>>, gps |-> ParseLine(p.gps, p.buf)]
  ELSE [p EXCEPT !.buf = Append(@, w)]

(* feed, one word or separator.  A line ends with the newline, or where    *)
(* the buffer does; what ended it is dropped.  That the line starts with   *)
(* "$" follows from the name of the sentence.                              *)
NmeaFeed(p, w) ==
  IF w = NewLine \/ Len(p.buf) >= NmeaBuffer - 1
  THEN [buf |-> <<>>, gps |-> ParseLine(p.gps, p.buf)]
  ELSE [p EXCEPT !.buf = Append(@, w)]

(* get: the last snapshot, for ever. *)
NmeaHasPosition(p) == p.gps.fix_type >= 2 /\ p.gps.lat.at # "none"

-----------------------------------------------------------------------------
(* The receiver that sends: s is the sequence of the fields of a sentence, *)
(* "" for an empty one.                                                    *)

FieldWords(s, i) ==
  (IF i = 1 THEN <<>> ELSE <<Comma>>) \o (IF s[i] = "" THEN <<>> ELSE <<s[i]>>)

NmeaWords(s) ==
  FlattenSeq([i \in DOMAIN s |-> FieldWords(s, i)]) \o <<Star, "checksum", NewLine>>

(* Fields move up in front of those that are read only where too few are   *)
(* left for a position; and the sentence fits the buffers.                 *)
ReadInPlace(s) ==
  LET given == {i \in DOMAIN s : s[i] # ""}
      size  == Len(NmeaWords(s))
  IN  /\ s \in Seq({s[i] : i \in DOMAIN s}) /\ 1 \in given
      /\ \A i \in DOMAIN s : s[i] \notin {Comma, Star, NewLine}
      /\ size <= NmeaBuffer /\ size < LineMax + 3
      /\ s[1] \in Gga =>
           \/ /\ 1 .. 7 \subseteq given /\ s[7] \in DOMAIN Integer
              /\ {s[3], s[5]} \subseteq Coordinates /\ s[4] # "W" /\ s[6] # "S"
           \/ Cardinality(given) < 7 /\ ~(3 .. 7 \subseteq given)
      /\ s[1] \in Rmc =>
           \/ /\ 1 .. 7 \subseteq given
              /\ {s[4], s[6]} \subseteq Coordinates /\ s[5] # "W" /\ s[7] # "S"
           \/ 1 .. 3 \subseteq given /\ s[3] # "A"
           \/ Cardinality(given) < 6 /\ ~(3 .. 6 \subseteq given)

(* The position a sentence gives, read field by field at its own place;    *)
(* one that reports no fix gives none.                                     *)
NmeaMeans(gps, s) ==
  LET full(i, j)       == Len(s) >= j /\ \A k \in i .. j : s[k] # ""
      degrees(i, south) == [at |-> s[i], negative |-> Len(s) > i /\ s[i + 1] = south]
  IN  CASE s[1] \in Gga /\ full(3, 7) /\ Integer[s[7]] # 0 ->
             [fix_type |-> IF Integer[s[7]] = 1 THEN 1 ELSE 3,
              lat |-> degrees(3, "S"), lon |-> degrees(5, "W")]
        [] s[1] \in Rmc /\ full(4, 6) /\ s[3] = "A" ->
             [fix_type |-> gps.fix_type, lat |-> degrees(4, "S"), lon |-> degrees(6, "W")]
        [] OTHER -> [fix_type |-> gps.fix_type, lat |-> gps.lat, lon |-> gps.lon]
=============================================================================
