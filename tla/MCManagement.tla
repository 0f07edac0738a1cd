---------------------------- MODULE MCManagement ----------------------------
(* Instances of Management for TLC. *)
EXTENDS Management

(* Key slots: a tagged key, one of the wrong length, one in PEM, an unread- *)
(* able text and an empty slot.                                             *)
TaggedKey == <<5>>
PemKey == <<9>>

Slots ==
  << [form |-> "v1", text |-> B64Encode(<<5, 5>>)], [form |-> "text", text |-> <<1>>],
     [form |-> "v1", text |-> B64Encode(TaggedKey)], [form |-> "v1", text |-> <<>>],
     [form |-> "pem", text |-> PemKey] >>

Digest(body) == 16 * Len(body) + body[1]

SignatureOf(key, body) == Some(B64Encode(<<key[1], Digest(body)>>))

SchemeVerifies(key, body, sig) == sig = <<key[1], Digest(body)>>

Request(body, signature, rightly) ==
  [body |-> body, signature |-> signature, rightly |-> rightly]

Writes ==
  {Request(<<7, 8>>, SignatureOf(TaggedKey, <<7, 8>>), TRUE),
   Request(<<7, Nul, 8>>, SignatureOf(PemKey, <<7>>), TRUE),
   Request(<<7, 8>>, SignatureOf(<<6>>, <<7, 8>>), FALSE),
   Request(<<7, 8>>, None, FALSE),
   Request(<<Nul>>, Some(<<1, 2, 3>>), FALSE)}

Word(body, signature, rightly, kind) ==
  [body |-> body, signature |-> signature, rightly |-> rightly, kind |-> kind]

Words ==
  {Word(<<110, Quote, 1, Quote, 6>>, SignatureOf(PemKey, <<1>>), TRUE, "Restart"),
   Word(<<111, 110, 3, Nul, 6>>, SignatureOf(TaggedKey, <<3>>), TRUE, "FactoryReset"),
   Word(<<Quote, 5>>, None, TRUE, "Status"), Word(<<6>>, None, TRUE, "Unknown"),
   Word(<<4>>, SignatureOf(PemKey, <<3>>), FALSE, "FactoryReset")}

File(level, sends) ==
  [level |-> level, length |-> Len(sends), expected |-> Some(sends),
   signed |-> IF level = 0 THEN None ELSE Some(CText(sends)), cap |-> DefaultCap(Len(sends)),
   sends |-> sends]

Image == <<1, 2, 3, 4>>

Files ==
  {File(level, Image) : level \in 0 .. 2}
    \cup {[File(level, Image) EXCEPT !.expected = e] :
            level \in 0 .. 1, e \in {None, Some(<<1, 2>>), Some(<<9>>)}}
    \cup {[File(1, Image) EXCEPT !.signed = s] : s \in {None, Some(<<1, 2>>)}}
    \cup {[File(1, Image) EXCEPT !.cap = 2], File(1, <<1, Nul, 2>>), File(1, <<Nul, 1>>),
          [File(0, Image) EXCEPT !.length = 3, !.expected = Some(<<1, 2, 3>>)],
          [File(0, Image) EXCEPT !.length = 6], [File(0, <<>>) EXCEPT !.cap = 0]}

LogLines ==
  {<<>>, <<1>>, <<Nul, 2>>, <<4, 120, 121, 121, 122>>, <<9, 9, 9, 9, 9, 9, 9>>}

OnText == <<104, 105>>

RegionNames == <<107, 108>> :> "EUR"

TypedTexts ==
  {<<4, 2>>, <<0, 1, 0>>, <<0, 9>>, <<0>>, <<Minus, 1>>, <<Plus, 0, LetterX, 1, 15>>,
   <<3, 0, 0, 104>>, <<7, 0, 0, 0, 0>>, <<0, LetterX, 15, 15, 15, 15, 15>>, <<104, 105>>,
   <<Minus>>, <<>>, <<107, 108>>}

(* Regions of a two-letter name, the small letter after the capital; texts  *)
(* with a NUL, with a character of two bytes at the cut, in another case.   *)
NamesOfRegions == (0 :> <<110, 112>>) @@ (1 :> <<114, 110>>) @@ (2 :> <<116, 118>>)

SsidText == <<5, 6>>

DocumentValues ==
  {Number(n * Thousand) : n \in {-40000, -3, 0, 1, 2, 3, 13, 14, 130, 600, 4096, 40000}}
    \cup {Number(n) : n \in {-40, 2040, 4960, 12340}}
    \cup {Text(t) : t \in {<<>>, <<3, Nul, 4>>, <<7, Lead, Trail>>, <<1, 2, Lead, Trail>>,
                           <<Lead, Trail, Lead, Trail>>, <<115, 110>>}}
    \cup {Truth(TRUE)}

PemKeyTexts == (<<1>> :> 64) @@ (<<2>> :> 40) @@ (<<4>> :> 17) @@ (<<5>> :> 400)

GivenPems == {<<>>, <<3>>} \cup DOMAIN PemKeyTexts

UasIds == {<<>>, <<Nul, 1>>, <<1, 2>>, <<4, 4, 4, Nul>>}

(* A key is the size of its signatures: 64 bytes, the sizes that just fill *)
(* one page and two, and one that is too large.                            *)
SchemeSigns(key, id) == [i \in 1 .. key |-> ((11 * i) + id[1] + Len(id)) % 251]

(* What is written in base 64 or in hexadecimal is read back; a text of    *)
(* another length, with a wrong character or a wrong padding is refused.   *)
SmallTexts == SeqOf({0, 7, 129, 255}, 3)

ASSUME TextAssumption ==
  /\ \A b \in SmallTexts \ {<<>>} : B64Decode(B64Encode(b)) = Some(b)
  /\ \A b \in SmallTexts :
       /\ HexToBytes(BytesToHex(b), Len(b)) = Some(b)
       /\ HexToBytes(BytesToHex(b), Len(b) + 1) = None
  /\ \A t \in SeqOf({1, B64Pad, 70}, 4) :
       B64Decode(t) # None =>
         /\ Len(t) = 4 /\ 70 \notin ToSet(t)
         /\ t[1] # B64Pad /\ t[2] # B64Pad /\ (t[3] = B64Pad => t[4] = B64Pad)
=============================================================================
