----------------------------- MODULE AuthSigner -----------------------------
(***************************************************************************)
(* The signer of rid-core: a key is read from its PEM text, and the        *)
(* signature of an identity is cut into the pages of an Authentication     *)
(* message.                                                                *)
(***************************************************************************)
EXTENDS Texts

CONSTANTS
  PageZeroSize, PageSize,   (* AUTH_PAGE_ZERO_DATA_SIZE and .._NONZERO_..    *)
  MaxPages,                 (* AUTH_MAX_PAGES                                *)
  PemTexts,                 (* the texts a key may be given as ...           *)
  KeyOf,                    (* ... and the key of each that can be read      *)
  SignedIds,                (* the identities that are signed                *)
  Sign(_, _)                (* the signature of the scheme: key and text     *)

ASSUME PageAssumption ==
  /\ {PageZeroSize, PageSize, MaxPages} \subseteq Nat \ {0} /\ PageZeroSize <= PageSize
  /\ \A pem \in DOMAIN KeyOf : \A id \in SignedIds :
       (id # <<>> /\ id[1] # Nul) => Sign(KeyOf[pem], id) \in Seq(Nat)

VARIABLES
  signing_key,   (* the key or None                                          *)
  pack,          (* the pages that sign_identity returned, or None           *)
  sig_of_pack    (* history: the signature they were cut from                *)

signerVars == <<signing_key, pack, sig_of_pack>>

(* AuthSigner::init: None, an empty text and what is no key turn it off. *)
SignerInit ==
  /\ signing_key = None /\ pack = None /\ sig_of_pack = <<>>

SetKey(pem) ==
  /\ signing_key' = IF pem \in DOMAIN KeyOf THEN Some(KeyOf[pem]) ELSE None
  /\ pack' = None /\ sig_of_pack' = <<>>

(* Mutant: the rest is divided without rounding up. *)
PagesForFloor(size) ==
  IF size > PageZeroSize THEN 1 + (size - PageZeroSize) \div PageSize ELSE 1

PagesFor(size) ==
  IF size > PageZeroSize
  THEN 1 + (size - PageZeroSize + PageSize - 1) \div PageSize ELSE 1

(* A signature that is not too long for the pages is not too long for the  *)
(* byte that counts its length: those of Ed25519 have 64 bytes.            *)
ASSUME LengthAssumption ==
  \A pem \in DOMAIN KeyOf : \A id \in SignedIds :
    (id # <<>> /\ id[1] # Nul) =>
      LET size == Len(Sign(KeyOf[pem], id)) IN size < ByteMod \/ PagesFor(size) > MaxPages

Offset(p) == IF p = 0 THEN 0 ELSE PageZeroSize + (p - 1) * PageSize

(* The buffer of a page has room for one byte more than any page carries. *)
Page(sig, p) ==
  LET room  == IF p = 0 THEN PageZeroSize ELSE PageSize
      chunk == SubSeq(sig, Offset(p) + 1, Least(Offset(p) + room, Len(sig)))
  IN  [data_page |-> p, auth_type |-> 1, last_page_index |-> PagesFor(Len(sig)) - 1,
       length |-> Len(sig) % ByteMod,
       auth_data |-> [i \in 1 .. PageSize + 1 |-> IF i <= Len(chunk) THEN chunk[i] ELSE 0]]

(* sign_identity *)
Signable(id) ==
  /\ signing_key # None /\ id # <<>> /\ id[1] # Nul
  /\ PagesFor(Len(Sign(signing_key.some, id))) <= MaxPages

SignIdentity(id) ==
  LET sig == Sign(signing_key.some, id)
  IN  /\ IF Signable(id)
         THEN /\ pack' = Some([p \in 0 .. PagesFor(Len(sig)) - 1 |-> Page(sig, p)])
              /\ sig_of_pack' = sig
         ELSE pack' = None /\ sig_of_pack' = <<>>
      /\ UNCHANGED signing_key

SignerNext ==
  \/ \E pem \in PemTexts : SetKey(pem)
  \/ \E id \in SignedIds : SignIdentity(id)

-----------------------------------------------------------------------------
(* What a receiver puts together: as many pages as page 0 announces, as    *)
(* many bytes of each as its place has room for, cut to the length.        *)
PutTogether(pages) ==
  Slice(FoldLeft(LAMBDA text, p :
                   text \o SubSeq(pages[p].auth_data, 1, IF p = 0 THEN PageZeroSize ELSE PageSize),
                 <<>>, [i \in 1 .. pages[0].last_page_index + 1 |-> i - 1]),
        pages[0].length)

(* auth.rs:66-102: the pages of a signature of any size, put together by a *)
(* receiver that knows only them, are that signature.                      *)
PagesMakeSignature ==
  pack # None =>
    /\ DOMAIN pack.some = 0 .. pack.some[0].last_page_index
    /\ PutTogether(pack.some) = sig_of_pack
=============================================================================
