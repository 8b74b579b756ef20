------------------------------- MODULE Shipper -------------------------------
(***************************************************************************)
(* The Shipper resource and the aip-* primitives its handlers apply to it: *)
(* the content etag (aip-etag), soft delete (aip-softdelete) and request   *)
(* identification (aip-requestid).                                         *)
(*                                                                         *)
(* A shipper is abstracted to its name, its one client-owned field         *)
(* display_name (`content`), whether delete_time is set, and the etag      *)
(* string.  create_time and update_time are left out: no check reads them. *)
(* The text of the name is the typed name and a spelling of it: one name   *)
(* parses from `shippers/x`, `/shippers/x` and `//service/shippers/x`, and *)
(* what is digested is the text.                                           *)
(***************************************************************************)
EXTENDS Naturals

CONSTANTS
  Names,      \* names ShipperResourceName::mint may return
  Spellings,  \* the ways to write a name that parse to it
  Canonical,  \* the one ShipperResourceName prints
  Contents,   \* non-empty display names
  Etags,      \* well-formed etags: eight lowercase hex digits
  NoEtag,     \* the empty etag of an unconditional write
  BadEtag,    \* any string that is not eight lowercase hex digits
  Digest,     \* CRC32 of the encoded name text and display_name; may collide
  None        \* Rust's Option::None

ASSUME SpellingAssumption == Canonical \in Spellings
ASSUME DigestAssumption == Digest \in [Names \X Spellings \X Contents -> Etags]
ASSUME EtagAssumption == NoEtag \notin Etags /\ BadEtag \notin Etags /\ NoEtag # BadEtag

Shipper == [name : Names, spelling : Spellings, content : Contents,
            deleted : BOOLEAN, etag : Etags]

ASSUME NoShipperAssumption == None \notin Shipper

(* aip_etag::compute: the etag field and the OUTPUT_ONLY delete_time are    *)
(* not part of what is digested.                                            *)
Compute(shipper) == Digest[<<shipper.name, shipper.spelling, shipper.content>>]

(* aip_etag::check, true when the write may proceed.  The supplied token is *)
(* compared with a fresh digest, never with the stored etag field.          *)
Check(supplied, current) ==
  \/ supplied = NoEtag
  \/ supplied \in Etags /\ supplied = Compute(current)

(* softdelete::check_visible with show_deleted unset, and check_deleted.    *)
CheckVisible(shipper) == ~shipper.deleted
CheckDeleted(shipper) == shipper.deleted

(* build_shipper: OUTPUT_ONLY inputs are cleared, the name is minted.       *)
BuildShipper(name, content) ==
  [name |-> name, spelling |-> Canonical, content |-> content, deleted |-> FALSE,
   etag |-> Digest[<<name, Canonical, content>>]]

(* update_shipper after the freshness check: fieldmask::update merges the   *)
(* request into the stored shipper (`None`: the mask or the request leaves  *)
(* display_name alone), copy_fields restores delete_time from the stored    *)
(* one, and the etag is computed anew whatever the mask copied into it.  A  *)
(* mask that is empty, `*` or names `name` copies the request's name as it  *)
(* is spelled: `spelling` is the one the merge leaves there, and the etag   *)
(* is the digest of that text.                                              *)
Mut_Merge_StaleEtag(existing, spelling, content) ==
  [existing EXCEPT !.spelling = spelling,
                   !.content = IF content = None THEN @ ELSE content]

Merge(existing, spelling, content) ==
  LET merged == IF content = None THEN existing.content ELSE content IN
  [existing EXCEPT !.spelling = spelling, !.content = merged,
                   !.etag = Digest[<<existing.name, spelling, merged>>]]

(* What put_shipper stores and row_to_shipper gives back: the row is keyed  *)
(* by the typed name, from which a read rebuilds the canonical text; the    *)
(* etag is a column like any other.                                         *)
Row(shipper) == [shipper EXCEPT !.spelling = Canonical]

(* Replay::decide, given the recorded request or None.                      *)
Mut_Decide_NoConflict(recorded, request) ==
  IF recorded = None THEN "New" ELSE "Replayed"

Mut_Decide_NeverReplays(recorded, request) ==
  IF recorded = None \/ recorded = request THEN "New" ELSE "Conflict"

Decide(recorded, request) ==
  CASE recorded = None     -> "New"
    [] recorded = request  -> "Replayed"
    [] OTHER               -> "Conflict"
==============================================================================
