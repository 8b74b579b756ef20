---------------------------- MODULE ShipperHistory ----------------------------
(***************************************************************************)
(* ShipperStore with a history of who minted what and of which names an    *)
(* update has spelled in another way, and its properties.                  *)
(***************************************************************************)
EXTENDS ShipperStore

VARIABLES
  minted,     \* [call, id, name] of every put of a created shipper
  respelled   \* names some update has carried in another than the canonical text

hvars == <<vars, minted, respelled>>

HInit == Init /\ minted = {} /\ respelled = {}

(* A create has just been stored: its call moved from "put" to "record".    *)
ObserveMints ==
  minted' = minted \cup
    {[call |-> c, id |-> call[c].request.id, name |-> call[c].new.name] :
       c \in {d \in Calls : /\ call[d].pc = "put" /\ call[d].method = "create"
                            /\ call'[d].pc # "put"}}

ObserveSpellings ==
  respelled' = respelled \cup
    {n \in Names : \E c \in Calls : /\ call'[c].new # None
                                    /\ call'[c].new.name = n
                                    /\ call'[c].new.spelling # Canonical}

Observe == ObserveMints /\ ObserveSpellings

HNext == Next /\ Observe

HSpec == HInit /\ [][HNext]_hvars

-------------------------------------------------------------------------------
(* A shipper's etag is the digest of its content under some spelling of its *)
(* name; and under the canonical one, so that the freshness check accepts   *)
(* it, when the name is not among those an update carried in another.       *)
Described(shipper, others) ==
  /\ \E t \in Spellings : shipper.etag = Compute([shipper EXCEPT !.spelling = t])
  /\ shipper.name \notin others => Check(shipper.etag, Row(shipper))

(* The etag a read returns, or a call is about to store, never goes stale   *)
(* on any path (update, delete, undelete, an in-flight copy written back):  *)
(* it always digests the very content it is stored with, and until somebody *)
(* updates the shipper under another spelling of its name it is the one     *)
(* aip_etag::check will compute.  The check never looks at the stored       *)
(* string, so an etag it refuses fails every honest read-modify-write.      *)
EtagDescribesContent ==
  /\ \A n \in Names : store[n] # None => store[n].name = n /\ Described(store[n], respelled)
  /\ \A c \in Calls : call[c].new # None => Described(call[c].new, respelled)

(* Every shipper CreateShipper has answered, replayed or not, was made from *)
(* that very request and is in the store: the record is written after the   *)
(* put, and an id reused for another request is refused.                    *)
AnswersAreHonest ==
  \A a \in answers :
    /\ a.shipper.content = a.request.content
    /\ store[a.shipper.name] # None

(* A client that waits for its answer before it retries never creates two   *)
(* shippers under one request_id, whatever other calls do with that id.     *)
RetryNeverMintsTwice ==
  \A m1, m2 \in minted :
    (m1.id # NoId /\ m1.id = m2.id /\ m1.call = m2.call) => m1.name = m2.name

(* Why, as an inductive invariant.  A handler past its first step holds a   *)
(* shipper; a create's was built from its request and is stored by the time *)
(* it is recorded; what is recorded stays stored.                           *)
CallInv(c) ==
  /\ call[c].pc # "idle" => call[c].new \in Shipper
  /\ call[c].pc = "record" => call[c].method = "create"
  /\ (call[c].pc # "idle" /\ call[c].method = "create") =>
       /\ call[c].request \in Request
       /\ call[c].new.content = call[c].request.content
  /\ call[c].pc = "record" => store[call[c].new.name] # None

RecordInv(i) ==
  idempotency[i] # None =>
    /\ idempotency[i].response.content = idempotency[i].request.content
    /\ store[idempotency[i].response.name] # None

(* A shipper minted under an id is recorded, or its call is just about to   *)
(* record it; and a call that has yet to put has minted nothing under its   *)
(* id.                                                                      *)
MintInv ==
  /\ \A m \in minted : m.id # NoId =>
       \/ idempotency[m.id] # None
       \/ call[m.call].pc = "record" /\ call[m.call].request.id = m.id
  /\ \A c \in Calls : (call[c].pc = "put" /\ call[c].method = "create") =>
       \A m \in minted : (m.call = c /\ m.id = call[c].request.id) => m.id = NoId

(* A read rebuilds the canonical name, whatever was put.                    *)
RowsAreCanonical ==
  /\ respelled \subseteq Names
  /\ \A n \in Names : store[n] # None => store[n].spelling = Canonical

ShipperInv ==
  /\ TypeOK
  /\ minted \subseteq [call : Calls, id : RequestIds \cup {NoId}, name : Names]
  /\ RowsAreCanonical
  /\ \A c \in Calls : CallInv(c)
  /\ \A i \in RequestIds : RecordInv(i)
  /\ EtagDescribesContent
  /\ AnswersAreHonest
  /\ MintInv
  /\ RetryNeverMintsTwice

-------------------------------------------------------------------------------
(* What the documentation claims.  Two calls that interleave break the      *)
(* first, one update with a name in another spelling breaks the second.     *)

Writes(c, method) ==
  call[c].pc = "put" /\ call[c].method = method /\ call'[c].pc # "put"

Target(c) == store[call[c].new.name]

(* aip-etag: "verifies the etag a client sends back on update/delete before *)
(* acting, so a concurrent writer can no longer silently clobber".  A       *)
(* conditional write replaces the content its etag names.                   *)
NoSilentClobber ==
  [][\A c \in Calls :
       ((Writes(c, "update") \/ Writes(c, "delete")) /\ call[c].etag # NoEtag)
         => Compute(Target(c)) = call[c].etag]_hvars

(* update_shipper: the response carries "the value the next read-modify-    *)
(* write must echo".  The etag a read returns passes the freshness check of *)
(* the row it was read from.                                                *)
EtagReadIsFresh ==
  \A n \in Names : store[n] # None => Check(store[n].etag, store[n])
===============================================================================
