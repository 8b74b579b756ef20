------------------------------- MODULE Listing -------------------------------
(***************************************************************************)
(* A client that pages through ListShippers, ListSites or ListShipments    *)
(* while other calls write the store.  Each store operation holds the one  *)
(* database lock, and a List call makes one of them, so a call is a step;  *)
(* the writes fall between the pages.                                      *)
(*                                                                         *)
(* The writes are the store's own: every handler that changes a shipper    *)
(* ends in one `put_shipper`, and sites and shipments are only created.    *)
(* Of what a list reads only a shipper's `delete_time` ever changes, so a  *)
(* row is its other columns and `deleted` holds the soft-deleted rows.     *)
(***************************************************************************)
EXTENDS Keyset

CONSTANTS
  Shippers,       \* shipper ids, as texts' places in key order
  SiteRows,       \* the rows that a CreateSite may store
  ShipmentRows,   \* the rows that a CreateShipment may store
  Requests,       \* the requests that the client may send, pagination apart
  PageSizes,      \* the values of `page_size` that it sends
  Limits          \* SizeLimits: [default |-> .., max |-> ..]

Methods == {"ListShippers", "ListSites", "ListShipments"}
Wildcard == 0     \* the parent `shippers/-`
NoParent == -1    \* ListShippersRequest has no parent field

ShipperRow(s) == [shipper |-> Text(s)]

RowsOf(method) == CASE method = "ListShippers"  -> {ShipperRow(s) : s \in Shippers}
                    [] method = "ListSites"     -> SiteRows
                    [] method = "ListShipments" -> ShipmentRows

ASSUME LimitsArePositive ==
  Limits \in [default : Int, max : Int] /\ Limits.default > 0 /\ Limits.max > 0

\* The columns of the tables.  CreateSite stamps both times; a site without
\* a `lat_lng` has neither latitude nor longitude.
ASSUME RowsAreTyped ==
  /\ Shippers \subseteq Int /\ PageSizes \subseteq Int
  /\ SiteRows \subseteq
       [shipper : Texts, site : Texts, display_name : Texts, state : Texts,
        create_time : Texts, update_time : Texts,
        latitude : Numbers \cup {Null}, longitude : Numbers \cup {Null}]
  /\ ShipmentRows \subseteq [shipper : Texts, shipment : Texts]

\* Only ListSites takes an order, only ListShippers shows what is deleted; a
\* filter is the one display name it accepts, and Null accepts every row.
ASSUME RequestsAreTyped ==
  /\ Requests # {}
  /\ \A req \in Requests :
       /\ req \in [method : Methods, parent : Int, filter : Texts \cup {Null},
                   show_deleted : BOOLEAN,
                   order_by : Seq([column : Columns, desc : BOOLEAN])]
       /\ req.method = "ListShippers" <=> req.parent = NoParent
       /\ req.method # "ListSites" => req.order_by = <<>> /\ req.filter = Null
       /\ req.method # "ListShippers" => ~req.show_deleted

VARIABLES
  stored,     \* the rows of each method's table
  deleted,    \* the shipper rows whose `delete_time` is set
  phase,      \* of the client's scan: "idle", "open" or "done"
  request,    \* the request that the scan began with
  token,      \* the last `next_page_token`; <<>> is the empty one
  returned,   \* every row answered so far, in order
  steady,     \* the rows in the listing ever since the scan began
  status      \* of the last call

store == <<stored, deleted>>
scan  == <<phase, request, token, returned>>
vars  == <<stored, deleted, phase, request, token, returned, steady, status>>

-----------------------------------------------------------------------------
(* The listing a request asks for. *)

\* The listing's predicate without its seek: `scoped_predicate`, or the
\* soft-delete clause of `list_shippers`.
Selects(req, gone, r) ==
  /\ req.show_deleted \/ r \notin gone
  /\ req.method # "ListShippers" /\ req.parent # Wildcard => r.shipper = Text(req.parent)
  /\ req.filter # Null => r.display_name = req.filter

Listed(req, tables, gone) == {r \in tables[req.method] : Selects(req, gone, r)}

OrderOf(req) == TranspileOrderBy(req.method, req.order_by)

-----------------------------------------------------------------------------
(* Page: the AIP-158 preamble and the overfetch. *)

\* `request_checksum` hashes the encoded fields, and no field tells the
\* methods apart: the fields of ListSites and ListShipments coincide.
RequestChecksum(req) == <<req.parent, req.order_by, req.filter, req.show_deleted>>

\* `PageToken::parse`, for a token that decodes.
TokenVerifies(tok, req) == tok # <<>> => tok[2] = RequestChecksum(req)

ResolveSize(requested) ==
  LET base   == IF requested = 0 THEN Limits.default ELSE requested
      capped == IF base < Limits.max THEN base ELSE Limits.max
  IN  IF capped < 0 THEN 0 ELSE capped

\* Mutant: no probe row.
Mut_FetchLimit_NoProbe(size) == size

FetchLimit(size) == size + 1

\* `split_overfetch`: what of the fetched rows is the page, and its token.
SplitPage(rows, size) == SubSeq(rows, 1, IF Len(rows) < size THEN Len(rows) ELSE size)

\* Mutant: the probe row is not consulted, and a page without rows hands the
\* request's own token back.
Mut_NextToken_NoProbe(rows, size, req) ==
  LET page == SplitPage(rows, size)
  IN  IF page # <<>>
        THEN <<CursorEntries(OrderOf(req), page[Len(page)]), RequestChecksum(req)>>
        ELSE token

NextToken(rows, size, req) ==
  LET page == SplitPage(rows, size)
  IN  IF Len(rows) > size /\ page # <<>>
        THEN <<CursorEntries(OrderOf(req), page[Len(page)]), RequestChecksum(req)>>
        ELSE <<>>

\* Everything that a List handler checks before it reads the store.
Accepts(req, size, tok) ==
  /\ \A i \in DOMAIN req.order_by : req.order_by[i].column \in SortablePaths
  /\ TokenVerifies(tok, req)
  /\ size >= 0
  /\ tok # <<>> => CursorFits(tok[1], OrderOf(req))

\* The rows the query may answer: the listing, past the cursor.
Sought(req, tok) ==
  { r \in Listed(req, stored, deleted) :
      tok # <<>> => KeysetSeek(OrderOf(req), tok[1], r) }

-----------------------------------------------------------------------------
(* The List call. *)

\* A page is answered.  The client goes on with its token and, whatever it
\* sends next, expects the rest of the listing that it began.
ListAnswered(req, size) ==
  /\ phase # "done"
  /\ Accepts(req, size, token)
  /\ \E rows \in Fetched(Sought(req, token), OrderOf(req), FetchLimit(ResolveSize(size))) :
       /\ returned' = returned \o SplitPage(rows, ResolveSize(size))
       /\ token'    = NextToken(rows, ResolveSize(size), req)
       /\ phase'    = IF token' = <<>> THEN "done" ELSE "open"
  /\ request' = IF phase = "idle" THEN req ELSE request
  /\ steady'  = IF phase = "idle" THEN Listed(req, stored, deleted) ELSE steady
  /\ status'  = "OK"
  /\ UNCHANGED store

ListRejected(req, size) ==
  /\ phase # "done"
  /\ ~Accepts(req, size, token)
  /\ status' = "INVALID_ARGUMENT"
  /\ UNCHANGED <<stored, deleted, phase, request, token, returned, steady>>

-----------------------------------------------------------------------------
(* The writes. *)

Store(tables, gone) ==
  /\ stored'  = tables
  /\ deleted' = gone
  /\ steady'  = steady \cap Listed(request, tables, gone)
  /\ UNCHANGED <<phase, request, token, returned, status>>

Add(table, r) == [stored EXCEPT ![table] = @ \cup {r}]

\* `put_shipper` of CreateShipper and of the batch task: a minted key.
InsertShipper(s) ==
  /\ ShipperRow(s) \notin stored["ListShippers"]
  /\ Store(Add("ListShippers", ShipperRow(s)), deleted)

\* Mutant: a delete upserts a shipper that it did not find.
Mut_MarkDeleted_NotFound(s) == Store(stored, deleted \cup {ShipperRow(s)})

\* `put_shipper` of DeleteShipper.
MarkDeleted(s) ==
  /\ ShipperRow(s) \in stored["ListShippers"] \ deleted
  /\ Store(stored, deleted \cup {ShipperRow(s)})

\* `put_shipper` of UndeleteShipper.
ClearDeleted(s) ==
  /\ ShipperRow(s) \in deleted
  /\ Store(stored, deleted \ {ShipperRow(s)})

\* `put_site` of CreateSite: the shipper's row is there, soft-deleted or not
\* (`require_shipper`, the foreign key), and the site's id is minted.
PutSite(r) ==
  /\ \E q \in stored["ListShippers"] : q.shipper = r.shipper
  /\ \A q \in stored["ListSites"] : <<q.shipper, q.site>> # <<r.shipper, r.site>>
  /\ Store(Add("ListSites", r), deleted)

PutShipment(r) ==
  /\ \E q \in stored["ListShippers"] : q.shipper = r.shipper
  /\ \A q \in stored["ListShipments"] : <<q.shipper, q.shipment>> # <<r.shipper, r.shipment>>
  /\ Store(Add("ListShipments", r), deleted)

-----------------------------------------------------------------------------
Init ==
  /\ stored = [m \in Methods |-> {}]
  /\ deleted = {}
  /\ phase = "idle"
  /\ request = CHOOSE req \in Requests : TRUE
  /\ token = <<>>
  /\ returned = <<>>
  /\ steady = {}
  /\ status = "OK"

Write ==
  \/ \E s \in Shippers : InsertShipper(s) \/ MarkDeleted(s) \/ ClearDeleted(s)
  \/ \E r \in SiteRows : PutSite(r)
  \/ \E r \in ShipmentRows : PutShipment(r)

Next ==
  \/ Write
  \/ \E req \in Requests, size \in PageSizes : ListAnswered(req, size) \/ ListRejected(req, size)

Spec == Init /\ [][Next]_vars

\* The client that wants its listing keeps following the token.
Follows == phase = "open" /\ \E size \in PageSizes : ListAnswered(request, size)

FairSpec == Spec /\ WF_vars(Follows)

-----------------------------------------------------------------------------
\* The tables hold their own kinds of row, only stored shippers are deleted,
\* what was answered is stored, and a scan is open exactly while it has a token.
TypeOK ==
  /\ stored \in [Methods -> SUBSET UNION {RowsOf(m) : m \in Methods}]
  /\ \A m \in Methods : stored[m] \subseteq RowsOf(m)
  /\ deleted \subseteq stored["ListShippers"]
  /\ phase \in {"idle", "open", "done"}
  /\ request \in Requests
  /\ returned \in Seq(stored[request.method])
  /\ steady \subseteq Listed(request, stored, deleted)
  /\ (phase = "open") <=> (token # <<>>)
  /\ status \in {"OK", "INVALID_ARGUMENT"}

\* The pages of one scan, laid end to end, are in the order that the first
\* request asked for, each row strictly after the one before it: whatever is
\* written between the pages and whatever the client changes in its request,
\* no accepted call answers a row twice or a row of another listing.
PagesInOrder ==
  \A i, j \in DOMAIN returned :
    i < j => /\ returned[i] # returned[j]
             /\ RowBefore(OrderOf(request), returned[i], returned[j])

\* The token never overtakes a row: a row that was in the listing when the
\* scan began and is in it still has been answered, or lies past the cursor
\* where the seek of the next page finds it.
NothingPassed ==
  phase # "idle" =>
    \A r \in steady :
      \/ \E i \in DOMAIN returned : returned[i] = r
      \/ phase = "open" /\ KeysetSeek(OrderOf(request), token[1], r)

\* An empty `next_page_token` means the end: every row that was in the
\* listing from the first page to the last one was answered.
ScanComplete ==
  phase = "done" => \A r \in steady : \E i \in DOMAIN returned : returned[i] = r

\* A client that keeps following the token comes to the end of its listing.
ScanEnds == phase = "open" ~> phase = "done"
=============================================================================
