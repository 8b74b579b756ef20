------------------------------- MODULE Access -------------------------------
(* FreightService while its stores change: GetShipper behind the AIP-211     *)
(* gate, CreateSite and CreateShipment over the shared idempotency cache,    *)
(* BatchGetSites, and ListOperations with its offset pages.                  *)
(*                                                                           *)
(* One action is one access to a store with the computation that follows it; *)
(* the writers of other modules (SetIamPolicy, soft delete, a new operation) *)
(* are single steps here.  `workload` says which clients run: the operation  *)
(* store shares nothing with the others, the reads and the creates meet only  *)
(* in the shippers table, which changes in both, and Boundary has no store.  *)
EXTENDS Boundary, Orders

CONSTANTS
  Shippers, NotAShipper,           \* shippers' names as the store writes them, and another text
  Respelled,                       \* other texts that parse as one of them: "/shippers/x"
  Collection,                      \* "shippers"
  Callers, Anonymous, AllUsers, AllAuthenticatedUsers,
  Policies, NoPolicy,              \* the members of a policy's bindings
  Calls, NoCall,                   \* create and batch calls in flight
  RequestIds, NoId, Texts, NoText, \* request ids, display names and origin sites
  Ids,                             \* what generate_system may return
  Batches,                         \* the pairs of site names that a batch may ask for
  Operations,                      \* operation names: naturals, in name order
  PageSizes, DefaultSize, MaxSize  \* 50 and 1000 in the code

ASSUME AccessAssumption ==
  /\ Operations \subseteq Nat /\ IsFiniteSet(Operations)
  /\ DefaultSize \in 1..MaxSize /\ MaxSize \in Nat
  /\ PageSizes \subseteq Nat
  /\ Respelled \in [DOMAIN Respelled -> Shippers]
  /\ Shippers \cap DOMAIN Respelled = {} /\ NotAShipper \notin Shippers \cup DOMAIN Respelled

Names == Shippers \cup DOMAIN Respelled \cup {NotAShipper}

VARIABLES
  workload,      \* "read", "create", "operations" or "respond"
  shippers,      \* Storage.db: a shipper's row is absent, live or deleted
  policies,      \* PolicyStore, by the resource's text as SetIamPolicy was sent it
  get,           \* the GetShipper call in flight
  status,        \* what the last call answered
  rows,          \* Storage.db: the sites and shipments tables
  idempotency,   \* Storage.idempotency
  call,          \* the creates and batch reads in flight
  created,       \* ... and the row, if it was a create and no preview
  operations,    \* OperationStore: unused, present or removed
  scan           \* one client paging through ListOperations

reads   == <<policies, get>>
creates == <<rows, idempotency, call, created>>
pages   == <<operations, scan>>
vars    == <<workload, shippers, status, reads, creates, pages, responses>>

-----------------------------------------------------------------------------
(* GetShipper.                                                               *)

GrantAdmits(granted, caller) ==
  \/ granted = AllUsers
  \/ caller # Anonymous /\ granted \in {AllAuthenticatedUsers, caller}

\* `authorized`: a resource without a policy is public.  `resource` is a text:
\* each spelling of a name has a policy of its own, or none.
Authorized(caller, resource) ==
  \/ policies[resource] = NoPolicy
  \/ \E granted \in policies[resource] : GrantAdmits(granted, caller)

\* ShipperResourceName::parse, and as_str of what it returns.
Parse(name) == IF name \in DOMAIN Respelled THEN Respelled[name] ELSE name
ParsesAsShipper(name) == Parse(name) \in Shippers

\* get_shipper by the parsed name; anything else is in no row.
ShipperRow(name) == IF ParsesAsShipper(name) THEN shippers[Parse(name)] ELSE "absent"

IsVisible(row, show_deleted) == row = "live" \/ (show_deleted /\ row = "deleted")

\* What the call could have read: each set grows with every change meanwhile.
Sees(g) == [authorized |-> g.seen.authorized \cup {Authorized(g.caller, g.name)},
            parent     |-> g.seen.parent \cup {Authorized(g.caller, Collection)},
            row        |-> g.seen.row \cup {ShipperRow(g.name)}]
NothingSeen == [authorized |-> {}, parent |-> {}, row |-> {}]

\* A change of a store while the call runs; what it could read is taken after it.
Watched == IF get = NoCall THEN UNCHANGED get
           ELSE \E g \in {get} : get' = [g EXCEPT !.seen = Sees(g)']

Begin(name, caller, show_deleted) ==
  LET g == [pc |-> "gate", name |-> name, caller |-> caller, show_deleted |-> show_deleted, seen |-> NothingSeen]
  IN  /\ get = NoCall
      /\ get' = [g EXCEPT !.seen = Sees(g)]
      /\ UNCHANGED <<shippers, policies, status>>

\* authorized(caller, name), before the name is parsed.
Gate ==
  /\ get # NoCall /\ get.pc = "gate"
  /\ get' = [get EXCEPT !.pc = IF Authorized(get.caller, get.name) THEN "fetch" ELSE "look"]
  /\ UNCHANGED <<shippers, policies, status>>

Answer(s) == status' = s /\ get' = NoCall /\ UNCHANGED <<shippers, policies>>

\* Authorized: parse_field, get_shipper and check_visible.
Fetch ==
  LET row == ShipperRow(get.name) IN
  /\ get # NoCall /\ get.pc = "fetch"
  /\ Answer(CASE ~ParsesAsShipper(get.name)         -> FromFieldError("PatternMismatch", <<"name">>)
              [] row = "absent" /\ ParsesAsShipper(get.name) -> Bare("NotFound")
              [] row = "deleted" /\ ~get.show_deleted -> FromError("softdelete", "Deleted", <<"name">>)
              [] OTHER                                -> Bare("Ok"))

\* Mutant: the gate forgets show_deleted, so a hidden shipper is "visible".
Mut_Look_AnyRow ==
  /\ get # NoCall /\ get.pc = "look"
  /\ IF ShipperRow(get.name) # "absent" THEN Answer(PermissionDenied)
     ELSE /\ get' = [get EXCEPT !.pc = "parent"]
          /\ UNCHANGED <<shippers, policies, status>>

\* Unauthorized: is there something that an authorized caller could see?
Look ==
  /\ get # NoCall /\ get.pc = "look"
  /\ IF IsVisible(ShipperRow(get.name), get.show_deleted) THEN Answer(PermissionDenied)
     ELSE /\ get' = [get EXCEPT !.pc = "parent"]
          /\ UNCHANGED <<shippers, policies, status>>

\* ... if not, the parent collection decides what the caller may learn.
AskParent ==
  /\ get # NoCall /\ get.pc = "parent"
  /\ Answer(NotFoundViaParent(Authorized(get.caller, Collection)))

SetIamPolicy(resource, policy) ==
  /\ policies[resource] # policy
  /\ policies' = [policies EXCEPT ![resource] = policy]
  /\ UNCHANGED <<shippers, status>>
  /\ Watched

\* create_shipper, delete_shipper and undelete_shipper, as the others see them.
\* No row ever leaves the table.
ChangeShipper(name) ==
  /\ shippers' = [shippers EXCEPT ![name] = IF @ = "live" THEN "deleted" ELSE "live"]
  /\ UNCHANGED <<policies, status>>
  /\ Watched

Read ==
  \/ \E name \in Names, caller \in Callers \cup {Anonymous}, show_deleted \in BOOLEAN :
       Begin(name, caller, show_deleted)
  \/ Gate
  \/ Fetch
  \/ Look
  \/ AskParent
  \/ \E resource \in DOMAIN policies, policy \in Policies \cup {NoPolicy} : SetIamPolicy(resource, policy)
  \/ \E name \in Shippers : ChangeShipper(name)

-----------------------------------------------------------------------------
(* CreateSite, CreateShipment and BatchGetSites.                             *)

\* `text` is field 5 of either resource: the display name of a site, the
\* origin of a shipment.  `others` are the five further fields that a shipment
\* requires.  The parent is a shipper's name, as far as it parses.
Request == [kind : {"site", "shipment"}, parent : Names, id : RequestIds \cup {NoId},
            text : Texts \cup {NoText}, others : BOOLEAN, validate_only : BOOLEAN]
IsRequest(r) == r.kind = "site" => ~r.others

\* idempotent_lookup decodes the recorded bytes as a request of its own kind
\* and compares.  The two requests and the two resources number these fields
\* alike, so the kind is not part of what is compared.
Decoded(r) == [parent |-> r.parent, id |-> r.id, text |-> r.text, others |-> r.others,
               validate_only |-> r.validate_only]

Recorded(r) == r.id # NoId /\ idempotency[r.id] # NoCall

Outcome(r) ==
  CASE ~Recorded(r)                                           -> "New"
    [] Recorded(r) /\ Decoded(idempotency[r.id].request) = Decoded(r) -> "Replayed"
    [] OTHER                                                  -> "Conflict"

\* validate_required over the request and its resource.
HasRequired(r) == r.text # NoText /\ (r.kind = "shipment" => r.others)

Idle(c) == call[c] = NoCall
Reply(s, row) == status' = s /\ created' = row
\* A minted id is a UUID nobody else has been given.
Fresh(id) == /\ \A row \in rows : row.id # id
             /\ \A c \in Calls : ~Idle(c) /\ call[c].pc \in {"put", "record"} => call[c].row.id # id

\* The lookup: a replay answers at once, a conflict or a missing field ends it.
CreateReplay(c, r) ==
  /\ Idle(c)
  /\ Outcome(r) = "Replayed"
  /\ Reply(Bare("Ok"), [request |-> r, row |-> idempotency[r.id].row])
  /\ UNCHANGED <<shippers, rows, idempotency, call>>

CreateLookup(c, r) ==
  /\ Idle(c)
  /\ Outcome(r) = "New" /\ HasRequired(r)
  /\ call' = [call EXCEPT ![c] = [pc |-> "require", request |-> r]]
  /\ UNCHANGED <<shippers, status, rows, idempotency, created>>

CreateRejected(c, r) ==
  /\ Idle(c)
  /\ Outcome(r) = "Conflict" \/ (Outcome(r) = "New" /\ ~HasRequired(r))
  /\ Reply(IF Outcome(r) = "Conflict" THEN Conflict ELSE FromError("fieldbehavior", "RequiredFields", <<r.kind>>), NoCall)
  /\ UNCHANGED <<shippers, rows, idempotency, call>>

\* idempotent_record
Remember(r, row) ==
  idempotency' = IF r.id = NoId THEN idempotency
                 ELSE [idempotency EXCEPT ![r.id] = [request |-> r, row |-> row]]

ChildRow(r, id) == [kind |-> r.kind, parent |-> Parse(r.parent), id |-> id, text |-> r.text]

\* Mutant: the id is recorded as soon as the row is built.
Mut_RequireShipper_RecordFirst(c, id) ==
  LET r == call[c].request IN
  /\ ~Idle(c) /\ call[c].pc = "require"
  /\ Fresh(id)
  /\ ShipperRow(r.parent) # "absent" /\ ~r.validate_only
  /\ call' = [call EXCEPT ![c] = [pc |-> "put", request |-> r, row |-> ChildRow(r, id)]]
  /\ Remember(r, ChildRow(r, id))
  /\ UNCHANGED <<shippers, rows, status, created>>

\* parse_field("parent"), require_shipper, mint_under; commit_unless stops a
\* preview, which answers its row and leaves no trace.  A soft-deleted parent
\* is a parent.
RequireShipper(c, id) ==
  LET r == call[c].request IN
  /\ ~Idle(c) /\ call[c].pc = "require"
  /\ Fresh(id)
  /\ IF ShipperRow(r.parent) # "absent" /\ ~r.validate_only
     THEN /\ call' = [call EXCEPT ![c] = [pc |-> "put", request |-> r, row |-> ChildRow(r, id)]]
          /\ UNCHANGED <<status, created>>
     ELSE /\ call' = [call EXCEPT ![c] = NoCall]
          /\ Reply(CASE ~ParsesAsShipper(r.parent)      -> FromFieldError("PatternMismatch", <<"parent">>)
                     [] ShipperRow(r.parent) # "absent" -> Bare("Ok")
                     [] OTHER                           -> Bare("NotFound"), NoCall)
  /\ UNCHANGED <<shippers, rows, idempotency>>

\* put_site or put_shipment
Put(c) ==
  /\ ~Idle(c) /\ call[c].pc = "put"
  /\ rows' = rows \cup {call[c].row}
  /\ call' = [call EXCEPT ![c].pc = "record"]
  /\ UNCHANGED <<shippers, status, idempotency, created>>

\* Over whatever the map holds by now; then the answer.
Record(c) ==
  /\ ~Idle(c) /\ call[c].pc = "record"
  /\ Remember(call[c].request, call[c].row)
  /\ Reply(Bare("Ok"), [request |-> call[c].request, row |-> call[c].row])
  /\ call' = [call EXCEPT ![c] = NoCall]
  /\ UNCHANGED <<shippers, rows>>

-----------------------------------------------------------------------------

GetSite(name) == {row \in rows : row.kind = "site" /\ row.parent = Parse(name.parent) /\ row.id = name.id}

\* batch_get_sites: `parent` may be empty (NoText).  `absent` remembers which
\* of the names had no row when the call began.
BatchBegin(c, names, parent) ==
  /\ Idle(c)
  /\ call' = [call EXCEPT ![c] = [pc |-> "batch", names |-> names, parent |-> parent, sites |-> <<>>,
                                  absent |-> {i \in DOMAIN names : GetSite(names[i]) = {}}]]
  /\ UNCHANGED <<shippers, status, rows, idempotency, created>>

\* One name: parse_field, the parent as it is written, get_site.  The first failure is the
\* answer to the whole batch.
BatchStep(c) ==
  LET b    == call[c]
      name == b.names[Len(b.sites) + 1]
      site == GetSite(name)
      bad  == CASE ~ParsesAsShipper(name.parent)                       -> FromFieldError("PatternMismatch", <<"names">>)
                [] b.parent # NoText /\ b.parent # Parse(name.parent) -> Bare("InvalidArgument")
                [] OTHER                                               -> Bare("NotFound")
  IN
  /\ ~Idle(c) /\ b.pc = "batch" /\ Len(b.sites) < Len(b.names)
  /\ IF ParsesAsShipper(name.parent) /\ b.parent \in {NoText, Parse(name.parent)} /\ site # {}
     THEN /\ call' = [call EXCEPT ![c].sites = Append(@, CHOOSE s \in site : TRUE)]
          /\ UNCHANGED <<status, created>>
     ELSE /\ call' = [call EXCEPT ![c] = NoCall]
          /\ Reply(bad, NoCall)
  /\ UNCHANGED <<shippers, rows, idempotency>>

BatchAnswer(c) ==
  /\ ~Idle(c) /\ call[c].pc = "batch" /\ Len(call[c].sites) = Len(call[c].names)
  /\ call' = [call EXCEPT ![c] = NoCall]
  /\ Reply(Bare("Ok"), NoCall)
  /\ UNCHANGED <<shippers, rows, idempotency>>

SiteNames == [parent : Names, id : Ids]
ASSUME BatchesAssumption == Batches \subseteq SiteNames \X SiteNames

Create ==
  \/ \E c \in Calls :
       \/ \E r \in {q \in Request : IsRequest(q)} : CreateReplay(c, r) \/ CreateLookup(c, r) \/ CreateRejected(c, r)
       \/ \E id \in Ids : RequireShipper(c, id)
       \/ Put(c)
       \/ Record(c)
       \/ \E names \in Batches, parent \in Names \cup {NoText} : BatchBegin(c, names, parent)
       \/ BatchStep(c)
       \/ BatchAnswer(c)
  \/ \E name \in Shippers :
       /\ shippers' = [shippers EXCEPT ![name] = IF @ = "live" THEN "deleted" ELSE "live"]
       /\ UNCHANGED <<status, rows, idempotency, call, created>>

-----------------------------------------------------------------------------
(* ListOperations.                                                           *)

Present == {o \in Operations : operations[o] = "present"}
Rank(o) == Place(Present, Ascending, o)

\* OperationStore::list: a BTreeMap yields its values in name order.
List == InOrder(Present, Ascending)

\* Mutant: the next offset counts what was asked for, not what was returned.
Mut_Page_UncappedOffset(offset, page_size) ==
  LET limit == IF page_size = 0 THEN DefaultSize ELSE IF page_size < MaxSize THEN page_size ELSE MaxSize
      from  == IF offset < Len(List) THEN offset ELSE Len(List)
      to    == IF from + limit < Len(List) THEN from + limit ELSE Len(List)
  IN  [operations |-> ToSet(SubSeq(List, from + 1, to)),
       next       |-> IF from + page_size < Len(List) THEN from + page_size ELSE 0]

\* The page at `offset`; a next offset of 0 is the empty token.
Page(offset, page_size) ==
  LET limit == IF page_size = 0 THEN DefaultSize ELSE IF page_size < MaxSize THEN page_size ELSE MaxSize
      from  == IF offset < Len(List) THEN offset ELSE Len(List)
      to    == IF from + limit < Len(List) THEN from + limit ELSE Len(List)
  IN  [operations |-> ToSet(SubSeq(List, from + 1, to)),
       next       |-> IF from + limit < Len(List) THEN from + limit ELSE 0]

NoScan == [pc |-> "idle", offset |-> 0, returned |-> {}, always |-> {}, removed |-> 0]

\* A page, with any size.  `always` are the operations present at every moment
\* since the first page, `removed` counts those removed meanwhile.
ListOperations(page_size) ==
  LET page == Page(scan.offset, page_size)
      old  == IF scan.pc = "paging" THEN scan ELSE [NoScan EXCEPT !.always = Present]
  IN
  /\ scan' = [old EXCEPT !.pc = IF page.next = 0 THEN "finished" ELSE "paging",
                         !.offset = page.next, !.returned = @ \cup page.operations]
  /\ UNCHANGED operations

CreateOperation(o) ==
  /\ operations[o] = "unused"
  /\ operations' = [operations EXCEPT ![o] = "present"]
  /\ UNCHANGED scan

\* OperationStore::remove
DeleteOperation(o) ==
  /\ operations[o] = "present"
  /\ operations' = [operations EXCEPT ![o] = "removed"]
  /\ scan' = IF scan.pc = "paging" THEN [scan EXCEPT !.always = @ \ {o}, !.removed = @ + 1] ELSE scan

Operate == \/ \E size \in PageSizes : ListOperations(size)
           \/ \E o \in Operations : CreateOperation(o) \/ DeleteOperation(o)

-----------------------------------------------------------------------------

Init ==
  /\ workload \in {"read", "create", "operations", "respond"}
  /\ InitResponses
  /\ shippers = [n \in Shippers |-> "absent"]
  /\ policies = [r \in Names \cup {Collection} |-> NoPolicy]
  /\ get = NoCall
  /\ status = Bare("Ok")
  /\ rows = {}
  /\ idempotency = [i \in RequestIds |-> NoCall]
  /\ call = [c \in Calls |-> NoCall]
  /\ created = NoCall
  /\ operations = [o \in Operations |-> "unused"]
  /\ scan = NoScan

Next ==
  /\ \/ workload = "read" /\ Read /\ UNCHANGED <<creates, pages, responses>>
     \/ workload = "create" /\ Create /\ UNCHANGED <<reads, pages, responses>>
     \/ workload = "operations" /\ Operate /\ UNCHANGED <<shippers, status, reads, creates, responses>>
     \/ workload = "respond" /\ Respond /\ UNCHANGED <<shippers, status, reads, creates, pages>>
  /\ UNCHANGED workload

Spec == Init /\ [][Next]_vars

-----------------------------------------------------------------------------

\* AIP-211 with nothing else running: the whole status that a caller gets.
\* Whom the policy does not admit is told the same of a hidden shipper as of
\* one that was never created; whom it admits is told that it is soft-deleted.
Disclosed(authorized, row, show_deleted, parent) ==
  LET visible == IsVisible(row, show_deleted) IN
  CASE authorized /\ visible                     -> Bare("Ok")
    [] authorized /\ ~visible /\ row = "absent"  -> Bare("NotFound")
    [] authorized /\ ~visible /\ row = "deleted" -> FromError("softdelete", "Deleted", <<"name">>)
    [] ~authorized /\ ~visible /\ parent         -> NotFoundViaParent(TRUE)
    [] OTHER                                     -> PermissionDenied

GetWasTrue ==
  get # NoCall /\ get' = NoCall =>
    \/ /\ ~ParsesAsShipper(get.name) /\ TRUE \in get.seen.authorized
       /\ status' = FromFieldError("PatternMismatch", <<"name">>)
    \/ \E a \in get.seen.authorized, r \in get.seen.row, p \in get.seen.parent :
         status' = Disclosed(a, r, get.show_deleted, p)

BatchWasTrue(c) ==
  LET b == call[c] IN
  ~Idle(c) /\ b.pc = "batch" /\ call'[c] = NoCall =>
    /\ status'.code = "Ok" =>
         \A i \in DOMAIN b.names : b.sites[i] \in GetSite(b.names[i]) /\ b.parent \in {NoText, b.sites[i].parent}
    /\ status'.code = "NotFound" => b.absent # {}

\* Whatever changes between two locks of a call, its answer was true.  Of
\* get_shipper: each answer, its details included, is the one that AIP-211
\* gives for what the call could have read of the shipper that the name parses
\* to, of the collection's policy, and of the policy under the name as the
\* request spells it (service.rs reads it before it parses the name, so a
\* spelling other than the store's is subject to its own policy only).  A
\* caller whom neither policy admits meanwhile cannot tell a hidden shipper
\* from one that was never created.  Of batch_get_sites, which locks once for
\* each name: an answered batch has every name's stored row, in order and under
\* the parent it named, and NOT_FOUND means a row was missing from the start.
AnswersWereTrue == [][GetWasTrue /\ \A c \in Calls : BatchWasTrue(c)]_vars

\* Every row that a create has answered, replays included, is in the store
\* under the shipper that the request's parent parses to and with its text, and
\* that shipper has a row: no answer runs ahead of put_site or put_shipment.
AnswersAreStored ==
  created # NoCall =>
    /\ created.row \in rows
    /\ created.row.parent = Parse(created.request.parent) /\ created.row.text = created.request.text
    /\ ShipperRow(created.row.parent) # "absent"

\* A request id that comes back with another request is a conflict, so a
\* create answers a resource of its own kind (idempotent_lookup's contract).
ReplayAnswersItsOwnKind == created # NoCall => created.row.kind = created.request.kind

\* A scan of ListOperations misses at most one lasting operation for each
\* one that is removed while it runs, and none when nothing is removed,
\* whatever is created meanwhile and whatever sizes the pages have.
SkipsAreRemovals ==
  scan.pc = "finished" => Cardinality(scan.always \ scan.returned) <= scan.removed

-----------------------------------------------------------------------------
(* Why these hold, as one inductive invariant.                               *)

Child   == [kind : {"site", "shipment"}, parent : Names, id : Ids, text : Texts \cup {NoText}]
Made    == [request : Request, row : Child]
Seen    == [authorized : SUBSET BOOLEAN, parent : SUBSET BOOLEAN, row : SUBSET {"absent", "live", "deleted"}]
GetCall == [pc : {"gate", "fetch", "look", "parent"}, name : Names, caller : Callers \cup {Anonymous},
            show_deleted : BOOLEAN, seen : Seen]
LookedUp  == [pc : {"require"}, request : Request]
Creating  == [pc : {"put", "record"}, request : Request, row : Child]
BatchCall == [pc : {"batch"}, names : SiteNames \X SiteNames, parent : Names \cup {NoText},
              sites : Seq(Child), absent : SUBSET {1, 2}]
Scan      == [pc : {"idle", "paging", "finished"}, offset : Nat, returned : SUBSET Operations,
              always : SUBSET Operations, removed : Nat]

ASSUME NoCallAssumption == NoCall \notin GetCall /\ NoCall \notin BatchCall

TypeOK ==
  /\ shippers \in [Shippers -> {"absent", "live", "deleted"}]
  /\ policies \in [Names \cup {Collection} -> Policies \cup {NoPolicy}]
  /\ get \in GetCall \cup {NoCall}
  /\ rows \subseteq Child
  /\ idempotency \in [RequestIds -> Made \cup {NoCall}]
  /\ call \in [Calls -> LookedUp \cup Creating \cup BatchCall \cup {NoCall}]
  /\ created \in Made \cup {NoCall}
  /\ operations \in [Operations -> {"unused", "present", "removed"}]
  /\ scan \in Scan

\* What a GetShipper call could read now is among what it could have read, and
\* where it stands it has read one way or the other.
Reads(g) ==
  /\ Authorized(g.caller, g.name) \in g.seen.authorized
  /\ Authorized(g.caller, Collection) \in g.seen.parent
  /\ ShipperRow(g.name) \in g.seen.row
  /\ g.pc = "fetch" => TRUE \in g.seen.authorized
  /\ g.pc \in {"look", "parent"} => FALSE \in g.seen.authorized
  /\ g.pc = "parent" => \E r \in g.seen.row : ~IsVisible(r, g.show_deleted)
GateInv ==
  /\ workload # "read" => get = NoCall
  /\ get # NoCall => Reads(get)

\* A built row fits its request and has a parent; rows and shippers never go.
Fits(m) ==
  /\ m.row.parent = Parse(m.request.parent) /\ m.row.text = m.request.text
  /\ ShipperRow(m.row.parent) # "absent"
Backed(m) == Fits(m) /\ m.row \in rows

BatchInv(b) ==
  /\ Len(b.sites) <= 2
  /\ \A i \in 1..Len(b.sites) : b.sites[i] \in GetSite(b.names[i]) /\ b.parent \in {NoText, Parse(b.names[i].parent)}
  /\ \A i \in {1, 2} \ b.absent : GetSite(b.names[i]) # {}

Sound(x) ==
  /\ x.pc = "put" => Fits(x)
  /\ x.pc = "record" => Backed(x)
  /\ x.pc = "batch" => BatchInv(x)

StoredInv ==
  /\ created # NoCall => Backed(created)
  /\ \A i \in RequestIds : idempotency[i] # NoCall => Backed(idempotency[i])
  /\ \A c \in Calls : ~Idle(c) => Sound(call[c])

\* What the pages so far have passed over: lasting operations below the offset.
Missed == {o \in scan.always \ scan.returned : Rank(o) <= scan.offset}

ScanInv ==
  /\ scan.pc # "paging" => scan.offset = 0
  /\ scan.pc = "paging" => scan.always \subseteq Present /\ Cardinality(Missed) <= scan.removed
  /\ SkipsAreRemovals

AccessInv == TypeOK /\ GateInv /\ StoredInv /\ ScanInv
=============================================================================
