# A TLA+ verification of aip-rs

aip-rs is a workspace of small Rust libraries for Google's API Improvement
Proposals (`crates/aip-*`) and a runnable gRPC server that puts them to work
(`examples/freight-server`). The libraries are pure functions and state machines:
they own no store, clock or task. The server owns all of that, and runs on tokio's
multi-threaded runtime (`main.rs:33`), so its handlers and background tasks
interleave between any two lock acquisitions. The hard behaviour is where the two
meet: a library says what one transition means, the server performs it as several
steps under several locks.

This directory models that meeting. `PROJECT.json` lists every run, mutant,
theorem, finding and hazard, and maps every definition to its source lines.

## Inventory

| Part | State | Operations | What makes it correct |
|---|---|---|---|
| `aip-lro` | the wire `Operation` | pending, succeed, fail, cancel, set_metadata, validate | terminal once; done exactly when there is a result |
| `OperationStore` (storage.rs) | operations map, cancel set, `Notify`; three separate locks | put, get, remove, request_cancel, clear_cancel, changed | waiters learn of every change; flags live as long as records |
| `BatchCreateShippers` task | its position in the batch, the shippers made | check flag, create, report progress, resolve | the record tells the truth about the work; it always ends |
| `Operations` service | calls in flight | Get, List, Delete, Cancel, Wait | waits return; cancels are prompt |
| Shipper handlers, `Storage` | shippers table, idempotency map; two locks | Create, Update, Delete, Undelete, Get, List | no lost update, no double create, no accidental undelete |
| `aip-etag`, `aip-softdelete`, `aip-requestid`, `aip-preview` | none | compute/check, check_visible/check_deleted, decide, commit_unless | tokens name content; a hidden resource stays hidden; a retry replays |
| `aip-iam` policy | none | add/remove_member, normalize, validate, compute/check, grants | one canonical form; nothing granted or revoked by rearranging |
| `PolicyStore`, `IAMPolicy`, read gate | binding rows under one lock | GetIamPolicy, SetIamPolicy, TestIamPermissions, authorized | no lost update; decisions are those of the policy that was set |
| Lists: `aip-pagination`, `aip-sql`, `aip-ordering`; ListShippers, ListSites, ListShipments | a cursor in the client's hands | Page::parse, transpile_order_by, keyset_seek, split_overfetch, cursor_entries | every row once and in order, while rows come and go; the scan ends |
| GetShipper's AIP-211 gate | calls in flight | policy, row, parent's policy under three locks | an answer is right for what the call could have read of the policies and the row |
| Site and Shipment creates, BatchGetSites | sites and shipments tables, the shared idempotency map | CreateSite, CreateShipment, BatchGetSites | no answer runs ahead of its row; a replay answers its own request |
| ListOperations | an offset in the client's hands | page by offset | only removals can make a scan skip |
| `aip-filtering`, the filter half of `aip-sql` | none | lex, parse, check, macros, CEL, match; transpile, render | one filter, one meaning in memory and in SQL; the server's scope holds |
| `aip-fieldmask`, `aip-fieldbehavior` | none | validate, update; clear, copy, validate_required, validate_immutable | a mask touches what it names, and of a oneof what that displaces; server-owned fields stay |
| `aip-resourcename`, `aip-resourceid`, `aip-ordering`, IAM members, roles, permissions, operation names | none | parse, match, format, display | one canonical text per value, and it parses back |
| `aip-errordomain`, `aip-validation`, the crates' `Status` conversions | a response in flight | rewrite headers and trailers; accumulate violations | clients see one error domain |
| `aip-reflect`, `aip-codegen`, `protoc-gen-prost-aip` | none | descriptors, flags, generated items | what is generated compiles, whatever files are asked for |
| `timestamp.rs` | none | format_timestamp | text order is time order |

How they interact: `service.rs` calls the libraries between a read and a write of
`Storage`; the batch handler spawns a task that shares the `OperationStore` with the
`Operations` service through an `Arc`; the `PolicyStore` is shared by the `IAMPolicy`
service, which writes it, and the freight service, which gates `GetShipper` on it.
One idempotency map serves every create method. Every response passes the
`aip-errordomain` layer on its way out.

## Modules

**The batch operation.** `Lro` is the crate's record and its transitions as
operators. `OperationVersions` is an abstract specification of the versions that are
ever stored of a record: they walk forward (pending, growing progress, at most one final
result). `OperationPromise` is that and what a client is told besides: the newest version
is what a read returns, until a delete, which is final. The server implements the first
and not the second (see Findings). `BatchOperations` is the server: one action
per lock acquisition or `Notify` call, for the handler (`CreatePut`, `CreateSpawn`),
the task (`TaskCheck`, `TaskWork`, `TaskClear`, and `UpdateLoad`, `UpdateStore`,
`UpdateNotify` for `update_operation`), and Cancel, Delete and Wait. `BatchHistory`
adds two history variables (the newest version stored, and how far the task was when
its flag went up) and states the properties. The Rust locals that live across two
steps are record fields: a task's `loaded` copy, a call's `removed` flag, the
`notified` bit of a wait's `Notified` future. Packed `Any` payloads are abstracted
to progress counts and lists of shippers, a request to whether it passes validation.

**The Shipper resource.** `Shipper` has the library checks as operators on a shipper
reduced to name, display name, delete mark and etag. A name's text is the typed name and
a spelling: `shippers/x`, `/shippers/x` and `//service/shippers/x` parse alike, an etag
digests the text, and a row read back has the canonical one (`Row`). An update's mask may
copy the request's spelling into the shipper it digests (`Merge`). `ShipperStore` has the four
mutating handlers: each reads and decides under one lock (`CreateMiss`, `UpdateGet`,
...) and writes under another (`Put`, then `CreateRecord` for the idempotency cache).
`ShipperHistory` records which call minted what and which names an update carried in
another spelling, and states the properties. Answers
that change nothing (NOT_FOUND, ABORTED, a conflict, a preview) are the guards.

**IAM policies.** `Policy` has `policy.rs` as operators: `Normalize` is the code's
fold, merge and sort. `PolicyStore` has the store as rows without version, etag and
condition title, the rebuilding of a policy from them, and clients that read, edit
with the library's helpers and write back. `accepted` remembers the last policy sent.
Strings are numbers, since only their equality and order matter; evaluation of a CEL
condition is the constant `Holds`. `Orders` says what a sort leaves and what a
`BTreeMap` iterates over: each element of a finite set at its place in an order.
`SortDedup`, `SortByKey` and ListOperations' `List` are built from it, `retain` from
what it says of the chosen places of a sequence.

**Paging.** `Keyset` has the order, the seek and the cursor as operators:
`TranspileOrderBy` appends the key columns, `KeysetSeek` is the row comparison or the
OR of ANDs, `CursorEntries` is what the encoder reflects from a row, `CursorFits` the
check of `cursor_seek`. A stored value is its SQLite storage class and its place in
that class, enough for NULL, for the default that `reflect_value` substitutes and for
a comparison across classes. `Listing` is a client that pages through one listing
(`ListAnswered`, `ListRejected`; each List call makes one store call, so it is one
step) while `put_shipper`, `put_site` and `put_shipment` run between its pages. The
client may change its request, its page size or the method it calls in mid-scan.
`request`, `returned` and `steady` are history: the first request, the rows answered,
and the rows that were in the listing all along. A token is its cursor and checksum;
the checksum is the tuple of the fields it hashes, so CRC32 collisions are left out,
while two methods whose requests encode alike do collide. A filter is one display
name: paging only needs some predicate that the checksum covers. ListShipments'
filter, of the same role, is left out here and is the subject of the filter modules.

**Filters.** `FilterLex` (tokens and literals), `FilterParse` (the recursive descent
with its backtracking), `FilterCheck` (declarations, overloads, macros, CEL export
with its ids and import), `FilterMatch` (the three-valued matcher over messages) and
`FilterSql` (`transpile_filter`, predicates, the rendering with its parentheses, LIKE
and its escapes, and how storage.rs makes a row of a site or shipment and back) extend
one another in that order. `Filters` grows expressions connective by connective,
prints them as AIP-160 writes them and states the properties. A text is a sequence of
symbols, where a symbol may be a whole word; a number is in tenths; SQLite is an
external evaluator of the rendered expression under three-valued logic, whose `->>` reads
a key that begins with `$` as a JSON path (`IsJsonPath`, `JsonMember`).

**Names, texts, masks, generated code, time.** `Names` has `Pattern`, the scanner,
the free functions of `aip-resourcename` and the generated typed names; `Texts` has
members, roles, permissions, operation names, `OrderBy` and resource types; `Masks`
has `fieldmask::update` and the field-behavior walks over message trees described by
a `Descriptor`, with oneofs: setting a member clears its siblings (`SetField`), as
prost-reflect does, and a field that is unset reads as its default (`GetField`);
`Codegen` has what `aip-reflect` reads off the files of a package,
the plugin's flags and the items `aip-codegen` emits, an emitted function being its
name, its arity and the calls it makes; `Civil` has the calendar arithmetic behind
`format_timestamp`. `Requests` writes inputs of each form piece by piece and states
what is promised of every text and instant; `Messages` adds what is promised of update
masks and proto files. The two are apart because what `Requests` is about is proved and
`Masks` and `Codegen` walk trees with recursive operators, which the prover cannot load.
For the same reason `Split` and `Joined` are recursive functions, as `str::split` and
`join` are loops, and the braces and the underscore have names (`LBrace`, `RBrace`,
`Underscore`): the prover's translation has no way to write these strings.

**Errors and the boundary.** `Errors` has each crate's table from error to `Status`
(code, reason, which metadata keys, which field violations), the validator and the
authz answers; `Boundary` has the tower layer, frame by frame.

**Access.** `Access` composes `Boundary` with the rest of the freight service while
its stores change: GetShipper behind the gate (`Begin`, `Gate`, `Fetch`, `Look`,
`AskParent`, one per lock), CreateSite and CreateShipment (`CreateReplay`,
`CreateLookup`, `RequireShipper`, `Put`, `Record`), BatchGetSites (`BatchStep`, one
lock per name), and ListOperations by offset. A request carries a text; policies are
stored and looked up by the text, shippers by what it parses to (`Parse`). `workload` picks which of the four
client populations runs: the operation store shares nothing with the rest, and reads
and creates meet only in the shippers table, which changes in both.

`MCBatch`, `MCShipper`, `MCListing`, `MCPolicy`, `MCFilters`, `MCRequests` and
`MCAccess` give the constants values for TLC.

## Runs

| Run | Shows |
|---|---|
| `batch` | progress a client reads is backed by stored shippers, also when a batch fails or is cancelled half way; success is complete and in order; a cancel costs at most one more shipper; no wake-up is lost; the records refine `OperationVersions`; the inductive invariant `PromiseInv`; every wait answers and every operation is resolved or deleted, with no help from a deadline |
| `batch_undelete` | a delete can be undone (see Findings) |
| `shipper_safety` | what survives overlapping calls: an etag is the digest of what it is stored with, under the spelling of the name that the last update carried, answers are honest, a client that waits for its answer never mints twice |
| `shipper_clobber` | two conditional updates with the same etag both succeed (see Findings) |
| `shipper_echo` | an etag just read can be refused as stale (see Findings) |
| `listing_scan` | under any writes between pages and any change of request, no row is answered twice or out of order, the token passes no row that stayed, a finished scan is complete, and a client that follows the token finishes |
| `listing_longitude` | a listing ordered by `lat_lng.longitude` ends early |
| `policy` | normalising, storing and rebuilding a policy keep every decision, give one stored form per set of grants whatever titles a draft has, and what is read may be written back; a read-modify-write cycle on a stored policy revokes only what it saw |
| `filter` | every filter of up to two connectives parses back from its AIP-160 text, survives CEL with distinct ids, is rewritten by a macro once, selects the same rows in memory and in SQL unless it names a map key that is a JSON path, and never widens the parent or shows a deleted row |
| `names` | names, patterns, ids, members, roles, permissions, operation names, orders and resource types round trip; a wildcard parent scopes a list exactly; an update does what its mask says, displaces only siblings of what it sets, and keeps at every depth what field behaviors protect; generated code resolves; timestamps sort as instants, over every second of a day |
| `access` | GetShipper and BatchGetSites answer, with the whole status, what was true during the call; created rows are stored before they are answered; a scan of operations skips no more than was removed; one error domain leaves the server |
| `replay_kinds` | a create of one kind can replay a record of another (see Findings) |

### Bounds

- *Batch*: one operation name, batches of one or two requests of which the second
  may be invalid (`MaxBatch = 2`). Operations share nothing but the `Notify`, which
  only ever adds wake-ups, so one name loses no interference; two requests give a
  first, a last and a failing step. Two clients, each with one call at a time and any
  number of calls: one to wait, one to delete or cancel, while the task is a third actor.
  A call touches no other call's state but through the store, the flags and the `Notify`.
- *Shipper*: two calls in flight, two names, the canonical spelling and one other, two
  contents, one request id. Each race
  is between two handlers of one name; a second name is needed to mint twice. The
  digest is injective in the runs (a collision makes a stale etag pass, which is a
  property of CRC32); the proofs allow any digest.
- *Listing*: three shippers; three sites, two of which tie on name and on latitude, one
  of them in either of two contents; two shipments; nine requests that cover each
  method, a wildcard and a concrete parent, a filter, ascending, descending and mixed
  orders, and an order that is rejected. Page sizes are one rejected, one unset and
  one above the cap, resolving to pages of one and two rows, so scans take up to three
  pages, end on and off a page boundary, and ties straddle pages. Nothing bounds the
  number of deletes and undeletes.
- *Policy*: two clients, two roles, two members (one is `allUsers`), one expression and
  two titles, up to two bindings (`MaxBindings`) and one edit per cycle (`MaxEdits`). The
  expression is one that cannot be evaluated, so that merging it with an unconditional
  binding shows. Two titles make three conditions with the absent one, enough for a role
  bound twice under conditions that differ in title only. The order of expressions among
  each other is left to the proofs. Cycles are unbounded, so every stored form is reached
  through any number of writes. One resource: rows of different resources never meet.
- *Filters*: two resources, seven sites and three shipments that differ in the
  presence, case and metacharacters of each field; leaves cover every comparison with
  the literal on either side, every needle of up to two symbols from letters and LIKE's
  metacharacters, maps with plain keys, a keyword and keys that SQLite takes for a path, lists, enums, timestamps and durations; `MaxConnectives = 2` is
  the least that tells precedence and associativity apart. `MaxInt64 = 99` makes the
  overflow of a literal reachable.
- *Requests*: each form has its own pieces and its own length (`MCMaxPieces`), long
  enough for the longest valid text of the form and one piece more; name segments
  include the empty, wildcard, revision and braced ones. Limits of the code
  (`MaxName`, `MaxLabel`, `MaxId`) are small so that texts cross them. Masks have up
  to two paths, so that one may lie under the other; the messages have a oneof of
  a scalar and a message, and fields of each behavior inside and outside of a message. Schemas have up to three
  declarations over two files, a parent and a child in either. Instants cover a year
  at each of the epoch, 2000, 2100, the end of a 400-year era and 9982, and up to two
  steps of a leap year or four years from each, and every second of each of those days.
- *Access*: one shipper under two spellings, a name that is none and the collection's
  policy; policies that name nobody or the one caller; batches of two names, the second in
  the other spelling or one that does not parse; two calls in flight, one request id, two minted ids; five operations with pages of one and two.
  Each race of the gate needs one reader and arbitrary writers.

Deadlock checking is on in every run.

### Fairness

`batch` assumes weak fairness of each task's and each call's next step:
tokio polls every woken future, the mutexes guard single map operations, and the
task's only await is a timer. It assumes nothing of clients, who need not call, nor
of deadlines, which need never pass: a wait must be woken, not timed out.

`listing_scan` assumes one thing of the client: it keeps asking for the next page of
its own request (`Follows`), as a client that wants the listing does. The server's
answer is one step. Writers are under no fairness and may go on for ever. No other run
assumes fairness.

## Proofs

The modules named `*Proofs`, checked by TLAPS for every value of the constants (any
number of clients, calls, operations, batches, names, roles and members, policies of
any length, any digest) under the assumptions named in the modules. Those are: the
sentinels differ from real values (`NoneIsNoCount`, `NoCallAssumption`,
`ConditionAssumption`, `NoPolicyAssumption`, `DomainAssumption`), batches are sequences
of requests, minted names are shippers, the digest yields well-formed etags, the canonical spelling is
one, a respelled name is no shipper's stored name and parses to one, page sizes
are naturals (a negative one is refused before anything is read), the empty title
is a title; and for texts (`NamesAssumption`, `TextsAssumption`, `RequestsAssumption`) the
character classes share nothing with each other or with the punctuation, a UUID written
without braces or colons begins and ends with a digit, an id fits a label and a label a
name, and a generated id is a segment of letters, digits and hyphens. TLC evaluates each
of them on the runs of its module.

*The batch operation* (`BatchProofs`).

- `PromiseInvariant`: `PromiseInv` is inductive. Neither the type invariant nor the
  refinement is inductive alone. The argument is that a record has one writer after
  its creation, the task: so the copy it loaded is still the newest version when it
  is put back, whatever deletes happened in between (`RunningInv`: `t.loaded =
  last[n]` at "store"), a task that has not been spawned has exactly one call about to
  spawn it (`CallInv`, `UnbornInv`), and progress is exactly one behind while an
  update is under way.
- `Refinement`: `HSpec => ImplementsVersions`. Only `CreatePut` and `UpdateStore` store a
  version; they map to `Publish`, every other step stutters, a delete too: the newest
  version survives it in the copy that the task has loaded.
- `WakeupsKept`: `NoLostWakeup`, from `PromiseInv`. A record that becomes done or
  absent does so in a step whose actor goes on to notify, and a wait that read it
  before was enrolled before.
- `TypeCorrect`: `TypeOK`.
- `WorkInvariant`: `WorkInv` is inductive relative to `PromiseInv`. `Tallied` ties the
  record to the work: the shippers of an operation in the store are exactly those its
  task has counted, in order, the newest version is at most one behind them, and a done
  version is exact because the task has left its loop. `Prompt` ties the flag to the
  task: a task that is past its look at the flag may make one shipper more, a task that
  saw it makes none. `ProgressBacked`, `SuccessComplete` and `CancelPrompt` follow; a
  record that was deleted and written back is covered because `last` survives it.

*Shippers* (`ShipperProofs`).

- `ShipperInvariant`: `ShipperInv` is inductive. `MintInv` carries the retry
  argument: a shipper minted under an id is recorded, or its own call is about to
  record it, so the same caller's next attempt cannot miss. Of an etag it says that it is
  the digest of its content under some spelling of the name, and under the canonical one
  unless an update has carried another (`Described`): each write-back preserves that,
  because delete and undelete recompute nothing.
- `EtagsDescribe`, `HonestAnswers`, `SequentialRetryIsSafe`: its consequences.

*Keyset paging* (`ListingProofs`).

- `ScanInvariant`: the invariant of a scan is inductive, and `ScanInOrder`,
  `ScanAnswersAll`, `ScanPassesNothing` and `ScanTypeCorrect` follow, for any rows, requests, page sizes and limits under the
  typing assumptions of `Listing`. The argument: an open scan's token is the cursor of
  the last row answered and the checksum of the first request (`CursorIsLast`); a call
  with another request is refused by the checksum or, across methods, by the seek
  columns; so `KeysetSeek` of that cursor is exactly "after that row" in a strict total
  order (the seek lemmas), and a page is the prefix of what is after it. The condition
  `Pageable` is needed and stated: no request orders by longitude (see Findings), and
  none by latitude where a site may lack a position, which the doc of `cursor_seek`
  excludes.

*The gated read, the creates, the offset listing and the boundary* (`AccessProofs`,
with `OrderProofs` for places in an order).

- `AccessInvariant`: `AccessInv /\ FrameInv` is inductive. Each of the call histories is
  an over-approximation that only grows, so the argument is the same for each: what a
  call has read at its earlier locks is among what it `Reads`; what a create has built
  `Fits` its request, and once put it stays `Backed`, since rows and shippers are never
  removed, only marked.
- `AnswersTrue` (an action property): the step that answers GetShipper or BatchGetSites
  is justified by what the invariant kept of the earlier steps. It compares whole statuses,
  details included, with what AIP-211 gives for a policy, a row and a parent's policy that
  the call could have read.
- `AnswersStored`: from `StoredInv`. A replay answers what was recorded, and a record is
  written after the put.
- `SkipsBounded`: `SkipsAreRemovals` is not inductive. `ScanInv` says of a scan under way
  that the lasting operations below its offset which it has not returned are at most as
  many as were removed: a removal moves each later operation down by at most one place,
  so at most one slips below the offset (`PlaceChanges`), and a creation moves none down.
- `OneDomainAlways`: from `FrameInv`, for any errors, details and number of frames.

*IAM policies* (`PolicyProofs`).

- `StoreInvariant`: `StoreInv`, the rows are the normal form of the last accepted policy.
- `PolicyTypes`, `EchoAccepted`: from it, with the types of `add_member`,
  `remove_member`, `normalize` and `reconstruct`.
- `DecisionsFollow`: what `normalize` computes is proved for lists of any length.
  `Normalize` is a recursive function, which first has to be shown to exist
  (`MergingLoop`); one turn of the loop adds what its binding gives and keeps one sorted
  binding per key (`FoldFacts`), so the loop does (`MergedFacts`). The library's
  induction rules take an operator and cannot be used; the induction is
  `SetInduction`, on the set of the n for which the claim holds, from the least element
  of its complement. Sorting and the rows keep all of it but the titles (`RowsFacts`),
  and no decision reads a title (`SameDecisions`).
- `NoGrantLost` (an action property): an etag that passes the check is the content that
  is stored, so what the client had read is what it can revoke.
- `OneForm`: `CanonicalForm`, for any titles. Two policies that give the same members the
  same roles under the same expressions, and neither of which splits a role's binding by
  title (`TitlesAgree`), merge into lists with one sorted binding per role and expression
  (`MergedByExpression`); `binding_key` orders those by role and expression before it comes
  to the title (`OrderOfRows`), so they are stored as the same rows (`OneRowForm`). The
  stored side is the last accepted policy, of which the rows are the normal form
  (`StoreInv`), so nothing is assumed of the rows themselves. `TitlesAgree` is needed: a row
  keeps no title, so bindings that differ in it alone stay apart in the rows, while a draft
  read back from them merges.

*Names and texts* (`NameProofs`, with `OrderProofs` for recursion over a sequence).

The properties hold of every text, so the inductive invariant is only that a request
carries one (`AlwaysTyped`); the work is in what the parsers do with it. Symbols and the
limits on lengths are arbitrary, texts are of any length.

- The foundation is that `str::split` and `join` are inverse: a text is what its parts
  join to (`SplitJoins`), and parts without the separator are what the text they join to
  splits into (`JoinedSplits`). `Split` and `Joined` are recursive functions; that such a
  function exists and has the values of its recursion is `Recursion`, and statements about
  all its values are proved with `SetInduction`, both in `OrderProofs`.
- `TextsRoundTrip`: `TextRoundTrips`, one lemma per form (`MemberPrints`, `RolePrints`,
  `PermissionEnds`, `OperationName`, `OrderKeepsWords`, `TypeParts`, `CamelIsType`). A text
  is cut at the first or the last of a symbol and put together again.
- `PatternsKeepNames`: `PatternsRoundTrip`. A compiled pattern has a segment for each part,
  and each variable stands in one place, because `parse` refuses a repetition; so the
  captures of a name give each part back (`FormatsBack`).
- `NamesKeepTheirText`: `NameRoundTrips`, for the three resources of the server. The parts
  of each pattern are computed (`Resources`); an accepted name has two or four segments,
  none of them with a slash or braces, so its canonical text splits into the same segments;
  its collections tell the resources apart; the first two segments are its parent.
- `ScopeIsTheParent`: `ScopeIsParent`. Both `scoped_predicate` and `has_parent` come down to
  one comparison with the second segment, a wildcard or the id; a generated id has no
  revision, which `has_parent` would otherwise look through.

*The calendar* (`CalendarProofs`).

- `TimestampsSort`: `CalendarKeepsOrder`, for every day of a Timestamp's range and every
  second of a day. A day has coordinates: its era, century, four-year cycle, year, day of
  the year, month counted from March and day of the month (`DayIs`). The divisions of
  `civil_from_days` recover each of them (`DateIs`), where the corrections by 1460, 36524 and
  146096 days matter on the last day of a cycle, a century and an era. The next day moves
  one coordinate, and in each case that is the Gregorian rule for the day after
  (`Tomorrow`). Digits of equal length sort as the numbers they write, the first field that
  differs decides (`SortsAhead`, `SortsBehind`), and the year has four digits until 9999.
  From one second to the next the second, the minute or the hour moves on (`SecondsSort`,
  within an hour; `HoursSort`, at its end), or the date (`DatesSort`).

Each inductive invariant was checked by TLC on the runs of its module before it was
proved.

Only model-checked: liveness under fairness; the five properties of `Filters` and the
three of `Messages` (`UpdateFollowsMask`, `BehaviorsHold`, `GeneratedCodeFits`). Out of the
prover's reach: liveness and `ENABLED`, and whatever rests on the recursive operators over
trees in the filter modules, `Masks`, `Codegen` and `Messages`, with which the prover cannot
work at all.

## Findings

Five runs show that a comment or doc says more than the code gives; `PROJECT.json`
quotes each line.

1. `shipper_clobber`: a decision is made under one lock and acted on under another,
   so two conditional updates both pass the etag check and one is lost.
2. `listing_longitude`: `lat_lng.longitude` is sortable but undeclared, so its cursor
   is a text, and the text of a double is empty. The second page asks for `longitude >
   ''`, which no number satisfies: the listing ends with sites left out (descending,
   it never ends). `update_time`, the other `sort_only` column, is stored as text and
   pages well, which is why the fallback goes unnoticed.
3. `replay_kinds`: the idempotency cache is keyed by request id alone and a record is
   decoded as the caller's own request type; CreateSite and CreateShipment requests
   that encode alike replay each other's answer.
4. `batch_undelete`: `update_operation` gets a copy and puts it back under another lock. A
   delete in between is undone: the record is visible again and the task goes on, though
   the doc of `run_batch_create` says that a delete "simply stops the task"
   (service.rs:1158-1160).
5. `shipper_echo`: an update whose mask is empty, `*` or names `name` digests the name as
   the request spells it, while a read rebuilds the canonical name. The etag that is read
   is then refused though nothing has changed, until a later update stores the canonical
   spelling's. The comment at service.rs:351-354 calls it "the value the next
   read-modify-write must echo".

## Observations

What modelling brought to light and no run is about.

*Overlapping calls.* An update overlapping a
delete writes the unset `delete_time` back; two overlapping deletes both succeed and the
second re-stamps; overlapping creates may both miss and the later record replaces the
earlier (storage.rs:47-51 says so). What does hold in spite of it: operation records
only move forward, answers stay honest, and a caller that waits before it retries is
safe. A cancel raised after the task's last poll leaves its flag until the record is
deleted; one that found the record before a delete and raises its flag after it leaves
the flag for good.

*Policies.* A policy with no bindings is no policy: two cycles that begin on an unset
policy both pass the etag check (storage.rs:617-618 says they cannot), and revoking the
last grant makes the resource public (service.rs:106-107). `normalize` tells conditions
apart by title while the rows keep no title: a policy that binds a role twice under
conditions that differ in title only is stored as two rows that read back alike, and an
edit of what is read back merges them. `CanonicalForm` excepts such a policy.

*GetShipper.* To a caller that the gate lets through, a soft-deleted shipper answers
NOT_FOUND with SOFT_DELETE details and an absent one a bare NOT_FOUND, though
service.rs:181-183 calls them indistinguishable; `Disclosed` states what the code answers,
details included. The gate looks the policy up by the request's own text before the name is
parsed, so each spelling of a name is subject to the policy set under that spelling only
(`policies` is keyed by texts); `AnswersWereTrue` says the answer is right for that policy.

*Filters.* `annotations.owner:ops` type-checks and matches in memory while
`transpile_has` answers UnknownIdentifier, so such filters are outside `Served`. A site
with NaN for one coordinate reads back 0 where SQL has NULL (`HalfAPosition`). `(a )`
does not parse, `annotations.$ != "x"` selects every row in SQL and none
in memory, because SQLite takes the key for the path of the whole object, `-5 < a` parses as NOT (5 < a), and the least i64 cannot be written.
FUZZY never type-checks with the standard functions.

*Names and texts.* `has_parent` with a parent "//svc" without segments never compares
services. `new` with the value "{x}" succeeds but its name does not parse back.
`validate_pattern` accepts repeated variables, which `Pattern::parse` refuses.
`validate_user_settable` accepts braced and URN UUIDs, which make no valid name.
`OperationName::parse` accepts "/operations/x" and "//operations/x". aip-lro gives two
error variants the reason OPERATION_MALFORMED.

*Masks.* What `BehaviorsHold` excepts: `copy_fields` works at top level only while
`clear_fields` recurses. The check of REQUIRED goes by exact paths and does not see a nested
REQUIRED field blanked through a mask that names its parent. The immutable check skips a
field inside a message that one side lacks, a truncated list, and a mask strictly below an
IMMUTABLE message. Neither check looks at a oneof member that an update displaces by setting
its sibling, be it REQUIRED or IMMUTABLE and unnamed by the mask. A path inside a list or map
passes `validate` and `update` ignores it.

*Generated code.* `parent_pattern` assumes collection and variable in pairs
(`Paired`): under another pattern with a generated parent, `mint_under` would call
`from_parts` with the wrong number of arguments. Variables named like generated
functions (`name`, `pattern`, `parent`, `new`) would clash, and two types with one type
name in a package give one struct name.

*Time.* Text order is time order up to the year 9999, the end of Timestamp's range.

## Plan

1. *Done first*: the batch operation, the Shipper handlers, policies and cursor paging,
   in that order: what several calls can break between two locks or two pages.
2. *Done next*: the AIP-211 gate, the shared idempotency cache, BatchGetSites and
   offset paging (`Access`); the filter pipeline; names, texts, masks, field behaviors,
   error statuses and their boundary, code generation and the calendar.
3. *Done, proofs*: the safety properties of the batch operation, the Shipper handlers,
   paging, policies, access and the boundary; then names, patterns, texts and the
   calendar.
4. *Left, proofs*: masks and field behaviors, which would need message trees described
   without recursive operators, for instance by the set of their leaves.
5. *Left, models*: reference validation (`validate.rs` of aip-reflect), purge previews,
   `WaitTimeout::resolve`.

## Not modelled

- *CEL evaluation* (aip-iam `eval.rs`): a wrapper of a library; `Holds` stands for it.
- *Reference validation* (aip-reflect `validate.rs`), *purge previews* (aip-softdelete,
  without a caller in the server), *`WaitTimeout::resolve`* (a deadline may pass at any
  moment): planned.
- *Encodings*: base64, postcard, protobuf wire format, CRC32 collisions. A token or a
  detail is what it carries.
- *Spelling*: dialect keywords, raw SQL fragments, error messages and positions in
  them, hex and octal escapes, the order and repetition of reported field paths,
  rustfmt's layout, `CratePaths` and the numeric arm of keyword sanitising.
- *Generated tonic and prost code, aip-proto, the facade, test-fixtures, main*: wiring.
- Process crashes: nothing is persisted, both databases are in memory and a restart
  begins from `Init`. Panics while a lock is held (mutex poisoning) are left out.
