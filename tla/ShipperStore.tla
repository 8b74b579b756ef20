----------------------------- MODULE ShipperStore -----------------------------
(***************************************************************************)
(* The Shipper handlers of examples/freight-server (service.rs) over its   *)
(* Storage (storage.rs): CreateShipper with the AIP-155 idempotency cache, *)
(* UpdateShipper and DeleteShipper with the AIP-154 freshness check, and   *)
(* UndeleteShipper.                                                        *)
(*                                                                         *)
(* Every access to Storage takes and releases one mutex (the SQLite        *)
(* connection, or the idempotency map), and handlers run on several        *)
(* threads: one action is one such access with the computation that        *)
(* follows it.  The answers that change nothing (NOT_FOUND, ABORTED,       *)
(* INVALID_ARGUMENT, ALREADY_EXISTS, a preview) are guards: such a call    *)
(* leaves every variable as it was.                                        *)
(***************************************************************************)
EXTENDS Shipper

CONSTANTS
  Calls,       \* handler invocations that may be in flight at once
  RequestIds,  \* UUIDs a client may send as request_id
  NoId         \* the empty request_id

ASSUME NoIdAssumption == NoId \notin RequestIds

(* A CreateShipperRequest that passes validate and validate_required.       *)
Request == [id : RequestIds \cup {NoId}, content : Contents, validate_only : BOOLEAN]

(* IdempotentRecord: the encoded request and the encoded response.          *)
IdempotentRecord == [request : Request, response : Shipper]

ASSUME NoRecordAssumption == None \notin Request /\ None \notin IdempotentRecord

VARIABLES
  store,        \* Storage.db: the shippers table
  idempotency,  \* Storage.idempotency: request_id -> record
  call,         \* the handlers in flight
  answers       \* what CreateShipper has answered to which request

vars == <<store, idempotency, call, answers>>

(* pc: "put" before put_shipper, "record" before idempotent_record.  `new`  *)
(* is the shipper to store, `etag` the token the client supplied.           *)
NoCall == [pc |-> "idle", method |-> "none", new |-> None, etag |-> NoEtag,
           request |-> None]

Call == [pc : {"idle", "put", "record"},
         method : {"none", "create", "update", "delete", "undelete"},
         new : Shipper \cup {None}, etag : Etags \cup {NoEtag},
         request : Request \cup {None}]

Answer == [request : Request, shipper : Shipper]

TypeOK ==
  /\ store \in [Names -> Shipper \cup {None}]
  /\ idempotency \in [RequestIds -> IdempotentRecord \cup {None}]
  /\ call \in [Calls -> Call]
  /\ answers \subseteq Answer

Init ==
  /\ store = [n \in Names |-> None]
  /\ idempotency = [i \in RequestIds |-> None]
  /\ call = [c \in Calls |-> NoCall]
  /\ answers = {}

-------------------------------------------------------------------------------
(* ShipperResourceName::mint returns a UUID nobody else has been given.     *)
Fresh(n) ==
  /\ store[n] = None
  /\ \A c \in Calls : call[c].new # None => call[c].new.name # n

(* idempotent_lookup: the recorded request and what Replay::decide says.    *)
Recorded(id) ==
  IF id = NoId \/ idempotency[id] = None THEN None ELSE idempotency[id].request

Outcome(request) == Decide(Recorded(request.id), request)

Begin(c, method, new, etag, request) ==
  call' = [call EXCEPT ![c] = [pc |-> "put", method |-> method, new |-> new,
                               etag |-> etag, request |-> request]]

(* create_shipper, an unseen or empty request_id: build_shipper mints the   *)
(* shipper to put.  commit_unless drops a validate_only one here.           *)
CreateMiss(c, request, n) ==
  /\ call[c].pc = "idle"
  /\ Outcome(request) = "New"
  /\ ~request.validate_only
  /\ Fresh(n)
  /\ Begin(c, "create", BuildShipper(n, request.content), NoEtag, request)
  /\ UNCHANGED <<store, idempotency, answers>>

(* ... an id seen with the same request replays the recorded response; one  *)
(* seen with another is a conflict and changes nothing.                     *)
CreateReplay(c, request) ==
  /\ call[c].pc = "idle"
  /\ Outcome(request) = "Replayed"
  /\ answers' = answers \cup
       {[request |-> request,
         shipper |-> idempotency[request.id].response]}
  /\ UNCHANGED <<store, idempotency, call>>

(* ... idempotent_record inserts, whatever the map holds by now, and the    *)
(* call answers; an empty id records nothing.                               *)
CreateRecord(c) ==
  LET request == call[c].request
      new     == call[c].new
  IN
  /\ call[c].pc = "record"
  /\ idempotency' =
       IF request.id = NoId THEN idempotency
       ELSE [idempotency EXCEPT
              ![request.id] = [request |-> request, response |-> new]]
  /\ answers' = answers \cup {[request |-> request, shipper |-> new]}
  /\ call' = [call EXCEPT ![c] = NoCall]
  /\ UNCHANGED store

-------------------------------------------------------------------------------
(* update_shipper: get_shipper by the parsed name, the freshness check and  *)
(* the merge.  A soft-deleted shipper may be updated.                       *)
UpdateGet(c, n, spelling, content, etag) ==
  /\ call[c].pc = "idle"
  /\ store[n] # None
  /\ Check(etag, store[n])
  /\ Begin(c, "update", Merge(store[n], spelling, content), etag, None)
  /\ UNCHANGED <<store, idempotency, answers>>

(* delete_shipper: a hidden shipper is NOT_FOUND; the etag is not touched.  *)
DeleteGet(c, n, etag) ==
  /\ call[c].pc = "idle"
  /\ store[n] # None
  /\ CheckVisible(store[n])
  /\ Check(etag, store[n])
  /\ Begin(c, "delete", [store[n] EXCEPT !.deleted = TRUE], etag, None)
  /\ UNCHANGED <<store, idempotency, answers>>

(* undelete_shipper: takes no etag.                                         *)
UndeleteGet(c, n) ==
  /\ call[c].pc = "idle"
  /\ store[n] # None
  /\ CheckDeleted(store[n])
  /\ Begin(c, "undelete", [store[n] EXCEPT !.deleted = FALSE], NoEtag, None)
  /\ UNCHANGED <<store, idempotency, answers>>

(* put_shipper, the upsert each of them ends with.  A create has its        *)
(* idempotency record still to write.                                       *)
Mut_Put_NoRecord(c) ==
  /\ call[c].pc = "put"
  /\ store' = [store EXCEPT ![call[c].new.name] = Row(call[c].new)]
  /\ call' = [call EXCEPT ![c] = NoCall]
  /\ UNCHANGED <<idempotency, answers>>

Put(c) ==
  /\ call[c].pc = "put"
  /\ store' = [store EXCEPT ![call[c].new.name] = Row(call[c].new)]
  /\ call' = [call EXCEPT ![c] = IF call[c].method = "create"
                                 THEN [@ EXCEPT !.pc = "record"]
                                 ELSE NoCall]
  /\ UNCHANGED <<idempotency, answers>>

-------------------------------------------------------------------------------
Supplied == Etags \cup {NoEtag, BadEtag}

Next ==
  \E c \in Calls :
    \/ \E request \in Request :
         \/ \E n \in Names : CreateMiss(c, request, n)
         \/ CreateReplay(c, request)
    \/ \E n \in Names, etag \in Supplied :
         \/ \E spelling \in Spellings, content \in Contents \cup {None} :
              UpdateGet(c, n, spelling, content, etag)
         \/ DeleteGet(c, n, etag)
    \/ \E n \in Names : UndeleteGet(c, n)
    \/ Put(c)
    \/ CreateRecord(c)

Spec == Init /\ [][Next]_vars
===============================================================================
