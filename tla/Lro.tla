--------------------------------- MODULE Lro ---------------------------------
(***************************************************************************)
(* The aip-lro crate: the wire `Operation` record and the transitions that *)
(* mod `dynamic` defines on it (AIP-151).  The library is a pure state     *)
(* machine: it owns no store, no clock and no task.  Each operator returns *)
(* the record the Rust function leaves behind; a refused transition (the   *)
(* error AlreadyDone) leaves it as it was, and every caller in the         *)
(* repository drops that error (`let _ = op.cancel()`).                    *)
(*                                                                         *)
(* The packed `Any` payloads are abstracted to what the batch method puts  *)
(* in them: progress metadata [created, total] and a response that is the  *)
(* sequence of created shippers.  A Status is its gRPC code.               *)
(***************************************************************************)
EXTENDS Integers, Sequences

CONSTANTS
  OpNames,   \* well-formed operation names, `operations/{uuid}`
  NoName,    \* the empty name, which only a validate_only operation carries
  Shippers,  \* the shipper resources a response may list
  None       \* Rust's Option::None

ASSUME NoNameAssumption == NoName \notin OpNames

CANCELLED        == 1   \* CANCELLED_CODE
INVALID_ARGUMENT == 3
Codes            == {CANCELLED, INVALID_ARGUMENT}

(* The `result` oneof: unset, a response, or an error status.              *)
NoResult       == [kind |-> "none",     shippers |-> <<>>, code |-> 0]
Response(resp) == [kind |-> "response", shippers |-> resp, code |-> 0]
Error(code)    == [kind |-> "error",    shippers |-> <<>>, code |-> code]

Result    == [kind : {"none", "response", "error"},
              shippers : Seq(Shippers), code : Codes \cup {0}]
Metadata  == [created : Nat, total : Nat]
Operation == [name : OpNames \cup {NoName}, metadata : Metadata,
              done : BOOLEAN, result : Result]

ASSUME NoneAssumption == None \notin Operation

(* dynamic::pending                                                        *)
Pending(name, metadata) ==
  [name |-> name, metadata |-> metadata, done |-> FALSE, result |-> NoResult]

(* dynamic::ensure_pending: terminal-once, a done operation never re-opens. *)
EnsurePending(op) == ~op.done

Resolved(op, result) ==
  IF EnsurePending(op) THEN [op EXCEPT !.done = TRUE, !.result = result] ELSE op

Succeed(op, resp) == Resolved(op, Response(resp))
Fail(op, code)    == Resolved(op, Error(code))
Cancel(op)        == Fail(op, CANCELLED)

SetMetadata(op, metadata) ==
  IF EnsurePending(op) THEN [op EXCEPT !.metadata = metadata] ELSE op

(* State::of                                                               *)
State(op) ==
  CASE ~op.done                                 -> "Pending"
    [] op.done /\ op.result.kind = "response"   -> "Succeeded"
    [] op.done /\ op.result.kind # "response"   -> "Failed"

(* dynamic::validate, which Operation::from_inner applies to every record  *)
(* read back from a store: it is named, and done exactly when it carries a *)
(* result.                                                                 *)
Valid(op) ==
  /\ op.name # NoName
  /\ op.done <=> op.result.kind # "none"
==============================================================================
