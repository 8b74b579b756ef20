--------------------------- MODULE BatchOperations ---------------------------
(***************************************************************************)
(* The long-running-operation half of examples/freight-server: the         *)
(* OperationStore (storage.rs), the BatchCreateShippers handler and its     *)
(* background task, and the google.longrunning.Operations handlers          *)
(* (service.rs), over the aip-lro records of module Lro.                    *)
(*                                                                         *)
(* The server runs on tokio's multi-threaded runtime, so handlers and       *)
(* tasks interleave between any two lock acquisitions.  One action is what  *)
(* happens under ONE acquisition of one mutex, or one call on the Notify.   *)
(* GetOperation and ListOperations read the store once and write nothing;   *)
(* they have no action here.                                                *)
(***************************************************************************)
EXTENDS Lro

CONSTANTS
  Clients,     \* gRPC callers; each has at most one call in flight
  Batches      \* the `requests` lists a client may send

(* A CreateShipperRequest is abstracted to what build_shipper makes of it:  *)
(* "ok" passes the REQUIRED-field validation, "bad" does not.               *)
Requests == {"ok", "bad"}

ASSUME BatchesAssumption == Batches \subseteq Seq(Requests)

(* ShipperResourceName::mint: the system-assigned name of the i-th shipper  *)
(* of a batch.  A minted UUID is fresh, so the pair (operation, index)      *)
(* stands for it.                                                           *)
Mint(n, i) == <<n, i>>

ASSUME MintAssumption ==
  \A n \in OpNames : \A b \in Batches :
     \A i \in DOMAIN b : Mint(n, i) \in Shippers

VARIABLES
  operations,  \* OperationStore.operations: name -> record, None when unset
  cancels,     \* OperationStore.cancels: names with cancellation requested
  shippers,    \* Storage: the shippers the batch tasks have stored
  tasks,       \* run_batch_create, one spawned task per minted name
  rpc          \* the call each client has in flight

vars == <<operations, cancels, shippers, tasks, rpc>>

(* Where a task stands.  "unborn": not spawned yet; "check": top of the     *)
(* loop; "work": between the sleep and put_shipper; "load"/"store"/"notify":*)
(* inside update_operation; "clear": about to clear_cancel; "end": returned.*)
TaskPc == {"unborn", "check", "work", "load", "store", "notify", "clear", "end"}

(* The closure update_operation is called with.                             *)
Apply == {"none", "progress", "succeed", "fail", "cancel"}

Task == [pc : TaskPc, requests : Seq(Requests), created : Seq(Shippers),
         apply : Apply, loaded : Operation \cup {None}]

UnbornTask == [pc |-> "unborn", requests |-> <<>>, created |-> <<>>,
               apply |-> "none", loaded |-> None]

(* Where a call stands; the first word is the method.                       *)
RpcPc == {"idle", "create_spawn", "cancel_flag",
          "delete_unflag", "delete_notify",
          "wait_enrol", "wait_read", "wait_poll", "wait_await"}

Waiting == {"wait_enrol", "wait_read", "wait_poll", "wait_await"}

(* removed: what OperationStore::remove found; notified: the wait's         *)
(* Notified future has fired; expired: its deadline has passed.             *)
Rpc == [pc : RpcPc, name : OpNames \cup {NoName}, removed : BOOLEAN,
        notified : BOOLEAN, expired : BOOLEAN, requests : Seq(Requests)]

Idle == [pc |-> "idle", name |-> NoName, removed |-> FALSE,
         notified |-> FALSE, expired |-> FALSE, requests |-> <<>>]

TypeOK ==
  /\ operations \in [OpNames -> Operation \cup {None}]
  /\ cancels \subseteq OpNames
  /\ shippers \subseteq Shippers
  /\ tasks \in [OpNames -> Task]
  /\ rpc \in [Clients -> Rpc]

Init ==
  /\ operations = [n \in OpNames |-> None]
  /\ cancels = {}
  /\ shippers = {}
  /\ tasks = [n \in OpNames |-> UnbornTask]
  /\ rpc = [c \in Clients |-> Idle]

------------------------------------------------------------------------------
(* tokio::sync::Notify, as WaitOperation uses it: notify_waiters fires every*)
(* Notified future enrolled by then, and stores no permit for later ones.   *)
(* `enable()` enrols a wait before its read; without it the future would be *)
(* enrolled when the await first polls it.                                  *)
Mut_NotifyWaiters_NoEnable(calls) ==
  [c \in Clients |-> IF calls[c].pc = "wait_await"
                     THEN [calls[c] EXCEPT !.notified = TRUE]
                     ELSE calls[c]]

NotifyWaiters(calls) ==
  [c \in Clients |-> IF calls[c].pc \in {"wait_read", "wait_poll", "wait_await"}
                     THEN [calls[c] EXCEPT !.notified = TRUE]
                     ELSE calls[c]]

Absent(n) == operations[n] = None

IsDone(n) == operations[n] # None /\ operations[n].done

(* A name not minted yet: every BatchCreateShippers mints a fresh UUID.     *)
Fresh(n) ==
  /\ tasks[n].pc = "unborn"
  /\ Absent(n)
  /\ \A c \in Clients : ~(rpc[c].pc = "create_spawn" /\ rpc[c].name = n)

Total(n) == Len(tasks[n].requests)

------------------------------------------------------------------------------
(* batch_create_shippers.  An empty batch is refused by validate_required   *)
(* and a validate_only one stores nothing, so neither takes a step.         *)
CreatePut(c, n, batch) ==
  /\ rpc[c].pc = "idle"
  /\ Fresh(n)
  /\ batch # <<>>
  /\ operations' = [operations EXCEPT
       ![n] = Pending(n, [created |-> 0, total |-> Len(batch)])]
  /\ rpc' = [rpc EXCEPT ![c] = [Idle EXCEPT !.pc = "create_spawn", !.name = n,
                                            !.requests = batch]]
  /\ UNCHANGED <<cancels, shippers, tasks>>

(* ... the notify of that put, then tokio::spawn.  The record may have been *)
(* deleted meanwhile: the task is spawned all the same.                     *)
CreateSpawn(c) ==
  /\ rpc[c].pc = "create_spawn"
  /\ tasks' = [tasks EXCEPT ![rpc[c].name] =
       [UnbornTask EXCEPT !.pc = "check", !.requests = rpc[c].requests]]
  /\ rpc' = NotifyWaiters([rpc EXCEPT ![c] = Idle])
  /\ UNCHANGED <<operations, cancels, shippers>>

------------------------------------------------------------------------------
(* run_batch_create.  A call of update_operation: get under one lock ...    *)
Update(n, apply, created) ==
  tasks' = [tasks EXCEPT ![n].pc = "load", ![n].apply = apply,
                         ![n].created = created]

(* Mutants of TaskCheck: the loop ends one request early; the flag is not   *)
(* polled.                                                                  *)
Mut_TaskCheck_EndsEarly(n) ==
  /\ tasks[n].pc = "check"
  /\ IF Len(tasks[n].created) + 1 >= Total(n)
     THEN Update(n, "succeed", tasks[n].created)
     ELSE IF n \in cancels
          THEN Update(n, "cancel", tasks[n].created)
          ELSE tasks' = [tasks EXCEPT ![n].pc = "work"]
  /\ UNCHANGED <<operations, cancels, shippers, rpc>>

Mut_TaskCheck_NoPoll(n) ==
  /\ tasks[n].pc = "check"
  /\ IF Len(tasks[n].created) = Total(n)
     THEN Update(n, "succeed", tasks[n].created)
     ELSE tasks' = [tasks EXCEPT ![n].pc = "work"]
  /\ UNCHANGED <<operations, cancels, shippers, rpc>>

(* The top of the loop: notice a cancel request before the next shipper, or *)
(* leave the loop and resolve the operation, without a last look at the     *)
(* flag.                                                                    *)
TaskCheck(n) ==
  /\ tasks[n].pc = "check"
  /\ IF Len(tasks[n].created) = Total(n)
     THEN Update(n, "succeed", tasks[n].created)
     ELSE IF n \in cancels
          THEN Update(n, "cancel", tasks[n].created)
          ELSE tasks' = [tasks EXCEPT ![n].pc = "work"]
  /\ UNCHANGED <<operations, cancels, shippers, rpc>>

(* Mutants of TaskWork: the stored shipper is off by one; an invalid        *)
(* request ends the task without failing the operation.                     *)
Mut_TaskWork_OffByOne(n) ==
  LET i == Len(tasks[n].created) + 1 IN
  /\ tasks[n].pc = "work"
  /\ \/ /\ tasks[n].requests[i] = "ok"
        /\ shippers' = shippers \cup {Mint(n, i + 1)}
        /\ Update(n, "progress", Append(tasks[n].created, Mint(n, i + 1)))
     \/ /\ tasks[n].requests[i] = "bad"
        /\ Update(n, "fail", tasks[n].created)
        /\ UNCHANGED shippers
  /\ UNCHANGED <<operations, cancels, rpc>>

Mut_TaskWork_NoFail(n) ==
  LET i == Len(tasks[n].created) + 1 IN
  /\ tasks[n].pc = "work"
  /\ \/ /\ tasks[n].requests[i] = "ok"
        /\ shippers' = shippers \cup {Mint(n, i)}
        /\ Update(n, "progress", Append(tasks[n].created, Mint(n, i)))
     \/ /\ tasks[n].requests[i] = "bad"
        /\ tasks' = [tasks EXCEPT ![n].pc = "end"]
        /\ UNCHANGED shippers
  /\ UNCHANGED <<operations, cancels, rpc>>

(* After the sleep: build_shipper, and put_shipper when it succeeds.        *)
TaskWork(n) ==
  LET i == Len(tasks[n].created) + 1 IN
  /\ tasks[n].pc = "work"
  /\ \/ /\ tasks[n].requests[i] = "ok"
        /\ shippers' = shippers \cup {Mint(n, i)}
        /\ Update(n, "progress", Append(tasks[n].created, Mint(n, i)))
     \/ /\ tasks[n].requests[i] = "bad"
        /\ Update(n, "fail", tasks[n].created)
        /\ UNCHANGED shippers
  /\ UNCHANGED <<operations, cancels, rpc>>

(* A mutant of AfterUpdate: the cancel path forgets its `return`.           *)
Mut_AfterUpdate_NoReturn(n, present) ==
  CASE tasks[n].apply \in {"progress", "cancel"} -> IF present THEN "check" ELSE "end"
    [] OTHER -> "end"

(* What the task does once update_operation has returned `present`.         *)
AfterUpdate(n, present) ==
  CASE tasks[n].apply = "progress" -> IF present THEN "check" ELSE "end"
    [] tasks[n].apply = "cancel"   -> "clear"
    [] OTHER                       -> "end"

(* Mutants of Applied: `index + 2`; a failed batch reports partial success. *)
Mut_Applied_OverCount(n, op) ==
  CASE tasks[n].apply = "progress" ->
         SetMetadata(op, [created |-> Len(tasks[n].created) + 1, total |-> Total(n)])
    [] tasks[n].apply = "succeed"  -> Succeed(op, tasks[n].created)
    [] tasks[n].apply = "fail"     -> Fail(op, INVALID_ARGUMENT)
    [] OTHER                       -> Cancel(op)

Mut_Applied_PartialSuccess(n, op) ==
  CASE tasks[n].apply = "progress" ->
         SetMetadata(op, [created |-> Len(tasks[n].created), total |-> Total(n)])
    [] tasks[n].apply \in {"succeed", "fail"} -> Succeed(op, tasks[n].created)
    [] OTHER                       -> Cancel(op)

(* The step of the closure on the loaded record.                            *)
Applied(n, op) ==
  CASE tasks[n].apply = "progress" ->
         SetMetadata(op, [created |-> Len(tasks[n].created), total |-> Total(n)])
    [] tasks[n].apply = "succeed"  -> Succeed(op, tasks[n].created)
    [] tasks[n].apply = "fail"     -> Fail(op, INVALID_ARGUMENT)
    [] OTHER                       -> Cancel(op)

(* update_operation: get, then from_inner; a missing or malformed record    *)
(* ends the call with nothing written.                                      *)
UpdateLoad(n) ==
  LET op == operations[n] IN
  /\ tasks[n].pc = "load"
  /\ \/ /\ op # None
        /\ Valid(op)
        /\ tasks' = [tasks EXCEPT ![n].pc = "store", ![n].loaded = op]
     \/ /\ ~(op # None /\ Valid(op))
        /\ tasks' = [tasks EXCEPT ![n].pc = AfterUpdate(n, FALSE),
                                  ![n].apply = "none"]
  /\ UNCHANGED <<operations, cancels, shippers, rpc>>

(* ... then put, a second acquisition: it inserts the mutated copy whatever *)
(* the store now holds.                                                     *)
UpdateStore(n) ==
  /\ tasks[n].pc = "store"
  /\ operations' = [operations EXCEPT ![n] = Applied(n, tasks[n].loaded)]
  /\ tasks' = [tasks EXCEPT ![n].pc = "notify", ![n].loaded = None]
  /\ UNCHANGED <<cancels, shippers, rpc>>

(* ... and put wakes the waiters after it has released the lock.            *)
UpdateNotify(n) ==
  /\ tasks[n].pc = "notify"
  /\ rpc' = NotifyWaiters(rpc)
  /\ tasks' = [tasks EXCEPT ![n].pc = AfterUpdate(n, TRUE), ![n].apply = "none"]
  /\ UNCHANGED <<operations, cancels, shippers>>

(* clear_cancel, on the cancel path only.                                   *)
TaskClear(n) ==
  /\ tasks[n].pc = "clear"
  /\ cancels' = cancels \ {n}
  /\ tasks' = [tasks EXCEPT ![n].pc = "end"]
  /\ UNCHANGED <<operations, shippers, rpc>>

TaskStep(n) ==
  \/ TaskCheck(n)  \/ TaskWork(n)     \/ UpdateLoad(n)
  \/ UpdateStore(n) \/ UpdateNotify(n) \/ TaskClear(n)

------------------------------------------------------------------------------
(* cancel_operation: `require` finds the record (done or not) ...           *)
CancelRequire(c, n) ==
  /\ rpc[c].pc = "idle"
  /\ ~Absent(n)
  /\ rpc' = [rpc EXCEPT ![c] = [Idle EXCEPT !.pc = "cancel_flag", !.name = n]]
  /\ UNCHANGED <<operations, cancels, shippers, tasks>>

(* ... and request_cancel raises the flag under the other lock.             *)
CancelFlag(c) ==
  /\ rpc[c].pc = "cancel_flag"
  /\ cancels' = cancels \cup {rpc[c].name}
  /\ rpc' = [rpc EXCEPT ![c] = Idle]
  /\ UNCHANGED <<operations, shippers, tasks>>

(* delete_operation: OperationStore::remove drops the record ...            *)
DeleteRemove(c, n) ==
  /\ rpc[c].pc = "idle"
  /\ operations' = [operations EXCEPT ![n] = None]
  /\ rpc' = [rpc EXCEPT ![c] = [Idle EXCEPT !.pc = "delete_unflag", !.name = n,
                                            !.removed = ~Absent(n)]]
  /\ UNCHANGED <<cancels, shippers, tasks>>

(* A mutant of DeleteUnflag: remove wakes nobody.                           *)
Mut_DeleteUnflag_NoWake(c) ==
  /\ rpc[c].pc = "delete_unflag"
  /\ cancels' = cancels \ {rpc[c].name}
  /\ rpc' = [rpc EXCEPT ![c] = Idle]
  /\ UNCHANGED <<operations, shippers, tasks>>

(* ... then the flag, found or not, and is done when nothing was removed.   *)
DeleteUnflag(c) ==
  /\ rpc[c].pc = "delete_unflag"
  /\ cancels' = cancels \ {rpc[c].name}
  /\ rpc' = [rpc EXCEPT ![c] = IF rpc[c].removed
                               THEN [@ EXCEPT !.pc = "delete_notify"]
                               ELSE Idle]
  /\ UNCHANGED <<operations, shippers, tasks>>

DeleteNotify(c) ==
  /\ rpc[c].pc = "delete_notify"
  /\ rpc' = NotifyWaiters([rpc EXCEPT ![c] = Idle])
  /\ UNCHANGED <<operations, cancels, shippers, tasks>>

------------------------------------------------------------------------------
(* wait_operation: the name parses and the deadline resolves.               *)
WaitStart(c, n) ==
  /\ rpc[c].pc = "idle"
  /\ rpc' = [rpc EXCEPT ![c] = [Idle EXCEPT !.pc = "wait_enrol", !.name = n]]
  /\ UNCHANGED <<operations, cancels, shippers, tasks>>

(* A turn of the loop: enrol with the Notify before reading ...             *)
WaitEnrol(c) ==
  /\ rpc[c].pc = "wait_enrol"
  /\ rpc' = [rpc EXCEPT ![c].pc = "wait_read", ![c].notified = FALSE]
  /\ UNCHANGED <<operations, cancels, shippers, tasks>>

(* ... read: answer NOT_FOUND, a done operation, or whatever there is once  *)
(* the deadline has passed; otherwise await the change.                     *)
WaitRead(c) ==
  LET answer == Absent(rpc[c].name) \/ IsDone(rpc[c].name) \/ rpc[c].expired IN
  /\ rpc[c].pc = "wait_read"
  /\ \/ /\ answer
        /\ rpc' = [rpc EXCEPT ![c] = Idle]
     \/ /\ ~answer
        /\ rpc' = [rpc EXCEPT ![c].pc = "wait_poll"]
  /\ UNCHANGED <<operations, cancels, shippers, tasks>>

(* The await is entered some time after the read.                           *)
WaitPoll(c) ==
  /\ rpc[c].pc = "wait_poll"
  /\ rpc' = [rpc EXCEPT ![c].pc = "wait_await"]
  /\ UNCHANGED <<operations, cancels, shippers, tasks>>

WaitWake(c) ==
  /\ rpc[c].pc = "wait_await"
  /\ rpc[c].notified
  /\ rpc' = [rpc EXCEPT ![c].pc = "wait_enrol"]
  /\ UNCHANGED <<operations, cancels, shippers, tasks>>

(* The timeout fires first: get once more and answer with that.             *)
WaitTimeout(c) ==
  /\ rpc[c].pc = "wait_await"
  /\ rpc[c].expired
  /\ rpc' = [rpc EXCEPT ![c] = Idle]
  /\ UNCHANGED <<operations, cancels, shippers, tasks>>

(* The passage of time, at any moment of a wait.                            *)
DeadlinePasses(c) ==
  /\ rpc[c].pc \in Waiting
  /\ ~rpc[c].expired
  /\ rpc' = [rpc EXCEPT ![c].expired = TRUE]
  /\ UNCHANGED <<operations, cancels, shippers, tasks>>

------------------------------------------------------------------------------
(* What a client may ask for, and the steps of a call it has in flight.     *)
Request(c) ==
  \E n \in OpNames :
    \/ \E batch \in Batches : CreatePut(c, n, batch)
    \/ CancelRequire(c, n)
    \/ DeleteRemove(c, n)
    \/ WaitStart(c, n)

HandlerStep(c) ==
  \/ CreateSpawn(c)
  \/ CancelFlag(c)
  \/ DeleteUnflag(c)
  \/ DeleteNotify(c)
  \/ WaitEnrol(c)
  \/ WaitRead(c)
  \/ WaitPoll(c)
  \/ WaitWake(c)
  \/ WaitTimeout(c)

Next ==
  \/ \E c \in Clients : Request(c) \/ HandlerStep(c) \/ DeadlinePasses(c)
  \/ \E n \in OpNames : TaskStep(n)

Spec == Init /\ [][Next]_vars

(* tokio runs every ready task and handler eventually, and a mutex is held  *)
(* for one map access only.  Clients need not call, and no deadline need    *)
(* ever pass: a wait must not depend on its timeout.                        *)
Fairness ==
  /\ \A n \in OpNames : WF_vars(TaskStep(n))
  /\ \A c \in Clients : WF_vars(HandlerStep(c))

FairSpec == Spec /\ Fairness
==============================================================================
