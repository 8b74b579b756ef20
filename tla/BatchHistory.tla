----------------------------- MODULE BatchHistory -----------------------------
(***************************************************************************)
(* BatchOperations observed from outside: two history variables record     *)
(* what no single state of the server remembers, so that the properties    *)
(* below can relate a state to an earlier one.  They constrain nothing.    *)
(***************************************************************************)
EXTENDS BatchOperations

VARIABLES
  last,        \* the newest version of each record ever stored
  flaggedAt    \* shippers the task had created when its flag was raised

hvars == <<vars, last, flaggedAt>>

ASSUME NoneIsNoCount == None \notin Nat

HInit ==
  /\ Init
  /\ last = [n \in OpNames |-> None]
  /\ flaggedAt = [n \in OpNames |-> None]

Observe ==
  /\ last' = [n \in OpNames |->
       IF operations'[n] # None THEN operations'[n] ELSE last[n]]
  /\ flaggedAt' = [n \in OpNames |->
       IF n \in cancels' \ cancels THEN Len(tasks[n].created) ELSE flaggedAt[n]]

HNext == Next /\ Observe

HSpec == HInit /\ [][HNext]_hvars

HFairSpec == HSpec /\ Fairness

(* The abstract specifications: of the versions, and of what is visible.   *)
Versions == INSTANCE OperationVersions
Promise  == INSTANCE OperationPromise WITH record <- operations

-------------------------------------------------------------------------------
(* The shippers of operation n in the shipper store, and those its task has *)
(* counted.                                                                 *)
StoredBy(n)  == {s \in shippers : s[1] = n}
CountedBy(n) == {Mint(n, i) : i \in 1 .. Len(tasks[n].created)}

(* Progress a client reads is backed by work: `created` shippers are in the *)
(* store, at most one more is, and a done record's count is exact -- also   *)
(* when the batch was cancelled or failed half way, and also when the       *)
(* record was deleted and written back.                                     *)
ProgressIsBacked ==
  \A n \in OpNames : operations[n] # None =>
    LET op == operations[n] IN
    /\ {Mint(n, i) : i \in 1 .. op.metadata.created} \subseteq StoredBy(n)
    /\ Len(tasks[n].created) <= op.metadata.created + 1
    /\ op.done => StoredBy(n) = {Mint(n, i) : i \in 1 .. op.metadata.created}

(* A succeeded operation delivered the whole batch: its response lists one  *)
(* stored shipper per request, in request order, and no request was bad.    *)
SuccessIsComplete ==
  \A n \in OpNames :
    (operations[n] # None /\ State(operations[n]) = "Succeeded") =>
      LET op == operations[n] IN
      /\ op.result.shippers = [i \in 1 .. Total(n) |-> Mint(n, i)]
      /\ op.metadata = [created |-> Total(n), total |-> Total(n)]
      /\ \A i \in 1 .. Total(n) :
           tasks[n].requests[i] = "ok" /\ Mint(n, i) \in shippers

(* Cancellation is prompt and never spontaneous: while the flag is up the   *)
(* task creates at most the one shipper it had begun, and an operation ends *)
(* in CANCELLED only when cancellation of that operation was requested.     *)
CancelIsPrompt ==
  \A n \in OpNames :
    /\ n \in cancels => Len(tasks[n].created) <= flaggedAt[n] + 1
    /\ (last[n] # None /\ last[n].result.code = CANCELLED) =>
         /\ flaggedAt[n] # None
         /\ Len(tasks[n].created) <= flaggedAt[n] + 1

(* A WaitOperation between its read and the end of its await, its Notified  *)
(* not fired; and a wake-up that a writer of n's record has still to give.  *)
Sleeping(c) == rpc[c].pc \in {"wait_poll", "wait_await"} /\ ~rpc[c].notified

WakeupOwed(n) ==
  \/ tasks[n].pc = "notify"
  \/ \E d \in Clients :
       /\ rpc[d].name = n
       /\ \/ rpc[d].pc = "delete_unflag" /\ rpc[d].removed
          \/ rpc[d].pc = "delete_notify"

(* No wake-up is lost: when a WaitOperation sleeps though its operation is  *)
(* already done or deleted, whoever resolved or removed the record has      *)
(* still to call notify_waiters.                                            *)
NoLostWakeup ==
  \A c \in Clients :
    (Sleeping(c) /\ (Absent(rpc[c].name) \/ IsDone(rpc[c].name)))
      => WakeupOwed(rpc[c].name)

(* The versions of a record that the store and the batch task ever make     *)
(* visible walk forward to at most one final result, though update_operation *)
(* reads and writes under two locks and a delete may fall in between.       *)
ImplementsVersions == Versions!Spec

(* The same with a delete that is final, as run_batch_create's comment has  *)
(* it: "a DeleteOperation that removed it simply stops the task".  A delete *)
(* between the task's get and its put is undone by the put.                 *)
ImplementsPromise == Promise!Spec

-------------------------------------------------------------------------------
(* Why the versions walk, as an inductive invariant.  The task is the       *)
(* only writer of a record after its creation, so the copy it holds between *)
(* get and put is still the newest version, whatever deletes happened in    *)
(* between; and the newest version agrees with where the task stands.       *)

(* `last` is indeed the newest version: what is visible is never older.     *)
VisibleIsNewest ==
  \A n \in OpNames : operations[n] # None => operations[n] = last[n]

Creating(c, n) == rpc[c].pc = "create_spawn" /\ rpc[c].name = n

(* A call names an operation; one that has stored the pending record and    *)
(* not yet spawned its task is the only one that will spawn it.             *)
CallInv(c) ==
  LET n == rpc[c].name IN
  /\ rpc[c].pc # "idle" => n \in OpNames
  /\ rpc[c].pc = "create_spawn" =>
       /\ rpc[c].requests \in Batches
       /\ rpc[c].requests # <<>>
       /\ tasks[n].pc = "unborn"
       /\ last[n] = Pending(n, [created |-> 0, total |-> Len(rpc[c].requests)])
       /\ \A d \in Clients : Creating(d, n) => d = c

(* Before the spawn nothing was stored but by the creating call.            *)
UnbornInv(n) ==
  tasks[n].pc = "unborn" => (last[n] = None \/ \E c \in Clients : Creating(c, n))

(* After it, the newest version is the task's: pending while the task has   *)
(* an update to make, one unit behind while that update reports progress.   *)
RunningInv(n) ==
  LET t == tasks[n]
      k == Len(t.created)
  IN
  t.pc # "unborn" =>
    /\ t.requests \in Batches
    /\ t.requests # <<>>
    /\ k <= Len(t.requests)
    /\ last[n] # None
    /\ last[n].name = n
    /\ last[n].metadata.total = Len(t.requests)
    /\ Valid(last[n])
    /\ t.pc = "work" => k < Len(t.requests)
    /\ (t.pc \in {"check", "work"} \/ (t.pc = "notify" /\ t.apply = "progress")) =>
         ~last[n].done /\ last[n].metadata.created = k
    /\ t.pc \in {"load", "store"} =>
         /\ ~last[n].done
         /\ t.apply = "progress" => last[n].metadata.created = k - 1
         /\ t.apply # "progress" => last[n].metadata.created = k
         /\ t.apply = "succeed" => k = Len(t.requests)
    /\ t.pc = "store" => t.loaded = last[n]

PromiseInv ==
  /\ TypeOK
  /\ last \in [OpNames -> Operation \cup {None}]
  /\ VisibleIsNewest
  /\ \A c \in Clients : CallInv(c)
  /\ \A n \in OpNames : UnbornInv(n) /\ RunningInv(n)

(* Why progress is backed and success complete: the shippers of n in the    *)
(* store are those its task has counted, in order, each made of an "ok"     *)
(* request; the newest version is at most one behind, and once it is done   *)
(* it is exact and the task makes no more.                                  *)
Tallied(n) ==
  LET t == tasks[n]
      k == Len(t.created)
  IN
  /\ t.pc = "unborn" => k = 0
  /\ \A i \in 1 .. k : t.created[i] = Mint(n, i) /\ t.requests[i] = "ok"
  /\ StoredBy(n) = CountedBy(n)
  /\ last[n] # None =>
       /\ last[n].metadata.created <= k
       /\ k <= last[n].metadata.created + 1
       /\ ~last[n].done => last[n].result = NoResult
       /\ last[n].done => /\ t.pc \in {"notify", "clear", "end"}
                          /\ last[n].metadata.created = k
       /\ last[n].result.kind = "response" =>
            last[n].result.shippers = t.created /\ k = Len(t.requests)

(* Why a cancel is prompt: a task that has noticed the flag makes no more,  *)
(* one that has not is at most between its last look and its put.           *)
Cancelling(n) ==
  \/ n \in cancels
  \/ tasks[n].apply = "cancel"
  \/ last[n] # None /\ last[n].done /\ last[n].result.code = CANCELLED

Prompt(n) ==
  LET k == Len(tasks[n].created) IN
  /\ Cancelling(n) => flaggedAt[n] \in Nat /\ k <= flaggedAt[n] + 1
  /\ (n \in cancels /\ tasks[n].pc = "work") => k <= flaggedAt[n]
  /\ tasks[n].pc \in {"load", "store"} => tasks[n].apply # "none"

WorkInv == \A n \in OpNames : Tallied(n) /\ Prompt(n)

-------------------------------------------------------------------------------
(* No wake-up is lost: every WaitOperation answers, though no deadline need *)
(* ever pass, because the task resolves the operation (or a delete removes  *)
(* it) and the wait was enrolled before it read.                            *)
WaitReturns ==
  \A c \in Clients :
    rpc[c].pc \in Waiting ~> rpc[c].pc = "idle"

(* Every stored operation is eventually done or deleted: no path out of the *)
(* task (success, failure, cancellation) leaves it pending for good.        *)
EveryOperationResolves ==
  \A n \in OpNames :
    (~Absent(n) /\ ~IsDone(n)) ~> (Absent(n) \/ IsDone(n))
===============================================================================
