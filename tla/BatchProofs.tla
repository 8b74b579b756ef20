----------------------------- MODULE BatchProofs -----------------------------
(***************************************************************************)
(* Machine-checked proofs about BatchHistory, for any number of clients,   *)
(* operations and requests.                                                *)
(***************************************************************************)
EXTENDS BatchHistory, TLAPS

(* The records the aip-lro transitions return are operations.              *)
LEMMA PendingType ==
  ASSUME NEW n \in OpNames, NEW k \in Nat, NEW t \in Nat
  PROVE  Pending(n, [created |-> k, total |-> t]) \in Operation
  BY DEF Pending, Operation, Metadata, Result, NoResult, Codes

(* succeed, fail and cancel all resolve through this one transition.       *)
LEMMA ResolvedType ==
  ASSUME NEW op \in Operation, NEW r \in Result
  PROVE  Resolved(op, r) \in Operation
  BY DEF Resolved, Operation

(* The two results a resolved operation may carry are well-typed.          *)
LEMMA ResultTypes ==
  /\ \A resp \in Seq(Shippers) : Response(resp) \in Result
  /\ \A code \in Codes : Error(code) \in Result
  BY DEF Response, Error, Result, Codes

(* set_metadata returns an operation.                                      *)
LEMMA SetMetadataType ==
  ASSUME NEW op \in Operation, NEW k \in Nat, NEW t \in Nat
  PROVE  SetMetadata(op, [created |-> k, total |-> t]) \in Operation
  BY DEF SetMetadata, Operation, Metadata

(* Every closure of update_operation returns an operation.                 *)
LEMMA AppliedType ==
  ASSUME NEW n \in OpNames, tasks \in [OpNames -> Task], NEW op \in Operation
  PROVE  Applied(n, op) \in Operation
<1>1. tasks[n] \in Task
  OBVIOUS
<1>2. /\ tasks[n].created \in Seq(Shippers)
      /\ tasks[n].requests \in Seq(Requests)
  BY <1>1 DEF Task
<1>3. Len(tasks[n].created) \in Nat /\ Total(n) \in Nat
  BY <1>2 DEF Total
<1>4. CANCELLED \in Codes /\ INVALID_ARGUMENT \in Codes
  BY DEF Codes
<1>5. SetMetadata(op, [created |-> Len(tasks[n].created), total |-> Total(n)]) \in Operation
  BY <1>3, SetMetadataType
<1>6. Succeed(op, tasks[n].created) \in Operation
  BY <1>2, ResolvedType, ResultTypes DEF Succeed
<1>7. Fail(op, INVALID_ARGUMENT) \in Operation /\ Cancel(op) \in Operation
  BY <1>4, ResolvedType, ResultTypes DEF Fail, Cancel
<1>8. QED
  BY <1>5, <1>6, <1>7 DEF Applied

------------------------------------------------------------------------------
(* notify_waiters only marks futures as fired.                             *)
LEMMA NotifyFacts ==
  ASSUME NEW calls \in [Clients -> Rpc]
  PROVE  /\ NotifyWaiters(calls) \in [Clients -> Rpc]
         /\ \A c \in Clients :
              /\ NotifyWaiters(calls)[c].pc = calls[c].pc
              /\ NotifyWaiters(calls)[c].name = calls[c].name
              /\ NotifyWaiters(calls)[c].requests = calls[c].requests
<1>1. ASSUME NEW c \in Clients
      PROVE  /\ NotifyWaiters(calls)[c] \in Rpc
             /\ NotifyWaiters(calls)[c].pc = calls[c].pc
             /\ NotifyWaiters(calls)[c].name = calls[c].name
             /\ NotifyWaiters(calls)[c].requests = calls[c].requests
  <2>1. calls[c] \in Rpc
    OBVIOUS
  <2>2. NotifyWaiters(calls)[c] = IF calls[c].pc \in {"wait_read", "wait_poll", "wait_await"}
                                  THEN [calls[c] EXCEPT !.notified = TRUE]
                                  ELSE calls[c]
    BY DEF NotifyWaiters
  <2>3. QED
    BY <2>1, <2>2 DEF Rpc
<1>2. NotifyWaiters(calls) = [c \in Clients |-> NotifyWaiters(calls)[c]]
  BY DEF NotifyWaiters
<1>3. QED
  BY <1>1, <1>2

(* A step that leaves the operation store alone leaves the history alone.  *)
LEMMA LastUnchanged ==
  ASSUME PromiseInv, Observe, operations' = operations
  PROVE  last' = last
<1>1. last \in [OpNames -> Operation \cup {None}]
  BY DEF PromiseInv
<1>2. last' = [n \in OpNames |-> IF operations[n] # None THEN operations[n] ELSE last[n]]
  BY DEF Observe
<1>3. \A n \in OpNames : operations[n] # None => operations[n] = last[n]
  BY DEF PromiseInv, VisibleIsNewest
<1>4. QED
  BY <1>1, <1>2, <1>3

(* A step of a call that neither creates nor spawns.                       *)
LEMMA CallFrame ==
  ASSUME PromiseInv, Observe,
         UNCHANGED <<operations, shippers, tasks>>,
         cancels' \subseteq OpNames,
         rpc' \in [Clients -> Rpc],
         \A c \in Clients : rpc'[c].pc # "idle" => rpc'[c].name \in OpNames,
         \A c \in Clients :
            (rpc[c].pc = "create_spawn" \/ rpc'[c].pc = "create_spawn") =>
               /\ rpc'[c].pc = rpc[c].pc
               /\ rpc'[c].name = rpc[c].name
               /\ rpc'[c].requests = rpc[c].requests
  PROVE  PromiseInv'
<1>1. last' = last
  BY LastUnchanged
<1>2. TypeOK'
  BY DEF PromiseInv, TypeOK
<1>3. VisibleIsNewest'
  BY <1>1 DEF PromiseInv, VisibleIsNewest
<1>4. \A c \in Clients, n \in OpNames : Creating(c, n)' <=> Creating(c, n)
  BY DEF Creating
<1>5. ASSUME NEW c \in Clients PROVE CallInv(c)'
  <2>1. CallInv(c)
    BY DEF PromiseInv
  <2>2. CASE rpc'[c].pc # "create_spawn"
    BY <2>2 DEF CallInv
  <2>3. CASE rpc'[c].pc = "create_spawn"
    BY <1>1, <1>4, <2>1, <2>3 DEF CallInv
  <2>4. QED
    BY <2>2, <2>3
<1>6. ASSUME NEW n \in OpNames PROVE UnbornInv(n)' /\ RunningInv(n)'
  <2>1. UnbornInv(n) /\ RunningInv(n)
    BY DEF PromiseInv
  <2>2. UnbornInv(n)'
    BY <1>1, <1>4, <2>1 DEF UnbornInv
  <2>3. RunningInv(n)'
    BY <1>1, <2>1 DEF RunningInv
  <2>4. QED
    BY <2>2, <2>3
<1>7. QED
  BY <1>1, <1>2, <1>3, <1>5, <1>6 DEF PromiseInv

(* A step of the task of n that does not write its record.                 *)
LEMMA TaskFrame ==
  ASSUME PromiseInv, Observe,
         NEW n \in OpNames,
         operations' = operations,
         cancels' \subseteq OpNames,
         shippers' \subseteq Shippers,
         tasks' \in [OpNames -> Task],
         \A m \in OpNames \ {n} : tasks'[m] = tasks[m],
         tasks[n].pc # "unborn",
         tasks'[n].pc # "unborn",
         rpc' \in [Clients -> Rpc],
         \A c \in Clients : /\ rpc'[c].pc = rpc[c].pc
                            /\ rpc'[c].name = rpc[c].name
                            /\ rpc'[c].requests = rpc[c].requests,
         last' = last => RunningInv(n)'
  PROVE  PromiseInv'
<1>1. last' = last
  BY LastUnchanged
<1>2. TypeOK'
  BY DEF PromiseInv, TypeOK
<1>3. VisibleIsNewest'
  BY <1>1 DEF PromiseInv, VisibleIsNewest
<1>4. \A c \in Clients, m \in OpNames : Creating(c, m)' <=> Creating(c, m)
  BY DEF Creating
<1>5. ASSUME NEW c \in Clients PROVE CallInv(c)'
  <2>1. CallInv(c)
    BY DEF PromiseInv
  <2>2. CASE rpc[c].pc # "create_spawn"
    BY <2>1, <2>2 DEF CallInv
  <2>3. CASE rpc[c].pc = "create_spawn"
    <3>1. rpc[c].name \in OpNames \ {n}
      BY <2>1, <2>3 DEF CallInv
    <3>2. QED
      BY <1>1, <1>4, <2>1, <2>3, <3>1 DEF CallInv
  <2>4. QED
    BY <2>2, <2>3
<1>6. ASSUME NEW m \in OpNames PROVE UnbornInv(m)' /\ RunningInv(m)'
  <2>1. UnbornInv(m) /\ RunningInv(m)
    BY DEF PromiseInv
  <2>2. UnbornInv(m)'
    BY <1>1, <1>4, <2>1 DEF UnbornInv
  <2>3. RunningInv(m)'
    <3>1. CASE m = n
      BY <1>1, <3>1
    <3>2. CASE m # n
      BY <1>1, <2>1, <3>2 DEF RunningInv
    <3>3. QED
      BY <3>1, <3>2
  <2>4. QED
    BY <2>2, <2>3
<1>7. QED
  BY <1>1, <1>2, <1>3, <1>5, <1>6 DEF PromiseInv

------------------------------------------------------------------------------
(* An empty server satisfies the invariant.                                *)
LEMMA InitEstablishes == HInit => PromiseInv
<1> SUFFICES ASSUME HInit PROVE PromiseInv
  OBVIOUS
<1> USE DEF HInit, Init
<1>1. UnbornTask \in Task
  BY DEF UnbornTask, Task, TaskPc, Apply
<1>2. Idle \in Rpc
  BY DEF Idle, Rpc, RpcPc
<1>3. TypeOK
  BY <1>1, <1>2 DEF TypeOK
<1>4. last \in [OpNames -> Operation \cup {None}] /\ VisibleIsNewest
  BY DEF VisibleIsNewest
<1>5. \A c \in Clients : CallInv(c)
  BY DEF CallInv, Idle
<1>6. \A n \in OpNames : UnbornInv(n) /\ RunningInv(n)
  BY DEF UnbornInv, RunningInv, UnbornTask
<1>7. QED
  BY <1>3, <1>4, <1>5, <1>6 DEF PromiseInv

(* What a call of update_operation leaves of the task.                     *)
LEMMA UpdateFacts ==
  ASSUME tasks \in [OpNames -> Task], NEW n \in OpNames, NEW apply \in Apply,
         NEW created \in Seq(Shippers), Update(n, apply, created)
  PROVE  /\ tasks' \in [OpNames -> Task]
         /\ \A m \in OpNames \ {n} : tasks'[m] = tasks[m]
         /\ tasks'[n].requests = tasks[n].requests
         /\ tasks'[n].created = created
         /\ tasks'[n].apply = apply
         /\ tasks'[n].pc = "load"
<1>1. tasks[n] \in Task
  OBVIOUS
<1>2. tasks' = [tasks EXCEPT ![n] = [tasks[n] EXCEPT !.pc = "load", !.apply = apply,
                                                   !.created = created]]
  BY DEF Update
<1>3. [tasks[n] EXCEPT !.pc = "load", !.apply = apply, !.created = created] \in Task
  BY <1>1 DEF Task, TaskPc
<1>4. QED
  BY <1>1, <1>2, <1>3 DEF Task

(* The steps of a task between its writes.                                 *)
LEMMA TaskCheckKeeps ==
  ASSUME PromiseInv, Observe, NEW n \in OpNames, TaskCheck(n)
  PROVE  PromiseInv'
<1>1. tasks[n] \in Task /\ tasks \in [OpNames -> Task] /\ TypeOK
  BY DEF PromiseInv, TypeOK
<1>2. RunningInv(n)
  BY DEF PromiseInv
<1>3. tasks[n].pc = "check" /\ UNCHANGED <<operations, cancels, shippers, rpc>>
  BY DEF TaskCheck
<1>4. tasks[n].created \in Seq(Shippers) /\ {"succeed", "cancel"} \subseteq Apply
  BY <1>1 DEF Task, Apply
<1>5. CASE Len(tasks[n].created) = Total(n)
  <2>1. Update(n, "succeed", tasks[n].created)
    BY <1>5 DEF TaskCheck
  <2>2. last' = last => RunningInv(n)'
    BY <1>1, <1>2, <1>3, <1>4, <1>5, <2>1, UpdateFacts DEF RunningInv, Total
  <2>3. QED
    BY <1>1, <1>3, <1>4, <2>1, <2>2, UpdateFacts, TaskFrame DEF TypeOK
<1>6. CASE Len(tasks[n].created) # Total(n) /\ n \in cancels
  <2>1. Update(n, "cancel", tasks[n].created)
    BY <1>6 DEF TaskCheck
  <2>2. last' = last => RunningInv(n)'
    BY <1>1, <1>2, <1>3, <1>4, <2>1, UpdateFacts DEF RunningInv
  <2>3. QED
    BY <1>1, <1>3, <1>4, <2>1, <2>2, UpdateFacts, TaskFrame DEF TypeOK
<1>7. CASE Len(tasks[n].created) # Total(n) /\ n \notin cancels
  <2>1. tasks' = [tasks EXCEPT ![n].pc = "work"]
    BY <1>7 DEF TaskCheck
  <2>2. /\ tasks' \in [OpNames -> Task]
        /\ \A m \in OpNames \ {n} : tasks'[m] = tasks[m]
        /\ tasks'[n].requests = tasks[n].requests
        /\ tasks'[n].created = tasks[n].created
        /\ tasks'[n].pc = "work"
    BY <1>1, <2>1 DEF Task, TaskPc
  <2>3. Len(tasks[n].created) \in Nat /\ Len(tasks[n].requests) \in Nat
    BY <1>1 DEF Task
  <2>4. last' = last => RunningInv(n)'
    BY <1>2, <1>3, <1>7, <2>2, <2>3 DEF RunningInv, Total
  <2>5. QED
    BY <1>1, <1>3, <2>2, <2>4, TaskFrame DEF TypeOK
<1>8. QED
  BY <1>5, <1>6, <1>7

(* One turn of the loop: build_shipper and put_shipper.                    *)
LEMMA TaskWorkKeeps ==
  ASSUME PromiseInv, Observe, NEW n \in OpNames, TaskWork(n)
  PROVE  PromiseInv'
<1> DEFINE i == Len(tasks[n].created) + 1
<1>1. tasks[n] \in Task /\ tasks \in [OpNames -> Task] /\ TypeOK
  BY DEF PromiseInv, TypeOK
<1>2. RunningInv(n)
  BY DEF PromiseInv
<1>3. tasks[n].pc = "work" /\ UNCHANGED <<operations, cancels, rpc>>
  BY DEF TaskWork
<1>4. /\ tasks[n].created \in Seq(Shippers)
      /\ tasks[n].requests \in Seq(Requests)
      /\ Len(tasks[n].created) \in Nat
      /\ Len(tasks[n].requests) \in Nat
  BY <1>1 DEF Task
<1>5. i \in DOMAIN tasks[n].requests /\ tasks[n].requests \in Batches
  BY <1>2, <1>3, <1>4 DEF RunningInv
<1>6. Mint(n, i) \in Shippers
  BY <1>5, MintAssumption
<1>7. Append(tasks[n].created, Mint(n, i)) \in Seq(Shippers)
      /\ Len(Append(tasks[n].created, Mint(n, i))) = i
  BY <1>4, <1>6
<1>8. {"progress", "fail"} \subseteq Apply
  BY DEF Apply
<1>9. CASE /\ shippers' = shippers \cup {Mint(n, i)}
           /\ Update(n, "progress", Append(tasks[n].created, Mint(n, i)))
  <2>1. shippers' \subseteq Shippers
    BY <1>1, <1>6, <1>9 DEF TypeOK
  <2>2. /\ tasks' \in [OpNames -> Task]
        /\ \A m \in OpNames \ {n} : tasks'[m] = tasks[m]
        /\ tasks'[n].requests = tasks[n].requests
        /\ Len(tasks'[n].created) = Len(tasks[n].created) + 1
        /\ tasks'[n].apply = "progress"
        /\ tasks'[n].pc = "load"
    BY <1>1, <1>7, <1>8, <1>9, UpdateFacts
  <2>3. last' = last => RunningInv(n)'
    BY <1>2, <1>3, <1>4, <2>2 DEF RunningInv
  <2>4. QED
    BY <1>1, <1>3, <2>1, <2>2, <2>3, TaskFrame DEF TypeOK
<1>10. CASE Update(n, "fail", tasks[n].created) /\ shippers' = shippers
  <2>1. last' = last => RunningInv(n)'
    BY <1>1, <1>2, <1>3, <1>4, <1>8, <1>10, UpdateFacts DEF RunningInv
  <2>2. QED
    BY <1>1, <1>3, <1>4, <1>8, <1>10, <2>1, UpdateFacts, TaskFrame DEF TypeOK
<1>11. QED
  BY <1>9, <1>10 DEF TaskWork

(* The get of update_operation.                                            *)
LEMMA UpdateLoadKeeps ==
  ASSUME PromiseInv, Observe, NEW n \in OpNames, UpdateLoad(n)
  PROVE  PromiseInv'
<1>1. tasks[n] \in Task /\ tasks \in [OpNames -> Task] /\ TypeOK
  BY DEF PromiseInv, TypeOK
<1>2. RunningInv(n) /\ VisibleIsNewest
  BY DEF PromiseInv
<1>3. tasks[n].pc = "load" /\ UNCHANGED <<operations, cancels, shippers, rpc>>
  BY DEF UpdateLoad
<1>4. CASE /\ operations[n] # None
           /\ tasks' = [tasks EXCEPT ![n].pc = "store", ![n].loaded = operations[n]]
  <2>1. operations[n] \in Operation /\ operations[n] = last[n]
    BY <1>1, <1>2, <1>4 DEF TypeOK, VisibleIsNewest
  <2>2. /\ tasks' \in [OpNames -> Task]
        /\ \A m \in OpNames \ {n} : tasks'[m] = tasks[m]
        /\ tasks'[n].requests = tasks[n].requests
        /\ tasks'[n].created = tasks[n].created
        /\ tasks'[n].apply = tasks[n].apply
        /\ tasks'[n].pc = "store"
        /\ tasks'[n].loaded = last[n]
    BY <1>1, <1>4, <2>1 DEF Task, TaskPc
  <2>3. last' = last => RunningInv(n)'
    BY <1>2, <1>3, <2>2 DEF RunningInv
  <2>4. QED
    BY <1>1, <1>3, <2>2, <2>3, TaskFrame DEF TypeOK
<1>5. CASE tasks' = [tasks EXCEPT ![n].pc = AfterUpdate(n, FALSE), ![n].apply = "none"]
  <2>1. AfterUpdate(n, FALSE) \in {"end", "clear"}
    BY DEF AfterUpdate
  <2>2. /\ tasks' \in [OpNames -> Task]
        /\ \A m \in OpNames \ {n} : tasks'[m] = tasks[m]
        /\ tasks'[n].requests = tasks[n].requests
        /\ tasks'[n].created = tasks[n].created
        /\ tasks'[n].pc \in {"end", "clear"}
    BY <1>1, <1>5, <2>1 DEF Task, TaskPc, Apply
  <2>3. last' = last => RunningInv(n)'
    BY <1>2, <1>3, <2>2 DEF RunningInv
  <2>4. QED
    BY <1>1, <1>3, <2>2, <2>3, TaskFrame DEF TypeOK
<1>6. QED
  BY <1>4, <1>5 DEF UpdateLoad

(* The wake-up at the end of update_operation.                             *)
LEMMA UpdateNotifyKeeps ==
  ASSUME PromiseInv, Observe, NEW n \in OpNames, UpdateNotify(n)
  PROVE  PromiseInv'
<1>1. tasks[n] \in Task /\ tasks \in [OpNames -> Task] /\ TypeOK
  BY DEF PromiseInv, TypeOK
<1>2. RunningInv(n)
  BY DEF PromiseInv
<1>3. /\ tasks[n].pc = "notify"
      /\ rpc' = NotifyWaiters(rpc)
      /\ tasks' = [tasks EXCEPT ![n].pc = AfterUpdate(n, TRUE), ![n].apply = "none"]
      /\ UNCHANGED <<operations, cancels, shippers>>
  BY DEF UpdateNotify
<1>4. \/ tasks[n].apply = "progress" /\ AfterUpdate(n, TRUE) = "check"
      \/ AfterUpdate(n, TRUE) \in {"end", "clear"}
  BY DEF AfterUpdate
<1>5. /\ tasks' \in [OpNames -> Task]
      /\ \A m \in OpNames \ {n} : tasks'[m] = tasks[m]
      /\ tasks'[n].requests = tasks[n].requests
      /\ tasks'[n].created = tasks[n].created
      /\ \/ tasks[n].apply = "progress" /\ tasks'[n].pc = "check"
         \/ tasks'[n].pc \in {"end", "clear"}
  BY <1>1, <1>3, <1>4 DEF Task, TaskPc, Apply
<1>6. last' = last => RunningInv(n)'
  BY <1>2, <1>3, <1>5 DEF RunningInv
<1>7. /\ rpc' \in [Clients -> Rpc]
      /\ \A c \in Clients : /\ rpc'[c].pc = rpc[c].pc
                            /\ rpc'[c].name = rpc[c].name
                            /\ rpc'[c].requests = rpc[c].requests
  BY <1>1, <1>3, NotifyFacts DEF TypeOK
<1>8. QED
  BY <1>1, <1>3, <1>5, <1>6, <1>7, TaskFrame DEF TypeOK

(* clear_cancel on the cancel path.                                        *)
LEMMA TaskClearKeeps ==
  ASSUME PromiseInv, Observe, NEW n \in OpNames, TaskClear(n)
  PROVE  PromiseInv'
<1>1. tasks[n] \in Task /\ tasks \in [OpNames -> Task] /\ TypeOK
  BY DEF PromiseInv, TypeOK
<1>2. RunningInv(n)
  BY DEF PromiseInv
<1>3. /\ tasks[n].pc = "clear"
      /\ tasks' = [tasks EXCEPT ![n].pc = "end"]
      /\ cancels' = cancels \ {n}
      /\ UNCHANGED <<operations, shippers, rpc>>
  BY DEF TaskClear
<1>4. /\ tasks' \in [OpNames -> Task]
      /\ \A m \in OpNames \ {n} : tasks'[m] = tasks[m]
      /\ tasks'[n].requests = tasks[n].requests
      /\ tasks'[n].created = tasks[n].created
      /\ tasks'[n].pc = "end"
  BY <1>1, <1>3 DEF Task, TaskPc
<1>5. last' = last => RunningInv(n)'
  BY <1>2, <1>3, <1>4 DEF RunningInv
<1>6. QED
  BY <1>1, <1>3, <1>4, <1>5, TaskFrame DEF TypeOK

------------------------------------------------------------------------------
(* The steps of a call that neither creates nor deletes.                   *)
LEMMA CallsKeep ==
  ASSUME PromiseInv, Observe, NEW c \in Clients,
         \/ \E n \in OpNames : CancelRequire(c, n) \/ WaitStart(c, n)
         \/ CancelFlag(c) \/ DeleteUnflag(c) \/ DeleteNotify(c)
         \/ WaitEnrol(c) \/ WaitRead(c) \/ WaitPoll(c)
         \/ WaitWake(c) \/ WaitTimeout(c)
         \/ DeadlinePasses(c)
  PROVE  PromiseInv'
<1>1. TypeOK /\ rpc \in [Clients -> Rpc] /\ rpc[c] \in Rpc /\ cancels \subseteq OpNames
  BY DEF PromiseInv, TypeOK
<1>2. \A d \in Clients : rpc[d].pc # "idle" => rpc[d].name \in OpNames
  BY DEF PromiseInv, CallInv
<1>3. Idle \in Rpc /\ Idle.pc = "idle"
  BY DEF Idle, Rpc, RpcPc
<1>4. ASSUME NEW r \in Rpc, rpc' = [rpc EXCEPT ![c] = r],
             UNCHANGED <<operations, shippers, tasks>>,
             cancels' \subseteq OpNames,
             r.pc # "idle" => r.name \in OpNames,
             r.pc # "create_spawn", rpc[c].pc # "create_spawn"
      PROVE  PromiseInv'
  <2>1. rpc' \in [Clients -> Rpc] /\ rpc'[c] = r
    BY <1>1, <1>4
  <2>2. \A d \in Clients : d # c => rpc'[d] = rpc[d]
    BY <1>1, <1>4
  <2>3. QED
    BY <1>2, <1>4, <2>1, <2>2, CallFrame
<1>5. ASSUME NEW n \in OpNames, CancelRequire(c, n) PROVE PromiseInv'
  <2> DEFINE r == [Idle EXCEPT !.pc = "cancel_flag", !.name = n]
  <2>1. r \in Rpc /\ r.name = n /\ r.pc = "cancel_flag"
    BY <1>3 DEF Rpc, RpcPc
  <2>2. rpc' = [rpc EXCEPT ![c] = r] /\ rpc[c].pc = "idle"
        /\ UNCHANGED <<operations, cancels, shippers, tasks>>
    BY <1>5 DEF CancelRequire
  <2> HIDE DEF r
  <2>3. QED
    BY <1>1, <1>4, <2>1, <2>2
<1>6. ASSUME NEW n \in OpNames, WaitStart(c, n) PROVE PromiseInv'
  <2> DEFINE r == [Idle EXCEPT !.pc = "wait_enrol", !.name = n]
  <2>1. r \in Rpc /\ r.name = n /\ r.pc = "wait_enrol"
    BY <1>3 DEF Rpc, RpcPc
  <2>2. rpc' = [rpc EXCEPT ![c] = r] /\ rpc[c].pc = "idle"
        /\ UNCHANGED <<operations, cancels, shippers, tasks>>
    BY <1>6 DEF WaitStart
  <2> HIDE DEF r
  <2>3. QED
    BY <1>1, <1>4, <2>1, <2>2
<1>7. CASE CancelFlag(c)
  BY <1>1, <1>2, <1>3, <1>4, <1>7 DEF CancelFlag
<1>8. CASE DeleteUnflag(c)
  <2>1. [rpc[c] EXCEPT !.pc = "delete_notify"] \in Rpc
    BY <1>1 DEF Rpc, RpcPc
  <2>2. [rpc[c] EXCEPT !.pc = "delete_notify"].name = rpc[c].name
    BY <1>1 DEF Rpc
  <2>3. [rpc[c] EXCEPT !.pc = "delete_notify"].pc = "delete_notify"
    BY <1>1 DEF Rpc
  <2>4. rpc' = [rpc EXCEPT ![c] = [rpc[c] EXCEPT !.pc = "delete_notify"]]
        \/ rpc' = [rpc EXCEPT ![c] = Idle]
    BY <1>8 DEF DeleteUnflag
  <2>5. /\ UNCHANGED <<operations, shippers, tasks>>
        /\ cancels' \subseteq OpNames
        /\ rpc[c].pc = "delete_unflag"
    BY <1>1, <1>8 DEF DeleteUnflag
  <2>6. CASE rpc' = [rpc EXCEPT ![c] = Idle]
    BY <1>3, <1>4, <2>5, <2>6
  <2>7. CASE rpc' = [rpc EXCEPT ![c] = [rpc[c] EXCEPT !.pc = "delete_notify"]]
    <3> DEFINE r == [rpc[c] EXCEPT !.pc = "delete_notify"]
    <3>1. r \in Rpc /\ r.name \in OpNames /\ r.pc = "delete_notify"
      BY <1>2, <2>1, <2>2, <2>3, <2>5
    <3>2. rpc' = [rpc EXCEPT ![c] = r]
      BY <2>7
    <3> HIDE DEF r
    <3>3. QED
      BY <1>4, <2>5, <3>1, <3>2
  <2>8. QED
    BY <2>4, <2>6, <2>7
<1>9. CASE DeleteNotify(c)
  <2> DEFINE calls == [rpc EXCEPT ![c] = Idle]
  <2>1. calls \in [Clients -> Rpc] /\ calls[c] = Idle
    BY <1>1, <1>3
  <2>2. \A d \in Clients : d # c => calls[d] = rpc[d]
    BY <1>1
  <2>3. rpc' = NotifyWaiters(calls) /\ rpc[c].pc = "delete_notify"
        /\ UNCHANGED <<operations, cancels, shippers, tasks>>
    BY <1>9 DEF DeleteNotify
  <2> HIDE DEF calls
  <2>4. QED
    BY <1>1, <1>2, <1>3, <2>1, <2>2, <2>3, NotifyFacts, CallFrame
<1>10. CASE WaitEnrol(c)
  <2> DEFINE r == [rpc[c] EXCEPT !.pc = "wait_read", !.notified = FALSE]
  <2>1. r \in Rpc /\ r.name = rpc[c].name /\ r.pc = "wait_read"
    BY <1>1 DEF Rpc, RpcPc
  <2>2. rpc' = [rpc EXCEPT ![c] = r] /\ rpc[c].pc = "wait_enrol"
        /\ UNCHANGED <<operations, cancels, shippers, tasks>>
    BY <1>10 DEF WaitEnrol
  <2> HIDE DEF r
  <2>3. QED
    BY <1>1, <1>2, <1>4, <2>1, <2>2
<1>11. CASE WaitRead(c)
  <2> DEFINE r == [rpc[c] EXCEPT !.pc = "wait_poll"]
  <2>1. r \in Rpc /\ r.name = rpc[c].name /\ r.pc = "wait_poll"
    BY <1>1 DEF Rpc, RpcPc
  <2>2. /\ rpc' = [rpc EXCEPT ![c] = r] \/ rpc' = [rpc EXCEPT ![c] = Idle]
        /\ rpc[c].pc = "wait_read"
        /\ UNCHANGED <<operations, cancels, shippers, tasks>>
    BY <1>11 DEF WaitRead
  <2> HIDE DEF r
  <2>3. QED
    BY <1>1, <1>2, <1>3, <1>4, <2>1, <2>2
<1>16. CASE WaitPoll(c)
  <2> DEFINE r == [rpc[c] EXCEPT !.pc = "wait_await"]
  <2>1. r \in Rpc /\ r.name = rpc[c].name /\ r.pc = "wait_await"
    BY <1>1 DEF Rpc, RpcPc
  <2>2. rpc' = [rpc EXCEPT ![c] = r] /\ rpc[c].pc = "wait_poll"
        /\ UNCHANGED <<operations, cancels, shippers, tasks>>
    BY <1>16 DEF WaitPoll
  <2> HIDE DEF r
  <2>3. QED
    BY <1>1, <1>2, <1>4, <2>1, <2>2
<1>12. CASE WaitWake(c)
  <2> DEFINE r == [rpc[c] EXCEPT !.pc = "wait_enrol"]
  <2>1. r \in Rpc /\ r.name = rpc[c].name /\ r.pc = "wait_enrol"
    BY <1>1 DEF Rpc, RpcPc
  <2>2. rpc' = [rpc EXCEPT ![c] = r] /\ rpc[c].pc = "wait_await"
        /\ UNCHANGED <<operations, cancels, shippers, tasks>>
    BY <1>12 DEF WaitWake
  <2> HIDE DEF r
  <2>3. QED
    BY <1>1, <1>2, <1>4, <2>1, <2>2
<1>13. CASE WaitTimeout(c)
  BY <1>1, <1>3, <1>4, <1>13 DEF WaitTimeout
<1>14. CASE DeadlinePasses(c)
  <2> DEFINE r == [rpc[c] EXCEPT !.expired = TRUE]
  <2>1. r \in Rpc /\ r.name = rpc[c].name /\ r.pc = rpc[c].pc
    BY <1>1 DEF Rpc, RpcPc
  <2>2. rpc' = [rpc EXCEPT ![c] = r]
        /\ rpc[c].pc \in Waiting
        /\ UNCHANGED <<operations, cancels, shippers, tasks>>
    BY <1>14 DEF DeadlinePasses
  <2> HIDE DEF r
  <2>3. QED
    BY <1>1, <1>2, <1>4, <2>1, <2>2 DEF Waiting
<1>15. QED
  BY <1>5, <1>6, <1>7, <1>8, <1>9, <1>10, <1>11, <1>12, <1>13, <1>14,
     <1>16

------------------------------------------------------------------------------
(* The four steps that write a record, delete it or start its task.        *)
LEMMA CreatePutKeeps ==
  ASSUME PromiseInv, Observe, NEW c \in Clients, NEW n \in OpNames,
         NEW batch \in Batches, CreatePut(c, n, batch)
  PROVE  /\ PromiseInv'
         /\ last[n] = None
         /\ last' = [last EXCEPT ![n] = operations'[n]]
         /\ operations' = [operations EXCEPT ![n] = operations'[n]]
         /\ operations'[n] = Pending(n, [created |-> 0, total |-> Len(batch)])
         /\ Len(batch) \in Nat \ {0}
<1> DEFINE op == Pending(n, [created |-> 0, total |-> Len(batch)])
           r  == [Idle EXCEPT !.pc = "create_spawn", !.name = n, !.requests = batch]
<1>1. TypeOK /\ last \in [OpNames -> Operation \cup {None}] /\ VisibleIsNewest
  BY DEF PromiseInv
<1>2. /\ rpc[c].pc = "idle"
      /\ tasks[n].pc = "unborn"
      /\ \A d \in Clients : ~Creating(d, n)
      /\ batch # <<>>
      /\ operations' = [operations EXCEPT ![n] = op]
      /\ rpc' = [rpc EXCEPT ![c] = r]
      /\ UNCHANGED <<cancels, shippers, tasks>>
  BY DEF CreatePut, Fresh, Creating
<1>3. batch \in Seq(Requests) /\ Len(batch) \in Nat /\ Len(batch) # 0
  BY <1>2, BatchesAssumption
<1>4. op \in Operation /\ op # None
  BY <1>3, PendingType, NoneAssumption
<1>5. r \in Rpc /\ r.pc = "create_spawn" /\ r.name = n /\ r.requests = batch
  BY <1>3 DEF Idle, Rpc, RpcPc
<1> HIDE DEF op, r
<1>6. last[n] = None
  BY <1>2 DEF PromiseInv, UnbornInv
<1>7. /\ operations' \in [OpNames -> Operation \cup {None}]
      /\ operations'[n] = op
      /\ \A m \in OpNames : m # n => operations'[m] = operations[m]
  BY <1>1, <1>2, <1>4 DEF TypeOK
<1>8. /\ last' = [last EXCEPT ![n] = op]
      /\ last'[n] = op
      /\ \A m \in OpNames : m # n => last'[m] = last[m]
      /\ last' \in [OpNames -> Operation \cup {None}]
  <2>1. last' = [m \in OpNames |->
                   IF operations'[m] # None THEN operations'[m] ELSE last[m]]
    BY DEF Observe
  <2>2. \A m \in OpNames : last'[m] = IF m = n THEN op ELSE last[m]
    BY <1>1, <1>4, <1>7, <2>1 DEF VisibleIsNewest
  <2>3. QED
    BY <1>1, <1>4, <2>1, <2>2
<1>9. /\ rpc' \in [Clients -> Rpc]
      /\ rpc'[c] = r
      /\ \A d \in Clients : d # c => rpc'[d] = rpc[d]
  BY <1>1, <1>2, <1>5 DEF TypeOK
<1>10. TypeOK'
  BY <1>1, <1>2, <1>7, <1>9 DEF TypeOK
<1>11. VisibleIsNewest'
  BY <1>1, <1>7, <1>8 DEF VisibleIsNewest
<1>12. \A d \in Clients, m \in OpNames :
         Creating(d, m)' <=> (Creating(d, m) \/ (d = c /\ m = n))
  BY <1>2, <1>5, <1>9 DEF Creating
<1>13. ASSUME NEW d \in Clients PROVE CallInv(d)'
  <2>1. CASE d = c
    BY <1>2, <1>3, <1>5, <1>8, <1>9, <1>12, <2>1 DEF CallInv, op
  <2>2. CASE d # c
    <3>1. CallInv(d) /\ rpc'[d] = rpc[d]
      BY <1>9, <2>2 DEF PromiseInv
    <3>2. CASE rpc[d].pc # "create_spawn"
      BY <3>1, <3>2 DEF CallInv
    <3>3. CASE rpc[d].pc = "create_spawn"
      <4>1. rpc[d].name \in OpNames /\ rpc[d].name # n
        BY <1>2, <3>1, <3>3 DEF CallInv, Creating
      <4>2. QED
        BY <1>2, <1>8, <1>12, <3>1, <3>3, <4>1 DEF CallInv
    <3>4. QED
      BY <3>2, <3>3
  <2>3. QED
    BY <2>1, <2>2
<1>14. ASSUME NEW m \in OpNames PROVE UnbornInv(m)' /\ RunningInv(m)'
  <2>1. UnbornInv(m) /\ RunningInv(m)
    BY DEF PromiseInv
  <2>2. UnbornInv(m)'
    BY <1>2, <1>8, <1>12, <2>1 DEF UnbornInv
  <2>3. RunningInv(m)'
    BY <1>2, <1>8, <2>1 DEF RunningInv
  <2>4. QED
    BY <2>2, <2>3
<1>15. PromiseInv'
  BY <1>8, <1>10, <1>11, <1>13, <1>14 DEF PromiseInv
<1>16. QED
  BY <1>2, <1>3, <1>6, <1>7, <1>8, <1>15 DEF op

(* tokio::spawn: the call hands the pending record to the task.            *)
LEMMA CreateSpawnKeeps ==
  ASSUME PromiseInv, Observe, NEW c \in Clients, CreateSpawn(c)
  PROVE  PromiseInv'
<1>0. rpc[c].pc = "create_spawn" /\ CallInv(c)
  BY DEF CreateSpawn, PromiseInv
<1> PICK n \in OpNames : n = rpc[c].name
  BY <1>0 DEF CallInv
<1> DEFINE t == [UnbornTask EXCEPT !.pc = "check", !.requests = rpc[c].requests]
           calls == [rpc EXCEPT ![c] = Idle]
<1>1. TypeOK /\ VisibleIsNewest /\ last' = last
  BY LastUnchanged DEF PromiseInv, CreateSpawn
<1>2. /\ rpc[c].pc = "create_spawn"
      /\ tasks' = [tasks EXCEPT ![n] = t]
      /\ rpc' = NotifyWaiters(calls)
      /\ UNCHANGED <<operations, cancels, shippers>>
  BY DEF CreateSpawn
<1>4. /\ rpc[c].requests \in Batches
      /\ rpc[c].requests # <<>>
      /\ last[n] = Pending(n, [created |-> 0, total |-> Len(rpc[c].requests)])
      /\ \A d \in Clients : Creating(d, n) => d = c
  BY <1>0 DEF CallInv
<1>5. rpc[c].requests \in Seq(Requests) /\ Len(rpc[c].requests) \in Nat
  BY <1>4, BatchesAssumption
<1>6. /\ t \in Task /\ t.pc = "check" /\ t.requests = rpc[c].requests
      /\ Len(t.created) = 0
  <2>1. UnbornTask \in Task /\ UnbornTask.created = <<>>
    BY DEF UnbornTask, Task, TaskPc, Apply
  <2>2. t \in Task /\ t.pc = "check" /\ t.requests = rpc[c].requests
        /\ t.created = UnbornTask.created
    BY <1>5, <2>1 DEF Task, TaskPc
  <2>3. QED
    BY <2>1, <2>2
<1>7. Idle \in Rpc /\ Idle.pc = "idle"
  BY DEF Idle, Rpc, RpcPc
<1>8. /\ calls \in [Clients -> Rpc] /\ calls[c] = Idle
      /\ \A d \in Clients : d # c => calls[d] = rpc[d]
  BY <1>1, <1>7 DEF TypeOK
<1>9. /\ last[n] # None /\ last[n].name = n /\ Valid(last[n])
      /\ ~last[n].done
      /\ last[n].metadata.created = 0
      /\ last[n].metadata.total = Len(rpc[c].requests)
  <2>1. last[n] \in Operation
    BY <1>4, <1>5, PendingType
  <2>2. n # NoName
    BY <1>4, NoNameAssumption
  <2>3. last[n] # None
    BY <2>1, NoneAssumption
  <2>4. /\ last[n].name = n /\ last[n].done = FALSE
        /\ last[n].metadata = [created |-> 0, total |-> Len(rpc[c].requests)]
        /\ last[n].result.kind = "none"
    BY <1>4 DEF Pending, NoResult
  <2>5. QED
    BY <2>2, <2>3, <2>4 DEF Valid
<1> HIDE DEF t, calls
<1>10. /\ tasks' \in [OpNames -> Task] /\ tasks'[n] = t
       /\ \A m \in OpNames : m # n => tasks'[m] = tasks[m]
  BY <1>1, <1>2, <1>6 DEF TypeOK
<1>11. /\ rpc' \in [Clients -> Rpc]
       /\ rpc'[c].pc = "idle"
       /\ \A d \in Clients : d # c => /\ rpc'[d].pc = rpc[d].pc
                                      /\ rpc'[d].name = rpc[d].name
                                      /\ rpc'[d].requests = rpc[d].requests
  BY <1>2, <1>7, <1>8, NotifyFacts
<1>12. TypeOK'
  BY <1>1, <1>2, <1>10, <1>11 DEF TypeOK
<1>13. VisibleIsNewest'
  BY <1>1, <1>2 DEF VisibleIsNewest
<1>14. /\ \A d \in Clients, m \in OpNames :
            Creating(d, m)' <=> (Creating(d, m) /\ d # c)
       /\ \A d \in Clients : d # c => ~Creating(d, n)
       /\ \A m \in OpNames : Creating(c, m) => m = n
  BY <1>4, <1>11 DEF Creating
<1>15. ASSUME NEW d \in Clients PROVE CallInv(d)'
  <2>1. CASE rpc'[d].pc # "create_spawn"
    BY <1>11, <2>1 DEF CallInv, PromiseInv
  <2>2. CASE rpc'[d].pc = "create_spawn"
    <3>1. d # c /\ CallInv(d)
      BY <1>11, <2>2 DEF PromiseInv
    <3>2. rpc[d].pc = "create_spawn" /\ rpc[d].name \in OpNames
      BY <1>11, <2>2, <3>1 DEF CallInv
    <3>3. rpc[d].name # n
      BY <1>14, <3>1, <3>2 DEF Creating
    <3>4. QED
      BY <1>1, <1>10, <1>11, <1>14, <3>1, <3>2, <3>3 DEF CallInv
  <2>3. QED
    BY <2>1, <2>2
<1>16. ASSUME NEW m \in OpNames PROVE UnbornInv(m)' /\ RunningInv(m)'
  <2>1. UnbornInv(m) /\ RunningInv(m)
    BY DEF PromiseInv
  <2>2. UnbornInv(m)'
    BY <1>1, <1>6, <1>10, <1>14, <2>1 DEF UnbornInv
  <2>3. ASSUME m # n PROVE RunningInv(m)'
    BY <1>1, <1>10, <2>1, <2>3 DEF RunningInv
  <2>4. RunningInv(n)'
    <3>1. /\ tasks'[n].requests = rpc[c].requests
          /\ tasks'[n].pc = "check"
          /\ Len(tasks'[n].created) = 0
      BY <1>6, <1>10
    <3>2. QED
      BY <1>1, <1>4, <1>5, <1>9, <3>1 DEF RunningInv
  <2>5. QED
    BY <2>2, <2>3, <2>4
<1>17. last' \in [OpNames -> Operation \cup {None}]
  BY <1>1 DEF PromiseInv
<1>18. QED
  BY <1>12, <1>13, <1>15, <1>16, <1>17 DEF PromiseInv

(* What each closure makes of a pending record.                            *)
LEMMA AppliedFacts ==
  ASSUME NEW n \in OpNames, tasks \in [OpNames -> Task],
         NEW op \in Operation, ~op.done, Valid(op)
  PROVE  /\ Applied(n, op).name = op.name
         /\ Valid(Applied(n, op))
         /\ tasks[n].apply = "progress" =>
              /\ Applied(n, op) = [op EXCEPT !.metadata =
                   [created |-> Len(tasks[n].created), total |-> Total(n)]]
              /\ ~Applied(n, op).done
         /\ tasks[n].apply # "progress" =>
              /\ Applied(n, op) = [op EXCEPT !.done = TRUE, !.result = Applied(n, op).result]
              /\ Applied(n, op).done
              /\ Applied(n, op).metadata = op.metadata
              /\ \/ /\ tasks[n].apply = "succeed"
                    /\ Applied(n, op).result = Response(tasks[n].created)
                 \/ \E code \in Codes : Applied(n, op).result = Error(code)
<1>1. ASSUME NEW r \in Result, r.kind # "none"
      PROVE  /\ Resolved(op, r).name = op.name
             /\ Resolved(op, r).done
             /\ Resolved(op, r).metadata = op.metadata
             /\ Resolved(op, r).result = r
             /\ Resolved(op, r) = [op EXCEPT !.done = TRUE, !.result = Resolved(op, r).result]
             /\ Valid(Resolved(op, r))
  BY <1>1 DEF Resolved, EnsurePending, Operation, Valid
<1>2. /\ tasks[n].created \in Seq(Shippers)
      /\ {CANCELLED, INVALID_ARGUMENT} \subseteq Codes
      /\ \A resp \in Seq(Shippers) : Response(resp).kind # "none"
      /\ \A code \in Codes : Error(code).kind # "none"
  <2>1. tasks[n] \in Task
    OBVIOUS
  <2>2. QED
    BY <2>1 DEF Task, Codes, Response, Error
<1>3. CASE tasks[n].apply = "progress"
  <2>1. Applied(n, op) = SetMetadata(op, [created |-> Len(tasks[n].created),
                                          total |-> Total(n)])
    BY <1>3 DEF Applied
  <2> DEFINE md == [created |-> Len(tasks[n].created), total |-> Total(n)]
  <2>2. Applied(n, op) = [op EXCEPT !.metadata = md]
    BY <2>1 DEF SetMetadata, EnsurePending
  <2> HIDE DEF md
  <2>3. /\ Applied(n, op).name = op.name
        /\ Applied(n, op).done = op.done
        /\ Applied(n, op).result = op.result
    BY <2>2 DEF Operation
  <2>4. Valid(Applied(n, op)) /\ ~Applied(n, op).done
    BY <2>3 DEF Valid
  <2>5. QED
    BY <1>3, <2>2, <2>3, <2>4 DEF md
<1>4. CASE tasks[n].apply = "succeed"
  <2>1. Applied(n, op) = Resolved(op, Response(tasks[n].created))
    BY <1>4 DEF Applied, Succeed
  <2>2. Response(tasks[n].created) \in Result
    BY <1>2, ResultTypes
  <2>3. QED
    BY <1>1, <1>2, <1>4, <2>1, <2>2
<1>5. CASE tasks[n].apply \notin {"progress", "succeed"}
  <2>1. PICK code \in Codes : Applied(n, op) = Resolved(op, Error(code))
    BY <1>2, <1>5 DEF Applied, Fail, Cancel
  <2>2. Error(code) \in Result /\ Error(code).kind # "none"
    BY <1>2, ResultTypes
  <2>3. /\ Applied(n, op).name = op.name
        /\ Applied(n, op).done
        /\ Applied(n, op).metadata = op.metadata
        /\ Applied(n, op).result = Error(code)
        /\ Applied(n, op) = [op EXCEPT !.done = TRUE, !.result = Applied(n, op).result]
        /\ Valid(Applied(n, op))
    BY <1>1, <2>1, <2>2
  <2>4. \E e \in Codes : Applied(n, op).result = Error(e)
    BY <2>3
  <2>5. QED
    BY <1>5, <2>3, <2>4
<1>6. QED
  BY <1>3, <1>4, <1>5

(* The put of update_operation: the only write after the creation.         *)
LEMMA UpdateStoreKeeps ==
  ASSUME PromiseInv, Observe, NEW n \in OpNames, UpdateStore(n)
  PROVE  /\ PromiseInv'
         /\ last[n] \in Operation /\ ~last[n].done
         /\ Valid(last[n])
         /\ operations' = [operations EXCEPT ![n] = operations'[n]]
         /\ last' = [last EXCEPT ![n] = operations'[n]]
         /\ operations'[n] = Applied(n, last[n])
         /\ operations'[n] \in Operation
<1> DEFINE op == Applied(n, last[n])
<1>1. /\ TypeOK /\ tasks \in [OpNames -> Task] /\ tasks[n] \in Task
      /\ last \in [OpNames -> Operation \cup {None}] /\ VisibleIsNewest
  BY DEF PromiseInv, TypeOK
<1>2. tasks[n].pc = "store" /\ RunningInv(n)
  BY DEF PromiseInv, UpdateStore
<1>3. /\ last[n] \in Operation /\ ~last[n].done /\ Valid(last[n])
      /\ tasks[n].loaded = last[n]
      /\ last[n].metadata.total = Len(tasks[n].requests)
      /\ Len(tasks[n].created) \in Nat
  BY <1>1, <1>2 DEF RunningInv, Task
<1>4. op \in Operation /\ op # None
  BY <1>1, <1>3, AppliedType, NoneAssumption
<1>5. /\ op.name = last[n].name
      /\ Valid(op)
      /\ op.metadata.total = Len(tasks[n].requests)
      /\ tasks[n].apply = "progress" =>
           ~op.done /\ op.metadata.created = Len(tasks[n].created)
  <2>1. op.name = last[n].name /\ Valid(op)
    BY <1>1, <1>3, AppliedFacts
  <2>2. CASE tasks[n].apply = "progress"
    <3>1. op = [last[n] EXCEPT !.metadata =
                 [created |-> Len(tasks[n].created), total |-> Total(n)]] /\ ~op.done
      BY <1>1, <1>3, <2>2, AppliedFacts
    <3>2. op.metadata = [created |-> Len(tasks[n].created), total |-> Len(tasks[n].requests)]
      BY <1>3, <3>1 DEF Operation, Total
    <3>3. QED
      BY <2>1, <3>1, <3>2
  <2>3. CASE tasks[n].apply # "progress"
    BY <1>1, <1>3, <2>1, <2>3, AppliedFacts
  <2>4. QED
    BY <2>2, <2>3
<1>6. /\ operations' = [operations EXCEPT ![n] = op]
      /\ tasks' = [tasks EXCEPT ![n].pc = "notify", ![n].loaded = None]
      /\ UNCHANGED <<cancels, shippers, rpc>>
  BY <1>3 DEF UpdateStore
<1> HIDE DEF op
<1>7. /\ operations' \in [OpNames -> Operation \cup {None}]
      /\ operations'[n] = op
      /\ \A m \in OpNames : m # n => operations'[m] = operations[m]
  BY <1>1, <1>4, <1>6 DEF TypeOK
<1>8. /\ last' = [last EXCEPT ![n] = op]
      /\ last'[n] = op
      /\ \A m \in OpNames : m # n => last'[m] = last[m]
      /\ last' \in [OpNames -> Operation \cup {None}]
  <2>1. last' = [m \in OpNames |->
                   IF operations'[m] # None THEN operations'[m] ELSE last[m]]
    BY DEF Observe
  <2>2. \A m \in OpNames : last'[m] = IF m = n THEN op ELSE last[m]
    BY <1>1, <1>4, <1>7, <2>1 DEF VisibleIsNewest
  <2>3. QED
    BY <1>1, <1>4, <2>1, <2>2
<1>9. /\ tasks' \in [OpNames -> Task]
      /\ \A m \in OpNames : m # n => tasks'[m] = tasks[m]
      /\ tasks'[n].pc = "notify"
      /\ tasks'[n].apply = tasks[n].apply
      /\ tasks'[n].created = tasks[n].created
      /\ tasks'[n].requests = tasks[n].requests
  BY <1>1, <1>6 DEF Task, TaskPc
<1>10. TypeOK'
  BY <1>1, <1>6, <1>7, <1>9 DEF TypeOK
<1>11. VisibleIsNewest'
  BY <1>1, <1>7, <1>8 DEF VisibleIsNewest
<1>12. \A d \in Clients, m \in OpNames : Creating(d, m)' <=> Creating(d, m)
  BY <1>6 DEF Creating
<1>13. ASSUME NEW d \in Clients PROVE CallInv(d)'
  <2>1. CallInv(d)
    BY DEF PromiseInv
  <2>2. CASE rpc[d].pc # "create_spawn"
    BY <1>6, <2>1, <2>2 DEF CallInv
  <2>3. CASE rpc[d].pc = "create_spawn"
    <3>1. rpc[d].name \in OpNames /\ rpc[d].name # n
      BY <1>2, <2>1, <2>3 DEF CallInv
    <3>2. QED
      BY <1>6, <1>8, <1>9, <1>12, <2>1, <2>3, <3>1 DEF CallInv
  <2>4. QED
    BY <2>2, <2>3
<1>14. ASSUME NEW m \in OpNames PROVE UnbornInv(m)' /\ RunningInv(m)'
  <2>1. UnbornInv(m) /\ RunningInv(m)
    BY DEF PromiseInv
  <2>2. UnbornInv(m)'
    BY <1>8, <1>9, <1>12, <2>1 DEF UnbornInv
  <2>3. ASSUME m # n PROVE RunningInv(m)'
    BY <1>8, <1>9, <2>1, <2>3 DEF RunningInv
  <2>4. RunningInv(n)'
    BY <1>2, <1>4, <1>5, <1>8, <1>9 DEF RunningInv
  <2>5. QED
    BY <2>2, <2>3, <2>4
<1>15. PromiseInv'
  BY <1>8, <1>10, <1>11, <1>13, <1>14 DEF PromiseInv
<1>16. QED
  BY <1>3, <1>4, <1>6, <1>7, <1>8, <1>15 DEF op

(* OperationStore::remove hides a record and changes no version.           *)
LEMMA DeleteRemoveKeeps ==
  ASSUME PromiseInv, Observe, NEW c \in Clients, NEW n \in OpNames, DeleteRemove(c, n)
  PROVE  PromiseInv' /\ last' = last /\ operations' = [operations EXCEPT ![n] = None]
<1> DEFINE r == [Idle EXCEPT !.pc = "delete_unflag", !.name = n, !.removed = ~Absent(n)]
<1>1. /\ TypeOK /\ last \in [OpNames -> Operation \cup {None}] /\ VisibleIsNewest
  BY DEF PromiseInv, TypeOK
<1>2. /\ rpc[c].pc = "idle"
      /\ operations' = [operations EXCEPT ![n] = None]
      /\ rpc' = [rpc EXCEPT ![c] = r]
      /\ UNCHANGED <<cancels, shippers, tasks>>
  BY DEF DeleteRemove
<1>3. r \in Rpc /\ r.pc = "delete_unflag" /\ r.name = n
  <2>1. Idle \in Rpc
    BY DEF Idle, Rpc, RpcPc
  <2>2. (~Absent(n)) \in BOOLEAN
    BY DEF Absent
  <2>3. QED
    BY <2>1, <2>2 DEF Rpc, RpcPc
<1> HIDE DEF r
<1>4. /\ operations' \in [OpNames -> Operation \cup {None}]
      /\ operations'[n] = None
      /\ \A m \in OpNames : m # n => operations'[m] = operations[m]
  BY <1>1, <1>2 DEF TypeOK
<1>5. last' = last
  <2>1. last' = [m \in OpNames |->
                   IF operations'[m] # None THEN operations'[m] ELSE last[m]]
    BY DEF Observe
  <2>2. \A m \in OpNames : last'[m] = last[m]
    BY <1>1, <1>4, <2>1 DEF VisibleIsNewest
  <2>3. QED
    BY <1>1, <2>1, <2>2
<1>6. /\ rpc' \in [Clients -> Rpc]
      /\ rpc'[c] = r
      /\ \A d \in Clients : d # c => rpc'[d] = rpc[d]
  BY <1>1, <1>2, <1>3 DEF TypeOK
<1>7. TypeOK'
  BY <1>1, <1>2, <1>4, <1>6 DEF TypeOK
<1>8. VisibleIsNewest'
  BY <1>1, <1>4, <1>5 DEF VisibleIsNewest
<1>9. \A d \in Clients, m \in OpNames : Creating(d, m)' <=> Creating(d, m)
  BY <1>2, <1>3, <1>6 DEF Creating
<1>10. ASSUME NEW d \in Clients PROVE CallInv(d)'
  <2>1. CallInv(d)
    BY DEF PromiseInv
  <2>2. CASE d = c
    BY <1>3, <1>6, <2>2 DEF CallInv
  <2>3. CASE d # c
    BY <1>2, <1>5, <1>6, <1>9, <2>1, <2>3 DEF CallInv
  <2>4. QED
    BY <2>2, <2>3
<1>11. ASSUME NEW m \in OpNames PROVE UnbornInv(m)' /\ RunningInv(m)'
  BY <1>2, <1>5, <1>9 DEF PromiseInv, UnbornInv, RunningInv
<1>12. QED
  BY <1>2, <1>5, <1>7, <1>8, <1>10, <1>11 DEF PromiseInv

------------------------------------------------------------------------------
(* Every step of the server preserves the inductive invariant.             *)
LEMMA StepKeeps ==
  ASSUME PromiseInv, [HNext]_hvars
  PROVE  PromiseInv'
<1>1. CASE HNext
  <2>1. Next /\ Observe
    BY <1>1 DEF HNext
  <2>2. ASSUME NEW c \in Clients, Request(c) PROVE PromiseInv'
    <3>1. ASSUME NEW n \in OpNames, NEW b \in Batches, CreatePut(c, n, b)
          PROVE  PromiseInv'
      BY <2>1, <3>1, CreatePutKeeps
    <3>2. ASSUME NEW n \in OpNames, DeleteRemove(c, n) PROVE PromiseInv'
      BY <2>1, <3>2, DeleteRemoveKeeps
    <3>3. ASSUME NEW n \in OpNames, CancelRequire(c, n) \/ WaitStart(c, n)
          PROVE  PromiseInv'
      BY <2>1, <3>3, CallsKeep
    <3>4. QED
      BY <2>2, <3>1, <3>2, <3>3 DEF Request
  <2>3. ASSUME NEW c \in Clients, HandlerStep(c) \/ DeadlinePasses(c) PROVE PromiseInv'
    <3>1. CASE CreateSpawn(c)
      BY <2>1, <3>1, CreateSpawnKeeps
    <3>2. QED
      BY <2>1, <2>3, <3>1, CallsKeep DEF HandlerStep
  <2>4. ASSUME NEW n \in OpNames, TaskStep(n) PROVE PromiseInv'
    BY <2>1, <2>4, TaskCheckKeeps, TaskWorkKeeps, UpdateLoadKeeps,
       UpdateStoreKeeps, UpdateNotifyKeeps, TaskClearKeeps DEF TaskStep
  <2>5. QED
    BY <2>1, <2>2, <2>3, <2>4 DEF Next
<1>2. CASE UNCHANGED hvars
  BY <1>2 DEF hvars, vars, PromiseInv, TypeOK, VisibleIsNewest, CallInv, Creating,
              UnbornInv, RunningInv
<1>3. QED
  BY <1>1, <1>2

(* The inductive invariant holds of every reachable state of the batch      *)
(* task, the store and the Operations handlers: the record a task holds     *)
(* between the get and the put of update_operation is the newest one.       *)
THEOREM PromiseInvariant == HSpec => []PromiseInv
<1>1. HInit => PromiseInv
  BY InitEstablishes
<1>2. PromiseInv /\ [HNext]_hvars => PromiseInv'
  BY StepKeeps
<1>3. QED
  BY <1>1, <1>2, PTL DEF HSpec

(* Every variable keeps its type.                                           *)
THEOREM TypeCorrect == HSpec => []TypeOK
<1>1. PromiseInv => TypeOK
  BY DEF PromiseInv
<1>2. QED
  BY <1>1, PromiseInvariant, PTL

------------------------------------------------------------------------------
(* OperationVersions speaks of the same records.                            *)
LEMMA SameRecords ==
  /\ \A n, m : Versions!Pending(n, m) = Pending(n, m)
  /\ \A resp : Versions!Response(resp) = Response(resp)
  /\ \A code : Versions!Error(code) = Error(code)
  /\ Versions!Codes = Codes
  BY DEF Versions!Pending, Pending, Versions!NoResult, NoResult, Versions!Response,
         Response, Versions!Error, Error, Versions!Codes, Codes, Versions!CANCELLED,
         CANCELLED, Versions!INVALID_ARGUMENT, INVALID_ARGUMENT

(* Refinement: one step of the server publishes the next version of one     *)
(* record or leaves the newest versions as they are.                        *)
LEMMA StepRefines ==
  ASSUME PromiseInv, [HNext]_hvars
  PROVE  [Versions!Next]_last
<1>1. ASSUME HNext, operations' = operations PROVE UNCHANGED last
  BY <1>1, LastUnchanged DEF HNext
<1>2. ASSUME NEW c \in Clients, NEW n \in OpNames, NEW b \in Batches,
             CreatePut(c, n, b), Observe
      PROVE  Versions!Publish(n)
  <2>1. /\ last[n] = None
        /\ last' = [last EXCEPT ![n] = operations'[n]]
        /\ operations' = [operations EXCEPT ![n] = operations'[n]]
        /\ operations'[n] = Pending(n, [created |-> 0, total |-> Len(b)])
        /\ Len(b) \in Nat \ {0}
    BY <1>2, CreatePutKeeps
  <2>2. last \in [OpNames -> Operation \cup {None}]
    BY DEF PromiseInv
  <2>3. last'[n] = operations'[n]
    BY <2>1, <2>2
  <2>4. last'[n] \in Operation /\ last'[n] # None
    BY <2>1, <2>3, PendingType, NoneAssumption
  <2>5. last'[n].metadata.total = Len(b)
    BY <2>1, <2>3 DEF Pending
  <2>6. Versions!Opening(n, last'[n])
    BY <2>1, <2>3, <2>5, SameRecords DEF Versions!Opening
  <2>7. QED
    BY <2>1, <2>3, <2>4, <2>6 DEF Versions!Publish
<1>3. ASSUME NEW n \in OpNames, UpdateStore(n), Observe
      PROVE  Versions!Publish(n)
  <2> DEFINE old == last[n]
             new == Applied(n, last[n])
  <2>1. /\ old \in Operation /\ ~old.done /\ Valid(old)
        /\ operations' = [operations EXCEPT ![n] = operations'[n]]
        /\ last' = [last EXCEPT ![n] = operations'[n]]
        /\ operations'[n] = new
        /\ new \in Operation
    BY <1>3, UpdateStoreKeeps
  <2>2. last \in [OpNames -> Operation \cup {None}] /\ tasks \in [OpNames -> Task]
    BY DEF PromiseInv, TypeOK
  <2>3. last'[n] = new /\ new # None /\ old # None
    BY <2>1, <2>2, NoneAssumption
  <2>4. /\ old.metadata.total = Len(tasks[n].requests)
        /\ tasks[n].apply = "progress" =>
             old.metadata.created = Len(tasks[n].created) - 1
        /\ tasks[n].apply = "succeed" =>
             /\ old.metadata.created = Len(tasks[n].created)
             /\ Len(tasks[n].created) = Len(tasks[n].requests)
        /\ Len(tasks[n].created) <= Len(tasks[n].requests)
    BY <1>3 DEF PromiseInv, RunningInv, UpdateStore
  <2>5. /\ tasks[n].created \in Seq(Shippers)
        /\ Len(tasks[n].created) \in Nat
        /\ Len(tasks[n].requests) \in Nat
    BY <2>2 DEF Task
  <2>6. CASE tasks[n].apply = "progress"
    <3>1. new = [old EXCEPT !.metadata =
                  [created |-> Len(tasks[n].created), total |-> Len(tasks[n].requests)]]
      BY <2>1, <2>2, <2>6, AppliedFacts DEF Total
    <3>2. old.metadata \in Metadata
      BY <2>1 DEF Operation
    <3>3. [created |-> Len(tasks[n].created), total |-> Len(tasks[n].requests)]
            = [old.metadata EXCEPT !.created = old.metadata.created + 1]
      BY <2>4, <2>5, <2>6, <3>2 DEF Metadata
    <3>4. Versions!Advance(old, new)
      BY <2>4, <2>5, <2>6, <3>1, <3>3 DEF Versions!Advance
    <3> HIDE DEF old, new
    <3>5. QED
      BY <2>1, <2>3, <3>4 DEF Versions!Publish, old
  <2>7. CASE tasks[n].apply # "progress"
    <3>1. /\ new = [old EXCEPT !.done = TRUE, !.result = new.result]
          /\ \/ /\ tasks[n].apply = "succeed"
                /\ new.result = Response(tasks[n].created)
             \/ \E code \in Codes : new.result = Error(code)
      BY <2>1, <2>2, <2>7, AppliedFacts
    <3>2. Response(tasks[n].created).shippers = tasks[n].created
      BY DEF Response
    <3> HIDE DEF old, new
    <3>3. Versions!Resolve(old, new)
      BY <2>4, <2>5, <3>1, <3>2, SameRecords DEF Versions!Resolve
    <3>4. QED
      BY <2>1, <2>3, <3>3 DEF Versions!Publish, old
  <2>8. QED
    BY <2>6, <2>7
<1>4. ASSUME NEW c \in Clients, NEW n \in OpNames, DeleteRemove(c, n), Observe
      PROVE  UNCHANGED last
  BY <1>4, DeleteRemoveKeeps
<1>5. CASE HNext
  <2>1. Next /\ Observe
    BY <1>5 DEF HNext
  <2>2. \/ \E c \in Clients, n \in OpNames, b \in Batches : CreatePut(c, n, b)
        \/ \E c \in Clients, n \in OpNames : DeleteRemove(c, n)
        \/ \E n \in OpNames : UpdateStore(n)
        \/ operations' = operations
    <3>1. ASSUME NEW c \in Clients, Request(c)
          PROVE  \/ \E n \in OpNames, b \in Batches : CreatePut(c, n, b)
                 \/ \E n \in OpNames : DeleteRemove(c, n)
                 \/ operations' = operations
      BY <3>1 DEF Request, CancelRequire, WaitStart
    <3>2. ASSUME NEW c \in Clients, HandlerStep(c) \/ DeadlinePasses(c)
          PROVE  operations' = operations
      BY <3>2 DEF HandlerStep, CreateSpawn, CancelFlag, DeleteUnflag, DeleteNotify,
                  WaitEnrol, WaitRead, WaitPoll, WaitWake, WaitTimeout, DeadlinePasses
    <3>3. ASSUME NEW n \in OpNames, TaskStep(n)
          PROVE  UpdateStore(n) \/ operations' = operations
      BY <3>3 DEF TaskStep, TaskCheck, TaskWork, UpdateLoad, UpdateNotify, TaskClear
    <3>4. QED
      BY <2>1, <3>1, <3>2, <3>3 DEF Next
  <2>3. QED
    BY <1>1, <1>2, <1>3, <1>4, <1>5, <2>1, <2>2 DEF Versions!Next
<1>6. CASE UNCHANGED hvars
  BY <1>6 DEF hvars, vars
<1>7. QED
  BY <1>5, <1>6

(* The store, the batch task and the Operations handlers implement the      *)
(* forward walk of aip-lro's operations: the versions of a record that are  *)
(* ever visible go forward only, to at most one final result, whatever is   *)
(* deleted, cancelled or waited for meanwhile.                              *)
THEOREM Refinement == HSpec => ImplementsVersions
<1>1. HInit => Versions!Init
  BY DEF HInit, Init, Versions!Init
<1>2. PromiseInv /\ [HNext]_hvars => [Versions!Next]_last
  BY StepRefines
<1>3. QED
  BY <1>1, <1>2, PromiseInvariant, PTL DEF HSpec, ImplementsVersions, Versions!Spec

------------------------------------------------------------------------------
(* A step of one call that neither writes a record nor calls                *)
(* notify_waiters: it may go to sleep only on a pending record, and a       *)
(* delete that removed a record keeps the wake-up it owes.                  *)
LEMMA WakeupFrame ==
  ASSUME NoLostWakeup, NEW c \in Clients, operations' = operations, tasks' = tasks,
         \A d \in Clients : d # c => rpc'[d] = rpc[d],
         (rpc'[c].pc \in {"wait_poll", "wait_await"} /\ ~rpc'[c].notified) =>
            /\ rpc'[c].name = rpc[c].name
            /\ \/ Sleeping(c)
               \/ ~Absent(rpc[c].name) /\ ~IsDone(rpc[c].name),
         (rpc[c].pc = "delete_unflag" /\ rpc[c].removed) =>
            rpc'[c].name = rpc[c].name /\ rpc'[c].pc = "delete_notify",
         rpc[c].pc # "delete_notify"
  PROVE  NoLostWakeup'
<1>1. ASSUME NEW n, WakeupOwed(n) PROVE WakeupOwed(n)'
  BY <1>1 DEF WakeupOwed
<1>2. ASSUME NEW d \in Clients, Sleeping(d)', Absent(rpc[d].name)' \/ IsDone(rpc[d].name)'
      PROVE  WakeupOwed(rpc[d].name)'
  <2>1. CASE d # c
    <3>1. /\ rpc'[d] = rpc[d] /\ Sleeping(d)
          /\ Absent(rpc[d].name) \/ IsDone(rpc[d].name)
      BY <1>2, <2>1 DEF Sleeping, Absent, IsDone
    <3>2. WakeupOwed(rpc[d].name)
      BY <3>1 DEF NoLostWakeup
    <3>3. PICK n : n = rpc[d].name
      OBVIOUS
    <3>4. WakeupOwed(n)'
      BY <1>1, <3>2, <3>3
    <3>5. rpc'[d].name = n
      BY <3>1, <3>3
    <3>6. QED
      BY <3>4, <3>5 DEF WakeupOwed
  <2>2. CASE d = c
    <3>1. /\ rpc'[d].name = rpc[d].name
          /\ Absent(rpc[d].name) \/ IsDone(rpc[d].name)
          /\ Sleeping(d)
      BY <1>2, <2>2 DEF Sleeping, Absent, IsDone
    <3>2. WakeupOwed(rpc[d].name)
      BY <3>1 DEF NoLostWakeup
    <3>3. PICK n : n = rpc[d].name
      OBVIOUS
    <3>4. WakeupOwed(n)'
      BY <1>1, <3>2, <3>3
    <3>5. rpc'[d].name = n
      BY <3>1, <3>3
    <3>6. QED
      BY <3>4, <3>5 DEF WakeupOwed
  <2>3. QED
    BY <2>1, <2>2
<1>3. QED
  BY <1>2 DEF NoLostWakeup

(* notify_waiters leaves nobody asleep.                                     *)
LEMMA NotifyWakesAll ==
  ASSUME NEW calls \in [Clients -> Rpc], rpc' = NotifyWaiters(calls)
  PROVE  NoLostWakeup'
<1>1. ASSUME NEW c \in Clients PROVE ~Sleeping(c)'
  <2>1. calls[c] \in Rpc
    OBVIOUS
  <2>2. rpc'[c] = IF calls[c].pc \in {"wait_read", "wait_poll", "wait_await"}
                  THEN [calls[c] EXCEPT !.notified = TRUE]
                  ELSE calls[c]
    BY DEF NotifyWaiters
  <2>3. rpc'[c].pc \in {"wait_poll", "wait_await"} => rpc'[c].notified = TRUE
    BY <2>1, <2>2 DEF Rpc
  <2>4. QED
    BY <2>3 DEF Sleeping
<1>2. QED
  BY <1>1 DEF NoLostWakeup

(* A step of a task that writes no record and wakes nobody.                 *)
LEMMA TaskSleeps ==
  ASSUME PromiseInv, NoLostWakeup, NEW n \in OpNames,
         TaskCheck(n) \/ TaskWork(n) \/ UpdateLoad(n) \/ TaskClear(n)
  PROVE  NoLostWakeup'
<1>1. tasks \in [OpNames -> Task] /\ operations' = operations /\ rpc' = rpc
  BY DEF PromiseInv, TypeOK, TaskCheck, TaskWork, UpdateLoad, TaskClear
<1>2. tasks[n].pc # "notify"
  BY DEF TaskCheck, TaskWork, UpdateLoad, TaskClear
<1>3. \A m \in OpNames : m # n => tasks'[m] = tasks[m]
  BY <1>1 DEF TaskCheck, TaskWork, UpdateLoad, TaskClear, Update
<1>4. \A c \in Clients : Sleeping(c) => rpc[c].name \in OpNames
  BY DEF PromiseInv, CallInv, Sleeping
<1>5. ASSUME NEW m \in OpNames, WakeupOwed(m) PROVE WakeupOwed(m)'
  BY <1>1, <1>2, <1>3, <1>5 DEF WakeupOwed
<1>6. ASSUME NEW c \in Clients, Sleeping(c)', (Absent(rpc[c].name) \/ IsDone(rpc[c].name))'
      PROVE  WakeupOwed(rpc[c].name)'
  <2>1. Sleeping(c) /\ (Absent(rpc[c].name) \/ IsDone(rpc[c].name))
    BY <1>1, <1>6 DEF Sleeping, Absent, IsDone
  <2>2. PICK m \in OpNames : m = rpc[c].name
    BY <1>4, <2>1
  <2>3. WakeupOwed(m)'
    BY <1>5, <2>1, <2>2 DEF NoLostWakeup
  <2>4. QED
    BY <1>1, <2>2, <2>3 DEF WakeupOwed
<1>7. QED
  BY <1>6 DEF NoLostWakeup

(* The writers of a record: the creation stores a pending one, the task and *)
(* the delete owe the wake-up from the moment they write.                   *)
LEMMA WritersOwe ==
  ASSUME PromiseInv, NoLostWakeup,
         \/ \E n \in OpNames : UpdateStore(n)
         \/ \E c \in Clients, n \in OpNames : DeleteRemove(c, n)
         \/ \E c \in Clients, n \in OpNames, b \in Batches : CreatePut(c, n, b)
  PROVE  NoLostWakeup'
<1>1. /\ tasks \in [OpNames -> Task]
      /\ operations \in [OpNames -> Operation \cup {None}]
      /\ rpc \in [Clients -> Rpc]
      /\ \A c \in Clients : rpc[c] \in Rpc
  BY DEF PromiseInv, TypeOK
<1>2. \A c \in Clients : Sleeping(c) => rpc[c].name \in OpNames
  BY DEF PromiseInv, CallInv, Sleeping
<1>3. Idle \in Rpc
  BY DEF Idle, Rpc, RpcPc
<1>4. ASSUME NEW n \in OpNames,
             \A m \in OpNames : m # n => operations'[m] = operations[m],
             \A m \in OpNames : WakeupOwed(m) => WakeupOwed(m)',
             \A c \in Clients : Sleeping(c)' => Sleeping(c) /\ rpc'[c].name = rpc[c].name,
             \/ WakeupOwed(n)'
             \/ operations'[n] # None /\ ~operations'[n].done
             \/ operations'[n] = operations[n]
      PROVE  NoLostWakeup'
  <2>1. ASSUME NEW c \in Clients, Sleeping(c)', (Absent(rpc[c].name) \/ IsDone(rpc[c].name))'
        PROVE  WakeupOwed(rpc[c].name)'
    <3>1. Sleeping(c) /\ rpc'[c].name = rpc[c].name
      BY <1>4, <2>1
    <3>2. PICK m \in OpNames : m = rpc[c].name
      BY <1>2, <3>1
    <3>3. CASE operations'[m] = operations[m]
      <4>1. Absent(rpc[c].name) \/ IsDone(rpc[c].name)
        BY <2>1, <3>1, <3>2, <3>3 DEF Absent, IsDone
      <4>2. WakeupOwed(m)'
        BY <1>4, <3>1, <3>2, <4>1 DEF NoLostWakeup
      <4>3. QED
        BY <3>1, <3>2, <4>2 DEF WakeupOwed
    <3>4. CASE operations'[m] # operations[m]
      <4>1. WakeupOwed(m)'
        BY <1>4, <2>1, <3>1, <3>2, <3>4 DEF Absent, IsDone
      <4>2. QED
        BY <3>1, <3>2, <4>1 DEF WakeupOwed
    <3>5. QED
      BY <3>3, <3>4
  <2>2. QED
    BY <2>1 DEF NoLostWakeup
<1>5. ASSUME NEW n \in OpNames, UpdateStore(n) PROVE NoLostWakeup'
  <2>1. /\ rpc' = rpc
        /\ tasks'[n].pc = "notify"
        /\ \A m \in OpNames : m # n => operations'[m] = operations[m] /\ tasks'[m] = tasks[m]
    BY <1>1, <1>5 DEF UpdateStore, Task
  <2>2. \A m \in OpNames : WakeupOwed(m) => WakeupOwed(m)'
    BY <2>1 DEF WakeupOwed
  <2>3. WakeupOwed(n)'
    BY <2>1 DEF WakeupOwed
  <2>4. QED
    BY <1>4, <2>1, <2>2, <2>3 DEF Sleeping
<1>6. ASSUME NEW c \in Clients, NEW n \in OpNames, DeleteRemove(c, n) PROVE NoLostWakeup'
  <2>1. /\ tasks' = tasks
        /\ rpc[c].pc = "idle"
        /\ \A d \in Clients : d # c => rpc'[d] = rpc[d]
        /\ \A m \in OpNames : m # n => operations'[m] = operations[m]
        /\ operations'[n] = None
    BY <1>1, <1>6 DEF DeleteRemove
  <2>2. /\ rpc'[c].pc = "delete_unflag"
        /\ rpc'[c].name = n
        /\ rpc'[c].removed = ~Absent(n)
    BY <1>1, <1>3, <1>6 DEF DeleteRemove, Rpc
  <2>3. \A m \in OpNames : WakeupOwed(m) => WakeupOwed(m)'
    BY <2>1 DEF WakeupOwed
  <2>4. \A d \in Clients : Sleeping(d)' => Sleeping(d) /\ rpc'[d].name = rpc[d].name
    BY <2>1, <2>2 DEF Sleeping
  <2>5. WakeupOwed(n)' \/ operations'[n] = operations[n]
    BY <2>1, <2>2 DEF WakeupOwed, Absent
  <2>6. QED
    BY <1>4, <2>1, <2>3, <2>4, <2>5
<1>7. ASSUME NEW c \in Clients, NEW n \in OpNames, NEW b \in Batches, CreatePut(c, n, b)
      PROVE  NoLostWakeup'
  <2>1. /\ tasks' = tasks
        /\ rpc[c].pc = "idle"
        /\ \A d \in Clients : d # c => rpc'[d] = rpc[d]
        /\ \A m \in OpNames : m # n => operations'[m] = operations[m]
        /\ operations'[n] = Pending(n, [created |-> 0, total |-> Len(b)])
    BY <1>1, <1>7 DEF CreatePut
  <2>7. Len(b) \in Nat
    BY BatchesAssumption
  <2>2. rpc'[c].pc = "create_spawn"
    BY <1>1, <1>3, <1>7 DEF CreatePut, Rpc
  <2>3. operations'[n] # None /\ ~operations'[n].done
    BY <2>1, <2>7, PendingType, NoneAssumption DEF Pending
  <2>4. \A m \in OpNames : WakeupOwed(m) => WakeupOwed(m)'
    BY <2>1 DEF WakeupOwed
  <2>5. \A d \in Clients : Sleeping(d)' => Sleeping(d) /\ rpc'[d].name = rpc[d].name
    BY <2>1, <2>2 DEF Sleeping
  <2>6. QED
    BY <1>4, <2>1, <2>3, <2>4, <2>5
<1>8. QED
  BY <1>5, <1>6, <1>7

(* The steps of a call that write no record and wake nobody.                *)
LEMMA CallsSleep ==
  ASSUME PromiseInv, NoLostWakeup, NEW c \in Clients,
         \/ \E n \in OpNames : CancelRequire(c, n) \/ WaitStart(c, n)
         \/ CancelFlag(c) \/ DeleteUnflag(c)
         \/ WaitEnrol(c) \/ WaitRead(c) \/ WaitPoll(c)
         \/ WaitWake(c) \/ WaitTimeout(c) \/ DeadlinePasses(c)
  PROVE  NoLostWakeup'
<1>1. rpc \in [Clients -> Rpc] /\ rpc[c] \in Rpc
  BY DEF PromiseInv, TypeOK
<1>2. Idle \in Rpc /\ Idle.pc = "idle"
  BY DEF Idle, Rpc, RpcPc
<1>3. operations' = operations /\ tasks' = tasks
  BY DEF CancelRequire, WaitStart, CancelFlag, DeleteUnflag, WaitEnrol, WaitRead,
         WaitPoll, WaitWake, WaitTimeout, DeadlinePasses
<1>4. \A d \in Clients : d # c => rpc'[d] = rpc[d]
  BY <1>1 DEF CancelRequire, WaitStart, CancelFlag, DeleteUnflag, WaitEnrol, WaitRead,
         WaitPoll, WaitWake, WaitTimeout, DeadlinePasses
<1>5. ASSUME NEW n \in OpNames, CancelRequire(c, n) \/ WaitStart(c, n)
      PROVE  rpc'[c].pc \in {"cancel_flag", "wait_enrol"} /\ rpc[c].pc = "idle"
  BY <1>1, <1>2, <1>5 DEF CancelRequire, WaitStart, Rpc
<1>6. CASE \E n \in OpNames : CancelRequire(c, n) \/ WaitStart(c, n)
  BY <1>3, <1>4, <1>5, <1>6, WakeupFrame
<1>7. CASE CancelFlag(c) \/ WaitTimeout(c)
  <2>1. rpc'[c].pc = "idle" /\ rpc[c].pc \in {"cancel_flag", "wait_await"}
    BY <1>1, <1>2, <1>7 DEF CancelFlag, WaitTimeout
  <2>2. QED
    BY <1>3, <1>4, <2>1, WakeupFrame
<1>8. CASE DeleteUnflag(c)
  <2>1. /\ rpc[c].pc = "delete_unflag"
        /\ rpc[c].removed => rpc'[c].pc = "delete_notify" /\ rpc'[c].name = rpc[c].name
        /\ ~rpc[c].removed => rpc'[c].pc = "idle"
    BY <1>1, <1>2, <1>8 DEF DeleteUnflag, Rpc
  <2>2. QED
    BY <1>3, <1>4, <2>1, WakeupFrame
<1>9. CASE WaitEnrol(c) \/ WaitWake(c)
  <2>1. /\ rpc'[c].pc \in {"wait_read", "wait_enrol"}
        /\ rpc[c].pc \in {"wait_enrol", "wait_await"}
    BY <1>1, <1>9 DEF WaitEnrol, WaitWake, Rpc
  <2>2. QED
    BY <1>3, <1>4, <2>1, WakeupFrame
<1>10. CASE WaitRead(c)
  <2>1. /\ rpc[c].pc = "wait_read"
        /\ \/ rpc'[c].pc = "idle"
           \/ rpc'[c].name = rpc[c].name /\ ~Absent(rpc[c].name) /\ ~IsDone(rpc[c].name)
    BY <1>1, <1>2, <1>10 DEF WaitRead, Rpc
  <2>2. QED
    BY <1>3, <1>4, <2>1, WakeupFrame
<1>11. CASE WaitPoll(c) \/ DeadlinePasses(c)
  <2>1. /\ rpc[c].pc \in Waiting
        /\ rpc'[c].name = rpc[c].name
        /\ rpc'[c].notified = rpc[c].notified
        /\ rpc'[c].pc = rpc[c].pc \/ (rpc[c].pc = "wait_poll" /\ rpc'[c].pc = "wait_await")
    BY <1>1, <1>11 DEF WaitPoll, DeadlinePasses, Waiting, Rpc
  <2>2. QED
    BY <1>3, <1>4, <2>1, WakeupFrame DEF Sleeping, Waiting
<1>12. QED
  BY <1>6, <1>7, <1>8, <1>9, <1>10, <1>11

(* WaitOperation loses no wake-up: `enable` enrols it before the read, and  *)
(* every write of a record is followed by notify_waiters.                   *)
THEOREM WakeupsKept == HSpec => []NoLostWakeup
<1>1. HInit => NoLostWakeup
  BY DEF HInit, Init, NoLostWakeup, Sleeping, Idle
<1>2. ASSUME PromiseInv, NoLostWakeup, [HNext]_hvars PROVE NoLostWakeup'
  <2>1. CASE UNCHANGED hvars
    BY <1>2, <2>1 DEF hvars, vars, NoLostWakeup, Sleeping, WakeupOwed, Absent, IsDone
  <2>2. CASE Next
    <3>1. rpc \in [Clients -> Rpc] /\ Idle \in Rpc
      BY <1>2 DEF PromiseInv, TypeOK, Idle, Rpc, RpcPc
    <3>2. ASSUME NEW c \in Clients, Request(c) PROVE NoLostWakeup'
      BY <1>2, <3>2, WritersOwe, CallsSleep DEF Request
    <3>3. ASSUME NEW c \in Clients, CreateSpawn(c) \/ DeleteNotify(c) PROVE NoLostWakeup'
      <4> DEFINE calls == [rpc EXCEPT ![c] = Idle]
      <4>1. calls \in [Clients -> Rpc]
        BY <3>1
      <4>2. rpc' = NotifyWaiters(calls)
        BY <3>3 DEF CreateSpawn, DeleteNotify
      <4> HIDE DEF calls
      <4>3. QED
        BY <4>1, <4>2, NotifyWakesAll
    <3>4. ASSUME NEW c \in Clients, HandlerStep(c) \/ DeadlinePasses(c) PROVE NoLostWakeup'
      BY <1>2, <3>3, <3>4, CallsSleep DEF HandlerStep
    <3>5. ASSUME NEW n \in OpNames, UpdateNotify(n) PROVE NoLostWakeup'
      BY <3>1, <3>5, NotifyWakesAll DEF UpdateNotify
    <3>6. ASSUME NEW n \in OpNames, TaskStep(n) PROVE NoLostWakeup'
      BY <1>2, <3>5, <3>6, TaskSleeps, WritersOwe DEF TaskStep
    <3>7. QED
      BY <2>2, <3>2, <3>4, <3>6 DEF Next
  <2>3. QED
    BY <1>2, <2>1, <2>2 DEF HNext
<1>3. QED
  BY <1>1, <1>2, PromiseInvariant, PTL DEF HSpec

-----------------------------------------------------------------------------
(***************************************************************************)
(* What the records of BatchHistory say about the work behind them: WorkInv *)
(* is inductive on top of PromiseInv, for any number of clients, operations *)
(* and requests.                                                            *)
(***************************************************************************)

(* What both invariants say of one operation, with its types.               *)
LEMMA WorkTypes ==
  ASSUME PromiseInv, NEW n \in OpNames
  PROVE  /\ tasks \in [OpNames -> Task] /\ tasks[n] \in Task
         /\ tasks[n].created \in Seq(Shippers)
         /\ tasks[n].requests \in Seq(Requests)
         /\ Len(tasks[n].created) \in Nat
         /\ Len(tasks[n].requests) \in Nat
         /\ last[n] \in Operation \cup {None}
         /\ last[n] # None => last[n].metadata.created \in Nat
         /\ RunningInv(n) /\ UnbornInv(n)
<1>1. tasks \in [OpNames -> Task] /\ last \in [OpNames -> Operation \cup {None}]
  BY DEF PromiseInv, TypeOK
<1>2. tasks[n] \in Task /\ last[n] \in Operation \cup {None}
  BY <1>1
<1>3. tasks[n].created \in Seq(Shippers) /\ tasks[n].requests \in Seq(Requests)
  BY <1>2 DEF Task
<1>4. last[n] # None => last[n].metadata.created \in Nat
  BY <1>2 DEF Operation, Metadata
<1>5. QED
  BY <1>1, <1>2, <1>3, <1>4 DEF PromiseInv

(* The flag of an operation is raised at the count its task has then.       *)
LEMMA FlagFacts ==
  ASSUME Observe, NEW n \in OpNames
  PROVE  /\ n \in cancels' \ cancels => flaggedAt'[n] = Len(tasks[n].created)
         /\ n \notin cancels' \ cancels => flaggedAt'[n] = flaggedAt[n]
<1>1. flaggedAt' = [m \in OpNames |->
        IF m \in cancels' \ cancels THEN Len(tasks[m].created) ELSE flaggedAt[m]]
  BY DEF Observe
<1>2. QED
  BY <1>1

(* A step that makes no shipper for n and stores no version of its record:  *)
(* the task may move on, to work only when it saw no flag, and may begin to *)
(* cancel only when it saw one.                                             *)
LEMMA QuietStep ==
  ASSUME PromiseInv, Observe, NEW n \in OpNames, Tallied(n), Prompt(n),
         tasks'[n].created = tasks[n].created,
         tasks'[n].requests = tasks[n].requests,
         shippers' = shippers,
         last'[n] = last[n],
         tasks'[n].pc = "unborn" => tasks[n].pc = "unborn",
         (last[n] # None /\ last[n].done) => tasks'[n].pc \in {"notify", "clear", "end"},
         tasks'[n].apply = "cancel" => tasks[n].apply = "cancel" \/ n \in cancels,
         tasks'[n].pc = "work" => tasks[n].pc = "work" \/ n \notin cancels',
         tasks'[n].pc \in {"load", "store"} => tasks'[n].apply # "none"
  PROVE  Tallied(n)' /\ Prompt(n)'
<1>1. Len(tasks[n].created) \in Nat
  BY WorkTypes
<1>2. StoredBy(n)' = StoredBy(n) /\ CountedBy(n)' = CountedBy(n)
  BY DEF StoredBy, CountedBy
<1>3. Tallied(n)'
  BY <1>2 DEF Tallied
<1>4. CASE n \in cancels' \ cancels
  <2>1. flaggedAt'[n] = Len(tasks[n].created)
    BY <1>4, FlagFacts
  <2>2. QED
    BY <1>1, <1>3, <2>1 DEF Prompt
<1>5. CASE n \notin cancels' \ cancels
  <2>1. flaggedAt'[n] = flaggedAt[n]
    BY <1>5, FlagFacts
  <2>2. Cancelling(n)' => Cancelling(n)
    BY <1>5 DEF Cancelling
  <2>3. (n \in cancels' /\ tasks'[n].pc = "work") => (n \in cancels /\ tasks[n].pc = "work")
    BY <1>5
  <2>4. QED
    BY <1>3, <2>1, <2>2, <2>3 DEF Prompt
<1>6. QED
  BY <1>4, <1>5

(* A step that leaves the tasks and the store of shippers alone and stores  *)
(* no new version.                                                          *)
LEMMA IdleStep ==
  ASSUME PromiseInv, WorkInv, Observe, last' = last, UNCHANGED <<tasks, shippers>>
  PROVE  WorkInv'
<1>1. ASSUME NEW n \in OpNames PROVE Tallied(n)' /\ Prompt(n)'
  <2>1. Tallied(n) /\ Prompt(n)
    BY DEF WorkInv
  <2>2. (last[n] # None /\ last[n].done) => tasks[n].pc \in {"notify", "clear", "end"}
    BY <2>1 DEF Tallied
  <2>3. tasks[n].pc \in {"load", "store"} => tasks[n].apply # "none"
    BY <2>1 DEF Prompt
  <2>4. QED
    BY <2>1, <2>2, <2>3, QuietStep
<1>2. QED
  BY <1>1 DEF WorkInv

(* A step of the task of n that makes no shipper and stores no version.     *)
LEMMA QuietTask ==
  ASSUME PromiseInv, WorkInv, Observe, NEW n \in OpNames,
         operations' = operations, shippers' = shippers, cancels' \subseteq cancels,
         tasks[n].pc # "unborn",
         \A m \in OpNames \ {n} : tasks'[m] = tasks[m],
         tasks'[n].created = tasks[n].created,
         tasks'[n].requests = tasks[n].requests,
         tasks'[n].pc # "unborn",
         (last[n] # None /\ last[n].done) => tasks'[n].pc \in {"notify", "clear", "end"},
         tasks'[n].apply = "cancel" => tasks[n].apply = "cancel" \/ n \in cancels,
         tasks'[n].pc = "work" => n \notin cancels,
         tasks'[n].pc \in {"load", "store"} => tasks'[n].apply # "none"
  PROVE  WorkInv'
<1>1. last' = last
  BY LastUnchanged
<1>2. ASSUME NEW m \in OpNames PROVE Tallied(m)' /\ Prompt(m)'
  <2>1. Tallied(m) /\ Prompt(m)
    BY DEF WorkInv
  <2>2. CASE m = n
    BY <1>1, <2>1, <2>2, QuietStep
  <2>3. CASE m # n
    <3>1. tasks'[m] = tasks[m]
      BY <2>3
    <3>2. (last[m] # None /\ last[m].done) => tasks[m].pc \in {"notify", "clear", "end"}
      BY <2>1 DEF Tallied
    <3>3. tasks[m].pc \in {"load", "store"} => tasks[m].apply # "none"
      BY <2>1 DEF Prompt
    <3>4. QED
      BY <1>1, <2>1, <3>1, <3>2, <3>3, QuietStep
  <2>4. QED
    BY <2>2, <2>3
<1>3. QED
  BY <1>2 DEF WorkInv

(* The top of the loop: a raised flag is noticed here and nowhere else.     *)
LEMMA CheckWorks ==
  ASSUME PromiseInv, WorkInv, Observe, NEW n \in OpNames, TaskCheck(n)
  PROVE  WorkInv'
<1>1. /\ tasks \in [OpNames -> Task] /\ tasks[n] \in Task
      /\ tasks[n].created \in Seq(Shippers) /\ RunningInv(n)
  BY WorkTypes
<1>2. tasks[n].pc = "check" /\ UNCHANGED <<operations, cancels, shippers, rpc>>
  BY DEF TaskCheck
<1>3. ~last[n].done
  BY <1>1, <1>2 DEF RunningInv
<1>4. {"succeed", "cancel"} \subseteq Apply
  BY DEF Apply
<1>5. CASE Update(n, "succeed", tasks[n].created)
  BY <1>1, <1>2, <1>3, <1>4, <1>5, UpdateFacts, QuietTask
<1>6. CASE n \in cancels /\ Update(n, "cancel", tasks[n].created)
  BY <1>1, <1>2, <1>3, <1>4, <1>6, UpdateFacts, QuietTask
<1>7. CASE n \notin cancels /\ tasks' = [tasks EXCEPT ![n].pc = "work"]
  <2>1. /\ \A m \in OpNames \ {n} : tasks'[m] = tasks[m]
        /\ tasks'[n] = [tasks[n] EXCEPT !.pc = "work"]
    BY <1>1, <1>7
  <2>2. /\ tasks'[n].created = tasks[n].created
        /\ tasks'[n].requests = tasks[n].requests
        /\ tasks'[n].apply = tasks[n].apply
        /\ tasks'[n].pc = "work"
    BY <1>1, <2>1 DEF Task
  <2>3. QED
    BY <1>2, <1>3, <1>7, <2>1, <2>2, QuietTask
<1>8. QED
  BY <1>5, <1>6, <1>7 DEF TaskCheck

(* The get of update_operation.                                             *)
LEMMA LoadWorks ==
  ASSUME PromiseInv, WorkInv, Observe, NEW n \in OpNames, UpdateLoad(n)
  PROVE  WorkInv'
<1>1. tasks \in [OpNames -> Task] /\ tasks[n] \in Task /\ RunningInv(n) /\ Prompt(n)
  BY WorkTypes DEF WorkInv
<1>2. tasks[n].pc = "load" /\ UNCHANGED <<operations, cancels, shippers, rpc>>
  BY DEF UpdateLoad
<1>3. ~last[n].done
  BY <1>1, <1>2 DEF RunningInv
<1>4. CASE tasks' = [tasks EXCEPT ![n].pc = "store", ![n].loaded = operations[n]]
  <2>1. /\ \A m \in OpNames \ {n} : tasks'[m] = tasks[m]
        /\ tasks'[n] = [tasks[n] EXCEPT !.pc = "store", !.loaded = operations[n]]
    BY <1>1, <1>4
  <2>2. /\ tasks'[n].created = tasks[n].created
        /\ tasks'[n].requests = tasks[n].requests
        /\ tasks'[n].apply = tasks[n].apply
        /\ tasks'[n].apply # "none"
        /\ tasks'[n].pc = "store"
    BY <1>1, <1>2, <2>1 DEF Task, Prompt
  <2>3. QED
    BY <1>2, <1>3, <2>1, <2>2, QuietTask
<1>5. CASE tasks' = [tasks EXCEPT ![n].pc = AfterUpdate(n, FALSE), ![n].apply = "none"]
  <2>1. AfterUpdate(n, FALSE) \in {"end", "clear"}
    BY DEF AfterUpdate
  <2>2. /\ \A m \in OpNames \ {n} : tasks'[m] = tasks[m]
        /\ tasks'[n] = [tasks[n] EXCEPT !.pc = AfterUpdate(n, FALSE), !.apply = "none"]
    BY <1>1, <1>5
  <2>3. /\ tasks'[n].created = tasks[n].created
        /\ tasks'[n].requests = tasks[n].requests
        /\ tasks'[n].apply = "none"
        /\ tasks'[n].pc \in {"end", "clear"}
    BY <1>1, <2>1, <2>2 DEF Task
  <2>4. QED
    BY <1>2, <1>3, <2>2, <2>3, QuietTask
<1>6. QED
  BY <1>4, <1>5 DEF UpdateLoad

(* The wake-up at its end: a task whose record is done leaves the loop.     *)
LEMMA NotifyWorks ==
  ASSUME PromiseInv, WorkInv, Observe, NEW n \in OpNames, UpdateNotify(n)
  PROVE  WorkInv'
<1>1. tasks \in [OpNames -> Task] /\ tasks[n] \in Task /\ RunningInv(n)
  BY WorkTypes
<1>2. /\ tasks[n].pc = "notify"
      /\ tasks' = [tasks EXCEPT ![n].pc = AfterUpdate(n, TRUE), ![n].apply = "none"]
      /\ UNCHANGED <<operations, cancels, shippers>>
  BY DEF UpdateNotify
<1>3. /\ tasks[n].apply = "progress" => ~last[n].done /\ AfterUpdate(n, TRUE) = "check"
      /\ tasks[n].apply # "progress" => AfterUpdate(n, TRUE) \in {"end", "clear"}
  BY <1>1, <1>2 DEF RunningInv, AfterUpdate
<1>4. /\ \A m \in OpNames \ {n} : tasks'[m] = tasks[m]
      /\ tasks'[n] = [tasks[n] EXCEPT !.pc = AfterUpdate(n, TRUE), !.apply = "none"]
  BY <1>1, <1>2
<1>5. /\ tasks'[n].created = tasks[n].created
      /\ tasks'[n].requests = tasks[n].requests
      /\ tasks'[n].apply = "none"
      /\ tasks'[n].pc \in {"check", "end", "clear"}
      /\ last[n].done => tasks'[n].pc # "check"
  BY <1>1, <1>3, <1>4 DEF Task
<1>6. QED
  BY <1>2, <1>4, <1>5, QuietTask

(* clear_cancel on the cancel path.                                         *)
LEMMA ClearWorks ==
  ASSUME PromiseInv, WorkInv, Observe, NEW n \in OpNames, TaskClear(n)
  PROVE  WorkInv'
<1>1. tasks \in [OpNames -> Task] /\ tasks[n] \in Task
  BY WorkTypes
<1>2. /\ tasks[n].pc = "clear"
      /\ tasks' = [tasks EXCEPT ![n].pc = "end"]
      /\ cancels' \subseteq cancels
      /\ UNCHANGED <<operations, shippers, rpc>>
  BY DEF TaskClear
<1>3. /\ \A m \in OpNames \ {n} : tasks'[m] = tasks[m]
      /\ tasks'[n] = [tasks[n] EXCEPT !.pc = "end"]
  BY <1>1, <1>2
<1>4. /\ tasks'[n].created = tasks[n].created
      /\ tasks'[n].requests = tasks[n].requests
      /\ tasks'[n].apply = tasks[n].apply
      /\ tasks'[n].pc = "end"
  BY <1>1, <1>3 DEF Task
<1>5. QED
  BY <1>2, <1>3, <1>4, QuietTask

------------------------------------------------------------------------------
(* put_shipper: the store and the count grow by the same shipper.  A task   *)
(* at work saw no flag, so one that is up by now was raised at this count.  *)
LEMMA TaskWorkWorks ==
  ASSUME PromiseInv, WorkInv, Observe, NEW n \in OpNames, TaskWork(n)
  PROVE  WorkInv'
<1> DEFINE k == Len(tasks[n].created)
           new == Append(tasks[n].created, Mint(n, k + 1))
<1>1. /\ tasks \in [OpNames -> Task] /\ tasks[n] \in Task
      /\ tasks[n].created \in Seq(Shippers) /\ RunningInv(n)
      /\ tasks[n].requests \in Seq(Requests) /\ k \in Nat
      /\ last[n] \in Operation \cup {None}
  BY WorkTypes
<1>2. tasks[n].pc = "work" /\ UNCHANGED <<operations, cancels, rpc>>
  BY DEF TaskWork
<1>3. last' = last
  BY <1>2, LastUnchanged
<1>4. /\ ~last[n].done /\ last[n] # None /\ last[n].metadata.created = k
      /\ tasks[n].requests \in Batches
      /\ k + 1 \in DOMAIN tasks[n].requests
  BY <1>1, <1>2 DEF RunningInv
<1>5. Tallied(n) /\ Prompt(n)
  BY DEF WorkInv
<1>6. {"progress", "fail"} \subseteq Apply /\ Mint(n, k + 1) \in Shippers
  BY <1>4, MintAssumption DEF Apply
<1>7. CASE Update(n, "fail", tasks[n].created) /\ shippers' = shippers
  BY <1>1, <1>2, <1>4, <1>6, <1>7, UpdateFacts, QuietTask
<1>8. CASE /\ tasks[n].requests[k + 1] = "ok"
           /\ shippers' = shippers \cup {Mint(n, k + 1)}
           /\ Update(n, "progress", new)
  <2>1. /\ new \in Seq(Shippers) /\ Len(new) = k + 1
        /\ new[k + 1] = Mint(n, k + 1)
        /\ \A i \in 1 .. k : new[i] = tasks[n].created[i]
    BY <1>1, <1>6
  <2> HIDE DEF new
  <2>2. /\ \A m \in OpNames \ {n} : tasks'[m] = tasks[m]
        /\ tasks'[n].requests = tasks[n].requests
        /\ tasks'[n].created = new
        /\ tasks'[n].apply = "progress"
        /\ tasks'[n].pc = "load"
    BY <1>1, <1>6, <1>8, <2>1, UpdateFacts
  <2>3. ASSUME NEW m \in OpNames, m # n PROVE Tallied(m)' /\ Prompt(m)'
    <3>1. tasks'[m] = tasks[m] /\ Tallied(m) /\ Prompt(m)
      BY <2>2, <2>3 DEF WorkInv
    <3>2. StoredBy(m)' = StoredBy(m) /\ CountedBy(m)' = CountedBy(m)
      BY <1>8, <2>3, <3>1 DEF StoredBy, CountedBy, Mint
    <3>3. Tallied(m)'
      BY <1>3, <3>1, <3>2 DEF Tallied
    <3>4. flaggedAt'[m] = flaggedAt[m]
      BY <1>2, FlagFacts
    <3>5. QED
      BY <1>2, <1>3, <3>1, <3>3, <3>4 DEF Prompt, Cancelling
  <2>4. Tallied(n)'
    <3>1. StoredBy(n) = CountedBy(n)
      BY <1>5 DEF Tallied
    <3>2. StoredBy(n)' = StoredBy(n) \cup {Mint(n, k + 1)}
      BY <1>8 DEF StoredBy, Mint
    <3>3. CountedBy(n)' = CountedBy(n) \cup {Mint(n, k + 1)}
      BY <1>1, <2>1, <2>2 DEF CountedBy
    <3>4. \A i \in 1 .. k + 1 : new[i] = Mint(n, i) /\ tasks[n].requests[i] = "ok"
      BY <1>1, <1>5, <1>8, <2>1 DEF Tallied
    <3>5. last[n].result = NoResult
      BY <1>4, <1>5 DEF Tallied
    <3>6. last[n].result.kind # "response"
      BY <3>5 DEF NoResult
    <3>7. QED
      BY <1>1, <1>3, <1>4, <2>1, <2>2, <3>1, <3>2, <3>3, <3>4, <3>5, <3>6 DEF Tallied
  <2>5. Prompt(n)'
    <3>1. flaggedAt'[n] = flaggedAt[n]
      BY <1>2, FlagFacts
    <3>2. Cancelling(n)' => n \in cancels
      BY <1>2, <1>3, <1>4, <2>2 DEF Cancelling
    <3>3. n \in cancels => flaggedAt[n] \in Nat /\ k <= flaggedAt[n]
      BY <1>2, <1>5 DEF Prompt, Cancelling
    <3>4. QED
      BY <1>1, <2>1, <2>2, <3>1, <3>2, <3>3 DEF Prompt
  <2>6. QED
    BY <2>3, <2>4, <2>5 DEF WorkInv
<1>9. QED
  BY <1>7, <1>8 DEF TaskWork

(* Which closure ends an operation with which code.                         *)
LEMMA AppliedCodes ==
  ASSUME NEW n \in OpNames, tasks[n].apply \in Apply \ {"none"}, NEW op \in Operation, ~op.done
  PROVE  /\ tasks[n].apply = "progress" =>
              Applied(n, op).result = op.result /\ ~Applied(n, op).done
         /\ tasks[n].apply = "fail" => Applied(n, op).result = Error(INVALID_ARGUMENT)
         /\ tasks[n].apply = "succeed" => Applied(n, op).result = Response(tasks[n].created)
         /\ tasks[n].apply = "cancel" => Applied(n, op).result = Error(CANCELLED)
<1>1. CASE tasks[n].apply = "progress"
  <2>1. Applied(n, op) = SetMetadata(op, [created |-> Len(tasks[n].created), total |-> Total(n)])
    BY <1>1 DEF Applied
  <2>2. QED
    BY <1>1, <2>1 DEF SetMetadata, EnsurePending, Operation
<1>2. ASSUME NEW r PROVE Resolved(op, r).result = r
  BY DEF Resolved, EnsurePending, Operation
<1>3. CASE tasks[n].apply = "fail"
  BY <1>2, <1>3 DEF Applied, Fail
<1>4. CASE tasks[n].apply = "succeed"
  BY <1>2, <1>4 DEF Applied, Succeed
<1>5. CASE tasks[n].apply = "cancel"
  BY <1>2, <1>5 DEF Applied, Fail, Cancel
<1>6. QED
  BY <1>1, <1>3, <1>4, <1>5 DEF Apply

(* The put of update_operation: progress catches up with the count, and a   *)
(* result is stored at the exact count, with a full response if any, and as *)
(* CANCELLED only on the cancel path.                                       *)
LEMMA StoreWorks ==
  ASSUME PromiseInv, WorkInv, Observe, NEW n \in OpNames, UpdateStore(n)
  PROVE  WorkInv'
<1> DEFINE k == Len(tasks[n].created)
           op == Applied(n, last[n])
<1>1. /\ tasks \in [OpNames -> Task] /\ tasks[n] \in Task
      /\ RunningInv(n) /\ k \in Nat /\ Tallied(n) /\ Prompt(n)
      /\ tasks[n].created \in Seq(Shippers)
      /\ last \in [OpNames -> Operation \cup {None}]
  BY WorkTypes DEF WorkInv, PromiseInv
<1>2. /\ tasks[n].pc = "store"
      /\ tasks' = [tasks EXCEPT ![n].pc = "notify", ![n].loaded = None]
      /\ UNCHANGED <<cancels, shippers>>
  BY DEF UpdateStore
<1>3. /\ last[n] \in Operation /\ ~last[n].done /\ Valid(last[n])
      /\ last' = [last EXCEPT ![n] = op] /\ op \in Operation
  BY UpdateStoreKeeps
<1>4. /\ last[n] # None /\ last[n].result = NoResult
      /\ tasks[n].apply \in Apply \ {"none"}
      /\ tasks[n].apply # "progress" => last[n].metadata.created = k
      /\ tasks[n].apply = "succeed" => k = Len(tasks[n].requests)
  BY <1>1, <1>2, <1>3, NoneAssumption DEF Tallied, Prompt, RunningInv, Task
<1>5. /\ op.metadata.created = k
      /\ op.done <=> tasks[n].apply # "progress"
  <2>1. CASE tasks[n].apply = "progress"
    <3>1. /\ op = [last[n] EXCEPT !.metadata = [created |-> k, total |-> Total(n)]]
          /\ ~op.done
      BY <1>1, <1>3, <2>1, AppliedFacts
    <3>2. op.metadata = [created |-> k, total |-> Total(n)]
      BY <1>3, <3>1 DEF Operation
    <3>3. QED
      BY <2>1, <3>1, <3>2
  <2>2. CASE tasks[n].apply # "progress"
    BY <1>1, <1>3, <1>4, <2>2, AppliedFacts
  <2>3. QED
    BY <2>1, <2>2
<1>6. /\ tasks[n].apply = "progress" => op.result = NoResult
      /\ tasks[n].apply = "fail" => op.result = Error(INVALID_ARGUMENT)
      /\ tasks[n].apply = "succeed" => op.result = Response(tasks[n].created)
      /\ tasks[n].apply = "cancel" => op.result = Error(CANCELLED)
  BY <1>3, <1>4, AppliedCodes
<1> HIDE DEF op
<1>7. /\ op.result.kind = "response" => tasks[n].apply = "succeed"
      /\ op.result.code = CANCELLED => tasks[n].apply = "cancel"
      /\ tasks[n].apply = "succeed" => op.result.shippers = tasks[n].created
  BY <1>4, <1>6 DEF NoResult, Error, Response, CANCELLED, INVALID_ARGUMENT, Apply
<1>8. /\ last'[n] = op
      /\ \A m \in OpNames \ {n} : last'[m] = last[m] /\ tasks'[m] = tasks[m]
      /\ tasks'[n] = [tasks[n] EXCEPT !.pc = "notify", !.loaded = None]
  BY <1>1, <1>2, <1>3
<1>9. /\ tasks'[n].created = tasks[n].created
      /\ tasks'[n].requests = tasks[n].requests
      /\ tasks'[n].apply = tasks[n].apply
      /\ tasks'[n].pc = "notify"
  BY <1>1, <1>8 DEF Task
<1>10. ASSUME NEW m \in OpNames, m # n PROVE Tallied(m)' /\ Prompt(m)'
  <2>1. Tallied(m) /\ Prompt(m) /\ tasks'[m] = tasks[m] /\ last'[m] = last[m]
    BY <1>8, <1>10 DEF WorkInv
  <2>2. /\ (last[m] # None /\ last[m].done) => tasks[m].pc \in {"notify", "clear", "end"}
        /\ tasks[m].pc \in {"load", "store"} => tasks[m].apply # "none"
    BY <2>1 DEF Tallied, Prompt
  <2>3. QED
    BY <1>2, <2>1, <2>2, QuietStep
<1>11. Tallied(n)'
  <2>1. StoredBy(n)' = StoredBy(n) /\ CountedBy(n)' = CountedBy(n)
    BY <1>2, <1>9 DEF StoredBy, CountedBy
  <2>2. QED
    BY <1>1, <1>2, <1>4, <1>5, <1>6, <1>7, <1>8, <1>9, <2>1 DEF Tallied
<1>12. Prompt(n)'
  <2>1. flaggedAt'[n] = flaggedAt[n]
    BY <1>2, FlagFacts
  <2>2. Cancelling(n)' => Cancelling(n)
    BY <1>2, <1>7, <1>8, <1>9 DEF Cancelling
  <2>3. QED
    BY <1>1, <1>9, <2>1, <2>2 DEF Prompt
<1>13. QED
  BY <1>10, <1>11, <1>12 DEF WorkInv

------------------------------------------------------------------------------
(* A pending record is stored for a task that has made nothing yet.         *)
LEMMA CreatePutWorks ==
  ASSUME PromiseInv, WorkInv, Observe, NEW c \in Clients, NEW n \in OpNames,
         NEW batch \in Batches, CreatePut(c, n, batch)
  PROVE  WorkInv'
<1> DEFINE op == Pending(n, [created |-> 0, total |-> Len(batch)])
<1>1. /\ last \in [OpNames -> Operation \cup {None}]
      /\ Len(tasks[n].created) \in Nat
      /\ Tallied(n) /\ Prompt(n)
  BY WorkTypes DEF PromiseInv, WorkInv
<1>2. tasks[n].pc = "unborn" /\ UNCHANGED <<cancels, shippers, tasks>>
  BY DEF CreatePut, Fresh
<1>3. last[n] = None /\ last' = [last EXCEPT ![n] = op]
  BY CreatePutKeeps
<1>4. /\ last'[n] = op
      /\ \A m \in OpNames \ {n} : last'[m] = last[m]
  BY <1>1, <1>3
<1>5. /\ op.metadata.created = 0 /\ ~op.done /\ op.result = NoResult
      /\ op.result.kind # "response"
  BY DEF Pending, NoResult
<1> HIDE DEF op
<1>6. ASSUME NEW m \in OpNames, m # n PROVE Tallied(m)' /\ Prompt(m)'
  <2>1. Tallied(m) /\ Prompt(m) /\ last'[m] = last[m]
    BY <1>4, <1>6 DEF WorkInv
  <2>2. /\ (last[m] # None /\ last[m].done) => tasks[m].pc \in {"notify", "clear", "end"}
        /\ tasks[m].pc \in {"load", "store"} => tasks[m].apply # "none"
    BY <2>1 DEF Tallied, Prompt
  <2>3. QED
    BY <1>2, <2>1, <2>2, QuietStep
<1>7. Tallied(n)'
  <2>1. StoredBy(n)' = StoredBy(n) /\ CountedBy(n)' = CountedBy(n)
    BY <1>2 DEF StoredBy, CountedBy
  <2>2. QED
    BY <1>1, <1>2, <1>4, <1>5, <2>1 DEF Tallied
<1>8. Prompt(n)'
  <2>1. flaggedAt'[n] = flaggedAt[n]
    BY <1>2, FlagFacts
  <2>2. Cancelling(n)' => Cancelling(n)
    BY <1>2, <1>4, <1>5 DEF Cancelling
  <2>3. QED
    BY <1>1, <1>2, <2>1, <2>2 DEF Prompt
<1>9. QED
  BY <1>6, <1>7, <1>8 DEF WorkInv

(* The spawned task starts at nothing, whatever flag is up already.         *)
LEMMA CreateSpawnWorks ==
  ASSUME PromiseInv, WorkInv, Observe, NEW c \in Clients, CreateSpawn(c)
  PROVE  WorkInv'
<1>1. rpc[c].pc = "create_spawn" /\ CallInv(c)
  BY DEF CreateSpawn, PromiseInv
<1> PICK n \in OpNames : n = rpc[c].name
  BY <1>1 DEF CallInv
<1> DEFINE t == [UnbornTask EXCEPT !.pc = "check", !.requests = rpc[c].requests]
<1>2. /\ tasks' = [tasks EXCEPT ![n] = t]
      /\ UNCHANGED <<operations, cancels, shippers>>
  BY DEF CreateSpawn
<1>3. last' = last
  BY <1>2, LastUnchanged
<1>4. /\ tasks \in [OpNames -> Task] /\ Tallied(n) /\ Prompt(n)
      /\ tasks[n].created \in Seq(Shippers)
  BY WorkTypes DEF WorkInv
<1>5. tasks[n].pc = "unborn" /\ ~last[n].done
  BY <1>1 DEF CallInv, Pending
<1>6. Len(tasks[n].created) = 0
  BY <1>4, <1>5 DEF Tallied
<1>7. t.created = <<>> /\ t.pc = "check" /\ t.apply = "none" /\ Len(t.created) = 0
  BY DEF UnbornTask
<1> HIDE DEF t
<1>8. /\ tasks'[n] = t
      /\ \A m \in OpNames \ {n} : tasks'[m] = tasks[m]
  BY <1>2, <1>4
<1>9. ASSUME NEW m \in OpNames, m # n PROVE Tallied(m)' /\ Prompt(m)'
  <2>1. Tallied(m) /\ Prompt(m) /\ tasks'[m] = tasks[m]
    BY <1>8, <1>9 DEF WorkInv
  <2>2. /\ (last[m] # None /\ last[m].done) => tasks[m].pc \in {"notify", "clear", "end"}
        /\ tasks[m].pc \in {"load", "store"} => tasks[m].apply # "none"
    BY <2>1 DEF Tallied, Prompt
  <2>3. QED
    BY <1>2, <1>3, <2>1, <2>2, QuietStep
<1>10. Tallied(n)'
  <2>1. StoredBy(n)' = StoredBy(n) /\ CountedBy(n)' = CountedBy(n)
    BY <1>2, <1>6, <1>7, <1>8 DEF StoredBy, CountedBy
  <2>2. StoredBy(n)' = CountedBy(n)'
    BY <1>4, <2>1 DEF Tallied
  <2>3. last[n].result = NoResult \/ last[n] = None
    BY <1>4, <1>5 DEF Tallied
  <2>4. last[n] # None => last[n].result.kind # "response"
    BY <2>3 DEF NoResult
  <2>5. QED
    BY <1>3, <1>4, <1>5, <1>6, <1>7, <1>8, <2>2, <2>3, <2>4 DEF Tallied
<1>11. Prompt(n)'
  <2>1. flaggedAt'[n] = flaggedAt[n]
    BY <1>2, FlagFacts
  <2>2. Cancelling(n)' => Cancelling(n)
    BY <1>2, <1>3, <1>7, <1>8 DEF Cancelling
  <2>3. QED
    BY <1>4, <1>6, <1>7, <1>8, <2>1, <2>2 DEF Prompt
<1>12. QED
  BY <1>9, <1>10, <1>11 DEF WorkInv

(* Every step of the server preserves the counts.                           *)
LEMMA StepWorks ==
  ASSUME PromiseInv, WorkInv, [HNext]_hvars
  PROVE  WorkInv'
<1>1. CASE HNext
  <2>1. Next /\ Observe
    BY <1>1 DEF HNext
  <2>2. ASSUME NEW c \in Clients, Request(c) PROVE WorkInv'
    <3>1. ASSUME NEW n \in OpNames, NEW b \in Batches, CreatePut(c, n, b) PROVE WorkInv'
      BY <2>1, <3>1, CreatePutWorks
    <3>2. ASSUME NEW n \in OpNames, DeleteRemove(c, n) PROVE WorkInv'
      BY <2>1, <3>2, DeleteRemoveKeeps, IdleStep DEF DeleteRemove
    <3>3. ASSUME NEW n \in OpNames, CancelRequire(c, n) \/ WaitStart(c, n) PROVE WorkInv'
      <4>1. UNCHANGED <<operations, tasks, shippers>>
        BY <3>3 DEF CancelRequire, WaitStart
      <4>2. QED
        BY <2>1, <4>1, LastUnchanged, IdleStep
    <3>4. QED
      BY <2>2, <3>1, <3>2, <3>3 DEF Request
  <2>3. ASSUME NEW c \in Clients, HandlerStep(c) \/ DeadlinePasses(c) PROVE WorkInv'
    <3>1. CASE CreateSpawn(c)
      BY <2>1, <3>1, CreateSpawnWorks
    <3>2. CASE ~CreateSpawn(c)
      <4>1. UNCHANGED <<operations, tasks, shippers>>
        BY <2>3, <3>2 DEF HandlerStep, CancelFlag, DeleteUnflag, DeleteNotify, WaitEnrol,
             WaitRead, WaitPoll, WaitWake, WaitTimeout, DeadlinePasses
      <4>2. QED
        BY <2>1, <4>1, LastUnchanged, IdleStep
    <3>3. QED
      BY <3>1, <3>2
  <2>4. ASSUME NEW n \in OpNames, TaskStep(n) PROVE WorkInv'
    BY <2>1, <2>4, CheckWorks, TaskWorkWorks, LoadWorks, StoreWorks, NotifyWorks,
       ClearWorks DEF TaskStep
  <2>5. QED
    BY <2>1, <2>2, <2>3, <2>4 DEF Next
<1>2. CASE UNCHANGED hvars
  BY <1>2 DEF hvars, vars, WorkInv, Tallied, Prompt, Cancelling, StoredBy, CountedBy
<1>3. QED
  BY <1>1, <1>2

(* The store of shippers, the count of each batch task and the newest       *)
(* version of its record agree in every reachable state, and a task that    *)
(* was asked to stop has made at most one shipper since.                    *)
THEOREM WorkInvariant == HSpec => []WorkInv
<1>1. HInit => WorkInv
  <2> SUFFICES ASSUME HInit, NEW n \in OpNames PROVE Tallied(n) /\ Prompt(n)
    BY DEF WorkInv
  <2>1. /\ tasks[n] = UnbornTask /\ shippers = {} /\ cancels = {} /\ last[n] = None
    BY DEF HInit, Init
  <2>2. tasks[n].created = <<>> /\ tasks[n].pc = "unborn" /\ tasks[n].apply = "none"
    BY <2>1 DEF UnbornTask
  <2>3. Len(tasks[n].created) = 0
    BY <2>2
  <2>4. StoredBy(n) = {} /\ CountedBy(n) = {}
    BY <2>1, <2>3 DEF StoredBy, CountedBy
  <2>5. QED
    BY <2>1, <2>2, <2>3, <2>4 DEF Tallied, Prompt, Cancelling
<1>2. PromiseInv /\ WorkInv /\ [HNext]_hvars => WorkInv'
  BY StepWorks
<1>3. QED
  BY <1>1, <1>2, PromiseInvariant, PTL DEF HSpec

------------------------------------------------------------------------------
(* Progress that GetOperation reads is backed by stored shippers, exactly   *)
(* when the operation is done, however the batch ended.                     *)
THEOREM ProgressBacked == HSpec => []ProgressIsBacked
<1>1. PromiseInv /\ WorkInv => ProgressIsBacked
  <2> SUFFICES ASSUME PromiseInv, WorkInv, NEW n \in OpNames, operations[n] # None
               PROVE  /\ {Mint(n, i) : i \in 1 .. operations[n].metadata.created} \subseteq StoredBy(n)
                      /\ Len(tasks[n].created) <= operations[n].metadata.created + 1
                      /\ operations[n].done =>
                           StoredBy(n) = {Mint(n, i) : i \in 1 .. operations[n].metadata.created}
    BY DEF ProgressIsBacked
  <2>1. operations[n] = last[n]
    BY DEF PromiseInv, VisibleIsNewest
  <2>2. Tallied(n) /\ Len(tasks[n].created) \in Nat /\ last[n].metadata.created \in Nat
    BY <2>1, WorkTypes DEF WorkInv
  <2>3. QED
    BY <2>1, <2>2 DEF Tallied, CountedBy
<1>2. QED
  BY <1>1, PromiseInvariant, WorkInvariant, PTL

(* A succeeded operation lists one stored shipper per request, in order,    *)
(* and every request of its batch was valid.                                *)
THEOREM SuccessComplete == HSpec => []SuccessIsComplete
<1>1. PromiseInv /\ WorkInv => SuccessIsComplete
  <2> SUFFICES ASSUME PromiseInv, WorkInv, NEW n \in OpNames, operations[n] # None,
                      State(operations[n]) = "Succeeded"
               PROVE  /\ operations[n].result.shippers = [i \in 1 .. Total(n) |-> Mint(n, i)]
                      /\ operations[n].metadata = [created |-> Total(n), total |-> Total(n)]
                      /\ \A i \in 1 .. Total(n) :
                           tasks[n].requests[i] = "ok" /\ Mint(n, i) \in shippers
    BY DEF SuccessIsComplete
  <2>1. operations[n] = last[n] /\ last[n] # None
    BY DEF PromiseInv, VisibleIsNewest
  <2>2. last[n].done /\ last[n].result.kind = "response"
    BY <2>1 DEF State
  <2>3. /\ Tallied(n) /\ RunningInv(n) /\ tasks[n].created \in Seq(Shippers)
        /\ last[n] \in Operation
    BY <2>1, WorkTypes DEF WorkInv
  <2>4. /\ last[n].result.shippers = tasks[n].created
        /\ Len(tasks[n].created) = Total(n)
        /\ last[n].metadata.created = Total(n)
        /\ last[n].metadata.total = Total(n)
    BY <2>1, <2>2, <2>3 DEF Tallied, RunningInv, Total
  <2>5. \A i \in 1 .. Total(n) :
          /\ tasks[n].created[i] = Mint(n, i)
          /\ tasks[n].requests[i] = "ok"
          /\ Mint(n, i) \in shippers
    BY <2>3, <2>4 DEF Tallied, CountedBy, StoredBy
  <2>6. tasks[n].created = [i \in 1 .. Total(n) |-> Mint(n, i)]
    BY <2>3, <2>4, <2>5
  <2>7. last[n].metadata = [created |-> Total(n), total |-> Total(n)]
    BY <2>3, <2>4 DEF Operation, Metadata
  <2>8. QED
    BY <2>1, <2>4, <2>5, <2>6, <2>7
<1>2. QED
  BY <1>1, PromiseInvariant, WorkInvariant, PTL

(* CancelOperation is prompt: after its flag is up at most the shipper the  *)
(* task had begun is still made; and no operation ends in CANCELLED unasked.*)
THEOREM CancelPrompt == HSpec => []CancelIsPrompt
<1>1. PromiseInv /\ WorkInv => CancelIsPrompt
  <2> SUFFICES ASSUME PromiseInv, WorkInv, NEW n \in OpNames
               PROVE  /\ n \in cancels => Len(tasks[n].created) <= flaggedAt[n] + 1
                      /\ (last[n] # None /\ last[n].result.code = CANCELLED) =>
                           /\ flaggedAt[n] # None
                           /\ Len(tasks[n].created) <= flaggedAt[n] + 1
    BY DEF CancelIsPrompt
  <2>1. Tallied(n) /\ Prompt(n)
    BY DEF WorkInv
  <2>2. (last[n] # None /\ last[n].result.code = CANCELLED) => last[n].done
    BY <2>1 DEF Tallied, NoResult, CANCELLED
  <2>3. QED
    BY <2>1, <2>2, NoneIsNoCount DEF Prompt, Cancelling
<1>2. QED
  BY <1>1, PromiseInvariant, WorkInvariant, PTL
==============================================================================
