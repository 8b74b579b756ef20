--------------------------- MODULE OperationPromise ---------------------------
(***************************************************************************)
(* What a client is promised about one stored operation: the forward walk  *)
(* of OperationVersions, each version visible as soon as it is stored,     *)
(* until a delete, which is final ("a DeleteOperation that removed it      *)
(* simply stops the task", run_batch_create).                              *)
(***************************************************************************)
EXTENDS Lro

VARIABLES
  record,   \* what a read of the store returns, None when there is none
  last      \* the newest version ever stored, None before the first

Versions == INSTANCE OperationVersions

vars == <<record, last>>

Init == Versions!Init /\ record = [n \in OpNames |-> None]

(* A version becomes visible: the first, or the next of a visible one.     *)
Publish(n) ==
  /\ last[n] = None \/ record[n] # None
  /\ Versions!Publish(n)
  /\ record' = [record EXCEPT ![n] = last'[n]]

Delete(n) ==
  /\ record' = [record EXCEPT ![n] = None]
  /\ UNCHANGED last

Next == \E n \in OpNames : Publish(n) \/ Delete(n)

Spec == Init /\ [][Next]_vars
===============================================================================
