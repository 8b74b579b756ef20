-------------------------- MODULE OperationVersions --------------------------
(***************************************************************************)
(* What aip-lro promises of the versions of one stored operation, whatever *)
(* tasks, waits, cancels and deletes do: they form one forward walk,       *)
(* pending with growing progress, then at most one final result.  Nothing  *)
(* here says HOW a version is written, nor how long a read returns it.     *)
(***************************************************************************)
EXTENDS Lro

VARIABLE last   \* the newest version ever stored, None before the first

Init == last = [n \in OpNames |-> None]

(* The first version: a named pending operation with no progress yet.      *)
Opening(n, new) ==
  /\ new.metadata.total \in Nat \ {0}
  /\ new = Pending(n, [created |-> 0, total |-> new.metadata.total])

(* One more unit of progress.                                              *)
Advance(old, new) ==
  /\ old.metadata.created < old.metadata.total
  /\ new = [old EXCEPT !.metadata.created = @ + 1]

(* The final result: an error at any point, or a response that accounts    *)
(* for every requested unit.                                               *)
Resolve(old, new) ==
  /\ new = [old EXCEPT !.done = TRUE, !.result = new.result]
  /\ \/ \E code \in Codes : new.result = Error(code)
     \/ /\ new.result = Response(new.result.shippers)
        /\ new.result.shippers \in Seq(Shippers)
        /\ Len(new.result.shippers) = old.metadata.total
        /\ old.metadata.created = old.metadata.total

(* The next version of one operation.                                      *)
Publish(n) ==
  /\ last'[n] # None
  /\ \/ last[n] = None /\ Opening(n, last'[n])
     \/ /\ last[n] # None
        /\ ~last[n].done
        /\ Advance(last[n], last'[n]) \/ Resolve(last[n], last'[n])
  /\ last' = [last EXCEPT ![n] = last'[n]]

Next == \E n \in OpNames : Publish(n)

Spec == Init /\ [][Next]_last
==============================================================================
