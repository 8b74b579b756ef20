------------------------------ MODULE MCPolicy ------------------------------
(* PolicyStore for TLC: member 1 is allUsers and member 2 a user; caller 3  *)
(* is a user no policy names.                                               *)
EXTENDS PolicyStore

MCCallers     == {2, 3, None}
MCHolds       == [e \in Expressions |-> IF e = 1 THEN "yes" ELSE "broken"]
MCPermissions == [role \in Roles |-> IF role = 1 THEN {"get"} ELSE {"get", "update"}]
MCSymmetry    == Permutations(Clients)
==============================================================================
