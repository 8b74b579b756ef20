------------------------------ MODULE MCAccess ------------------------------
(* Access for TLC.  The sizes of a page: the default, one, and more than the *)
(* maximum.  A policy names nobody, or alice.                                *)
(* `slashed` is the shipper's name after a slash, which parses as s1;        *)
(* the second name of a batch is spelled that way, or does not parse.        *)
EXTENDS Access, TLC

CONSTANTS alice, s1, slashed, c1, c2

MCPolicies  == { {}, {alice} }
MCRespelled == [name \in {slashed} |-> s1]
MCBatches   == {<<[parent |-> s1, id |-> i], [parent |-> p, id |-> j]>> : i \in Ids, j \in Ids, p \in {slashed, NotAShipper}}
MCPageSizes == {0, 1, MaxSize + 1}
MCSymmetry  == Permutations(Calls) \cup Permutations(Ids)
=============================================================================
