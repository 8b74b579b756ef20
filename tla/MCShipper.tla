------------------------------ MODULE MCShipper ------------------------------
(* ShipperHistory for TLC.  The digest is injective: an etag names one      *)
(* content of one shipper under one spelling of its name.                   *)
EXTENDS ShipperHistory, TLC

MCEtags  == Names \X Spellings \X Contents
MCDigest == [p \in MCEtags |-> p]

MCSymmetry == Permutations(Calls) \cup Permutations(Names) \cup Permutations(Contents)
==============================================================================
