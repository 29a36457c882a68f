---------------------------- MODULE MCAggregator ----------------------------
(***************************************************************************)
(* Instance of Aggregator: neither the addresses nor the tag ids are told  *)
(* apart by anything but equality, so both sets are symmetric.             *)
(***************************************************************************)
EXTENDS Aggregator, TLC

Symmetry == Permutations(Address) \cup Permutations(TagId)
=============================================================================
