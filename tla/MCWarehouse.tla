---------------------------- MODULE MCWarehouse ----------------------------
(* Instances of Warehouse for TLC. *)
EXTENDS Warehouse, TLC

CONSTANTS l1, l2, p1, p2, c1, c2

\* The price changes from run to run, and back.
MCPriced == <<{p1}, {p2}, {p1}>>

Symmetric == Permutations(Listings) \cup Permutations(Consumers)
=============================================================================
