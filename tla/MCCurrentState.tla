--------------------------- MODULE MCCurrentState ---------------------------
(* CurrentState on a small instance: listings of one catalog, a few scans  *)
(* and probes of them, and the deliveries of a projector.                  *)
EXTENDS CurrentState, TLC

CONSTANTS l1, l2, s1, s2, s3, c1, w1

\* Two handlers at a time with two scans; three scans, one handler at a time.
MCPlans == {[scans |-> 2, busy |-> 2, deliveries |-> 2], [scans |-> 3, busy |-> 1, deliveries |-> 2]}
MCReplay == {[scans |-> 2, busy |-> 1, deliveries |-> 1]}

Symmetric == Permutations({s1, s2, s3})
=============================================================================
