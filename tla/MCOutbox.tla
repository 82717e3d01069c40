------------------------------ MODULE MCOutbox ------------------------------
(***************************************************************************)
(* Small instances of Outbox for TLC.                                      *)
(***************************************************************************)
EXTENDS Outbox, TLC

CONSTANTS e1, e2, w1, w2, facts, truth

\* Two workers on one sink: parallel consumers of the same stream.
TwoOnFacts == w1 :> facts @@ w2 :> facts
TwoOnTruth == w1 :> truth @@ w2 :> truth
=============================================================================
