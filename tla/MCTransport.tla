---------------------------- MODULE MCTransport ----------------------------
(* Transport on a small instance: a few tasks and routes.                  *)
EXTENDS Transport

CONSTANTS r1, r2, t1, t2
=============================================================================
