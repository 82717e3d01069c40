-------------------------- MODULE MCRuntimeControl --------------------------
(***************************************************************************)
(* Small instances of RuntimeControl for TLC.                              *)
(***************************************************************************)
EXTENDS RuntimeControl

CONSTANTS r1, b1, o1
=============================================================================
