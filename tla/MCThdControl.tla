---------------------------- MODULE MCThdControl ----------------------------
(* Instances of ThdControl for TLC.                                         *)
EXTENDS ThdControl

CONSTANTS t1, t2, t3
=============================================================================
