------------------------------ MODULE MCThdMon ------------------------------
(* Instances of ThdMon for TLC.                                            *)
EXTENDS ThdMon

CONSTANTS t1, t2, t3
=============================================================================
