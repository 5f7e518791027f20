------------------------------ MODULE MCDfuLink ------------------------------
(* The device as built: one master and one slave.                            *)
EXTENDS DfuLink
==============================================================================
