----------------------------- MODULE MCI2cLink -----------------------------
(***************************************************************************)
(* The register map of the flight controller's bootloader in small: the    *)
(* program memory from register 1 on, then the DFU info, the program       *)
(* memory info, which is longer than the buffer of the slave, and a string *)
(* that can only be read. Register 0 belongs to no endpoint.               *)
(***************************************************************************)
EXTENDS I2cLink

DfuEndpoints ==
  <<[addr |-> 4, kind |-> "info", randomAccess |-> FALSE, content |-> <<11, 12>>,
     writable |-> TRUE, commits |-> TRUE],
    [addr |-> 5, kind |-> "once", randomAccess |-> FALSE, content |-> <<21, 22, 23>>,
     writable |-> TRUE, commits |-> TRUE],
    [addr |-> 6, kind |-> "once", randomAccess |-> FALSE, content |-> <<31, 32, 33>>,
     writable |-> FALSE, commits |-> FALSE],
    [addr |-> 1, kind |-> "progmem", randomAccess |-> TRUE, content |-> <<41, 42, 43, 44>>,
     writable |-> TRUE, commits |-> FALSE]>>

\* None, one or two refills of the buffer, up to the end of the content and
\* beyond it.
DfuTransfers ==
  [rwn : {TRUE}, addr : {1, 6}, n : {1, 3, 5}] \cup [rwn : {TRUE}, addr : {0, 4}, n : {2, 3}]
  \cup [rwn : {FALSE}, addr : {1}, n : {0, 3, 5}] \cup [rwn : {FALSE}, addr : {0, 4, 5, 6}, n : {2}]
=============================================================================
