------------------------------- MODULE MCNvm -------------------------------
(***************************************************************************)
(* A data area of three bytes: a field of two bytes (the app info) and one *)
(* of a single byte (the bug log).                                         *)
(***************************************************************************)
EXTENDS Nvm

AppInfo == [offset |-> 0, length |-> 2]
Log == [offset |-> 2, length |-> 1]
MCFields == {AppInfo, Log}
=============================================================================
