--------------------------- MODULE MCControlSession ---------------------------
(***************************************************************************)
(* Small instances of ControlSession for TLC.  Unbroken admits every fault *)
(* but connections that break, which Survivable has: the faults after      *)
(* which the backend still lives, its queries succeed and the connections' *)
(* ends must be noticed.  NoFaults is a program in which nothing goes      *)
(* wrong.                                                                  *)
(***************************************************************************)
EXTENDS ControlSession

Unbroken   == KnownFaults \ {"loss"}
Survivable == {"other_tab", "loss"}
NoFaults   == {}
=============================================================================
