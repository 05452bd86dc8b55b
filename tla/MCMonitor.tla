------------------------------ MODULE MCMonitor ------------------------------
(***************************************************************************)
(* A run with and without --count, every kind of stdin, and a user who may  *)
(* signal and type.                                                         *)
(***************************************************************************)
EXTENDS Monitor

MCRTTs == {1}
MCErrs == {"permission"}
MCCounts == {0, 2}
==============================================================================
