------------------------------ MODULE MCEngine -------------------------------
(***************************************************************************)
(* The engine on every sequence of at most MaxProbes results: two RTTs tell *)
(* minimum from maximum, two thresholds above 1 make every partial run      *)
(* possible.                                                                *)
(***************************************************************************)
EXTENDS EngineHistory

MCRTTs == {1, 3}
MCErrs == {"other"}
==============================================================================
