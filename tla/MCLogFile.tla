------------------------------ MODULE MCLogFile ------------------------------
(***************************************************************************)
(* Two processes append to one file and are started twice.                  *)
(***************************************************************************)
EXTENDS LogFile, TLC

CONSTANTS p, q

TwoProcs == {p, q}
Symmetry == Permutations(TwoProcs)
==============================================================================
