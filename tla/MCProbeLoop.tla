----------------------------- MODULE MCProbeLoop -----------------------------
(***************************************************************************)
(* A dial, or a chain of up to three tiers, whose attempts may outlive the   *)
(* interval.                                                                 *)
(***************************************************************************)
EXTENDS ProbeLoop

MCRTTs == {1}
MCErrs == {"permission", "other"}
==============================================================================
