----------------------------- MODULE MCIcmpProbe -----------------------------
(***************************************************************************)
(* Three probes on one socket: a reply can be two probes late, and be read   *)
(* behind a duplicate and a foreign packet.                                 *)
(***************************************************************************)
EXTENDS IcmpProbe

MCRTTs == 0..Timeout
MCErrs == {"other"}
==============================================================================
