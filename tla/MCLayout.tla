------------------------------- MODULE MCLayout -------------------------------
(***************************************************************************)
(* Every change between two widths up to one where nothing is dropped, for  *)
(* a host that is longer than its column may be.                            *)
(***************************************************************************)
EXTENDS Layout
==============================================================================
