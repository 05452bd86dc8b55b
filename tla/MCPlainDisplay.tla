--------------------------- MODULE MCPlainDisplay ----------------------------
(***************************************************************************)
(* Three statuses under a header, on widths at which every line takes one    *)
(* row, some wrap, and all wrap; and a width between the live line and its   *)
(* finished form, which is narrower.                                         *)
(***************************************************************************)
EXTENDS PlainDisplay

PlainSizes == {<<100, 6>>, <<70, 6>>, <<60, 6>>, <<50, 6>>, <<50, 5>>}
==============================================================================
