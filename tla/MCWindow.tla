------------------------------ MODULE MCWindow -------------------------------
(***************************************************************************)
(* A window of two lines under a header.  The widths are one at which        *)
(* nothing is dropped, one at which the fresh rows fit but those drawn at    *)
(* the first wrap, and one below the essentials floor; the heights leave     *)
(* room for the reflowed block or not.  The block starts at the top of the   *)
(* screen or at its bottom.                                                  *)
(***************************************************************************)
EXTENDS Window

WindowSizes == {<<100, 6>>, <<60, 6>>, <<50, 6>>, <<50, 5>>, <<40, 5>>}

\* All above the floor, all with room for the reflowed block.
WideSizes == {<<100, 6>>, <<60, 6>>, <<50, 6>>}
==============================================================================
