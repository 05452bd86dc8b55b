----------------------------- MODULE LayoutProofs -----------------------------
(***************************************************************************)
(* The width arithmetic for every terminal width, host and time format: no  *)
(* row of a resized layout wraps above the floor.  The inductive invariant   *)
(* is that a layout that was ever resized is a function of the width it was  *)
(* last resized to.                                                         *)
(***************************************************************************)
EXTENDS Layout, TLAPS

Resized(w) == hostWidth = HostWidth(w) /\ retained = Retained(w)

LayoutInv ==
  /\ TypeOK
  /\ width > 0 => Resized(width)

\* The number of retained columns is well defined and is what its loop ends in.
LEMMA RetainedIs ==
  ASSUME NEW w \in Int
  PROVE  /\ Retained(w) \in 0..4
         /\ Retained(w) = 0 \/ Needed(Retained(w)) <= w
         /\ \A q \in (Retained(w) + 1)..4 : Needed(q) > w
<1> DEFINE P(r) == /\ r = 0 \/ Needed(r) <= w
                   /\ \A q \in (r + 1)..4 : Needed(q) > w
<1>1. /\ Fixed \in Int
      /\ \A r \in 0..4 : Needed(r) = Fixed + 15 + 8 * r
  BY LayoutAssumption DEF Fixed, Needed, MinHost
<1>2. \E r \in 0..4 : P(r)
  <2>1. CASE Needed(4) <= w
    BY <1>1, <2>1
  <2>2. CASE Needed(4) > w /\ Needed(3) <= w
    <3>1. P(3)
      BY <2>2
    <3>2. QED
      BY <3>1
  <2>3. CASE Needed(4) > w /\ Needed(3) > w /\ Needed(2) <= w
    <3>1. P(2)
      BY <2>3
    <3>2. QED
      BY <3>1
  <2>4. CASE Needed(4) > w /\ Needed(3) > w /\ Needed(2) > w /\ Needed(1) <= w
    <3>1. P(1)
      BY <2>4
    <3>2. QED
      BY <3>1
  <2>5. CASE Needed(4) > w /\ Needed(3) > w /\ Needed(2) > w /\ Needed(1) > w
    <3>1. P(0)
      BY <2>5
    <3>2. QED
      BY <3>1
  <2>6. QED
    BY <1>1, <2>1, <2>2, <2>3, <2>4, <2>5
<1>3. Retained(w) = CHOOSE r \in 0..4 : P(r)
  BY DEF Retained
<1>4. QED
  BY <1>2, <1>3

\* HOST has at least its floor, and more only if the terminal leaves it.
LEMMA HostWidthIs ==
  ASSUME NEW w \in Int
  PROVE  /\ HostWidth(w) \in MinHost..MaxHost
         /\ HostWidth(w) > MinHost => HostWidth(w) <= w - Fixed - 8 * Retained(w)
<1>1. Retained(w) \in 0..4
  BY RetainedIs
<1>2. HostNeed \in 15..40 /\ Fixed \in Int
  BY LayoutAssumption DEF HostNeed, AtMost, AtLeast, MinHost, MaxHost, Fixed
<1>3. QED
  BY <1>1, <1>2 DEF HostWidth, AtMost, AtLeast, MinHost, MaxHost

\* The layout is always well typed and that of the latest width.
LEMMA LayoutInvariant == Spec => []LayoutInv
<1>1. Init => LayoutInv
  BY LayoutAssumption
     DEF Init, LayoutInv, TypeOK, HostNeed, AtMost, AtLeast, MinHost, MaxHost
<1>2. LayoutInv /\ [Next]_vars => LayoutInv'
  <2> SUFFICES ASSUME LayoutInv, [Next]_vars PROVE LayoutInv'
    OBVIOUS
  <2>1. CASE Next
    <3>1. PICK w \in 1..MaxWidth : Resize(w)
      BY <2>1 DEF Next
    <3>2. w \in Nat /\ width' = w /\ hostWidth' = HostWidth(w) /\ retained' = Retained(w)
      BY <3>1, LayoutAssumption DEF Resize
    <3>3. HostWidth(w) \in MinHost..MaxHost /\ Retained(w) \in 0..4
      BY <3>2, RetainedIs, HostWidthIs
    <3>4. QED
      BY <3>2, <3>3 DEF LayoutInv, TypeOK, Resized
  <2>2. CASE UNCHANGED vars
    BY <2>2 DEF LayoutInv, TypeOK, Resized, vars, HostWidth, Retained
  <2>3. QED
    BY <2>1, <2>2
<1>3. QED
  BY <1>1, <1>2, PTL DEF Spec

\* HOST stays within its bounds on a terminal of any width.
THEOREM TypeCorrect == Spec => []TypeOK
BY LayoutInvariant, PTL DEF LayoutInv

\* Above the floor a resized line has room for all it keeps.
LEMMA RoomAboveFloor ==
  ASSUME LayoutInv, width >= Floor
  PROVE  /\ hostWidth \in 15..40 /\ retained \in 0..4
         /\ TimeWidth + hostWidth + 23 + 8 * retained <= width
         /\ retained = 4 => TimeWidth + hostWidth + 24 + 8 * retained <= width
<1>1. width \in Nat /\ width > 0 /\ TimeWidth \in Nat
  BY LayoutAssumption DEF LayoutInv, TypeOK, Floor
<1>2. Resized(width)
  BY <1>1 DEF LayoutInv
<1>3. /\ hostWidth \in 15..40 /\ retained \in 0..4
      /\ hostWidth > 15 => hostWidth <= width - Fixed - 8 * retained
  BY <1>1, <1>2, HostWidthIs DEF Resized, LayoutInv, TypeOK, MinHost, MaxHost
<1>4. retained = 0 \/ Fixed + 15 + 8 * retained <= width
  BY <1>1, <1>2, RetainedIs DEF Resized, Needed, MinHost
<1>5. QED
  BY <1>1, <1>3, <1>4 DEF Fixed, Floor

\* No row wraps above the floor: whatever the host, the time format, the status
\* and the values, so long as these have the widths of their columns.
THEOREM NoWrapCorrect == Spec => []NoWrapAboveFloor
<1>1. LayoutInv => NoWrapAboveFloor
  <2> SUFFICES ASSUME LayoutInv, width >= Floor PROVE Fits(width)
    BY DEF NoWrapAboveFloor
  <2>1. /\ hostWidth \in 15..40 /\ retained \in 0..4 /\ width \in Nat
        /\ TimeWidth + hostWidth + 23 + 8 * retained <= width
        /\ retained = 4 => TimeWidth + hostWidth + 24 + 8 * retained <= width
    BY RoomAboveFloor DEF LayoutInv, TypeOK
  <2>2. TimeWidth \in Nat
    BY LayoutAssumption
  <2>3. HeaderCells(hostWidth, retained) <= width
    BY <2>1, <2>2 DEF HeaderCells, BeforeDuration, BeforeColumn
  <2>4. ASSUME NEW status \in {"unknown", "up", "down", "error"}, NEW live \in BOOLEAN,
               NEW dur \in 4..12, NEW value \in 1..8,
               status = "up" => value <= 7
        PROVE  LineCells(hostWidth, retained, status, live, dur, value) <= width
    <3> DEFINE c == LastShown(status, retained)
    <3>1. /\ c \in 0..4 /\ c <= retained
          /\ c = 4 => retained = 4
          /\ c \in 1..3 => value <= 7
      BY <2>1, <2>4 DEF LastShown, AtMost
    <3>2. CASE c > 0
      <4>1. LineCells(hostWidth, retained, status, live, dur, value)
              = BeforeColumn(hostWidth, c) + value
        BY <3>1, <3>2 DEF LineCells
      <4>2. BeforeColumn(hostWidth, c) = TimeWidth + hostWidth + 24 + 8 * (c - 1)
        BY <2>1, <2>2, <3>1 DEF BeforeColumn, BeforeDuration
      <4>3. QED
        BY <2>1, <2>2, <2>4, <3>1, <3>2, <4>1, <4>2
    <3>3. CASE c = 0
      BY <2>1, <2>2, <2>4, <3>3 DEF LineCells, BeforeDuration
    <3>4. QED
      BY <3>1, <3>2, <3>3
  <2>5. QED
    BY <2>3, <2>4 DEF Fits
<1>2. QED
  BY <1>1, LayoutInvariant, PTL

\* A wider terminal never shows fewer columns.
THEOREM WiderKeepsCorrect == Spec => WiderKeepsColumns
<1>1. LayoutInv /\ LayoutInv' /\ [Next]_vars
        => [0 < width /\ width <= width' => retained <= retained']_vars
  <2> SUFFICES ASSUME LayoutInv, LayoutInv', 0 < width, width <= width'
               PROVE  retained <= retained'
    BY DEF vars
  <2>1. /\ width \in Nat /\ width' \in Nat /\ retained \in 0..4 /\ retained' \in 0..4
        /\ retained = Retained(width) /\ retained' = Retained(width')
    BY DEF LayoutInv, TypeOK, Resized, Retained, HostWidth
  <2>2. retained = 0 \/ Needed(retained) <= width
    BY <2>1, RetainedIs
  <2>3. \A q \in (retained' + 1)..4 : Needed(q) > width'
    BY <2>1, RetainedIs
  <2>4. Needed(retained) \in Int
    BY <2>1, LayoutAssumption DEF Needed, Fixed, MinHost
  <2>5. QED
    BY <2>1, <2>2, <2>3, <2>4
<1>2. QED
  BY <1>1, LayoutInvariant, PTL DEF Spec, WiderKeepsColumns
==============================================================================
