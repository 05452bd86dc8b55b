-------------------------------- MODULE Layout --------------------------------
(***************************************************************************)
(* The column widths of a line (internal/output/format.go), in cells: the   *)
(* elastic HOST column, the four right columns that a narrow terminal       *)
(* drops, and the cells a rendered row takes.  Window mode resizes a layout *)
(* before every redraw; plain mode keeps the one it started with.           *)
(***************************************************************************)
EXTENDS Integers

CONSTANTS TimeWidth,   \* cells of TIME: 8 for HH:MM:SS, 25 for rfc3339
          HostLen,     \* runes of the host
          MaxWidth     \* bound: width of the terminal

ASSUME LayoutAssumption ==
  /\ TimeWidth \in {8, 25}
  /\ HostLen \in Nat
  /\ MaxWidth \in Nat

MinHost == 15
MaxHost == 40
Fixed == TimeWidth + 24

AtMost(n, most) == IF n > most THEN most ELSE n
AtLeast(n, least) == IF n < least THEN least ELSE n

\* hostWidthFor: as wide as the host needs, within bounds.
HostNeed == AtMost(AtLeast(HostLen, MinHost), MaxHost)

------------------------------------------------------------------------------
(* Resize *)

\* The cells of a line that keeps r right columns, with HOST at its floor.  The
\* mutant forgets HOST.
NeededNoHost(r) == Fixed + 8 * r

Needed(r) == Fixed + MinHost + 8 * r

\* Columns are dropped from the right until the line fits, or none is left.  The
\* mutant counts the dropped ones.
RetainedDropped(width) ==
  CHOOSE d \in 0..4 : /\ d = 4 \/ Needed(4 - d) <= width
                      /\ \A q \in (5 - d)..4 : Needed(q) > width

Retained(width) ==
  CHOOSE r \in 0..4 : /\ r = 0 \/ Needed(r) <= width
                      /\ \A q \in (r + 1)..4 : Needed(q) > width

\* HOST gets what the retained columns leave, within its bounds; the mutant has
\* no lower bound.
HostWidthNoFloor(width) ==
  AtMost(HostNeed, width - Fixed - 8 * Retained(width))

HostWidth(width) ==
  AtMost(AtLeast(AtMost(HostNeed, width - Fixed - 8 * Retained(width)), MinHost),
         MaxHost)

------------------------------------------------------------------------------
(* The cells of a row, trailing blanks trimmed. *)

\* TIME, two spaces, HOST, a space, STATE (5), a space.
BeforeDuration(host) == TimeWidth + 2 + host + 1 + 5 + 1

\* DURATION (14), then a space and a column for each right column before the
\* c-th, and the space before that one.
BeforeColumn(host, c) == BeforeDuration(host) + 14 + 8 * (c - 1) + 1

\* "DURATION", or the label of the last retained column.
HeaderCells(host, retained) ==
  CASE retained = 0      -> BeforeDuration(host) + 8
    [] retained \in 1..3 -> BeforeColumn(host, retained) + 3
    [] retained = 4      -> BeforeColumn(host, 4) + 5

\* The last right column that is not blank: an up line shows three round-trip
\* times, a down line the failures, which is the fourth column.
LastShown(status, retained) ==
  CASE status = "up"                    -> AtMost(retained, 3)
    [] status = "down" /\ retained = 4  -> 4
    [] OTHER                            -> 0

\* A line whose last value is value cells wide and whose duration dur; the
\* animation of a live line fills the last cell of DURATION.
LineCells(host, retained, status, live, dur, value) ==
  LET c == LastShown(status, retained)
  IN  CASE c > 0          -> BeforeColumn(host, c) + value
        [] c = 0 /\ live  -> BeforeDuration(host) + 14
        [] c = 0 /\ ~live -> BeforeDuration(host) + dur

------------------------------------------------------------------------------
VARIABLES width,      \* the width of the terminal at the latest Resize; 0: none yet
          hostWidth,  \* l.hostWidth
          retained    \* l.retained

vars == <<width, hostWidth, retained>>

\* NewLayout: the full line, whatever the terminal.
Init == width = 0 /\ hostWidth = HostNeed /\ retained = 4

Resize(w) == width' = w /\ hostWidth' = HostWidth(w) /\ retained' = Retained(w)

Next == \E w \in 1..MaxWidth : Resize(w)

Spec == Init /\ [][Next]_vars

------------------------------------------------------------------------------
\* HOST and the columns stay within their bounds, whatever the terminal.
TypeOK == width \in Nat /\ hostWidth \in MinHost..MaxHost /\ retained \in 0..4

\* The essentials: TIME, HOST at its floor, STATE and DURATION.
Floor == TimeWidth + 38

\* The widths a value can have: a duration of at most 12 cells, a round-trip
\* time of at most its column (under ten seconds), failures of at most eight
\* digits.
Fits(w) ==
  /\ HeaderCells(hostWidth, retained) <= w
  /\ \A status \in {"unknown", "up", "down", "error"}, live \in BOOLEAN,
        dur \in 4..12, value \in 1..8 :
        (status = "up" => value <= 7) =>
          LineCells(hostWidth, retained, status, live, dur, value) <= w

\* docs/terminal-rendering.md: above the floor no row ever wraps, whatever the
\* host and the values, so that a frame takes one physical row per line.
NoWrapAboveFloor == width >= Floor => Fits(width)

\* A resize to a wider terminal never drops a column, whatever came before: the
\* loop of Resize has no memory.
WiderKeepsColumns ==
  [][0 < width /\ width <= width' => retained <= retained']_vars
==============================================================================
