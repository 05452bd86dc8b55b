-------------------------------- MODULE Display --------------------------------
(***************************************************************************)
(* What the displays of internal/output have in common: the lines of the     *)
(* statuses, the terminal they write to and what may happen to it.           *)
(***************************************************************************)
EXTENDS Terminal

CONSTANTS NoHeader,     \* the noHeader of a display
          Sizes,        \* bound: the sizes the terminal may have, <<columns, rows>>
          Above,        \* bound: how many rows are in use when the program starts
          MaxStatus,    \* bound: statuses
          MaxResizes,   \* bound: resizes
          Races         \* what else the world may do, see "Environment" of each display

ASSUME DisplayAssumption ==
  /\ NoHeader \in BOOLEAN
  /\ Sizes \subseteq (Nat \ {0}) \X (Nat \ {0})
  /\ Races \subseteq {"home", "finalize", "flicker", "change", "straddle", "raw"}

VARIABLES size,           \* what sizeFn reads: <<columns, rows>>
          term,           \* the terminal; it has the new size only once it reflowed
          cur,            \* the number of the live line; 0: nil
          lastPhysRows, lastWidth, resizePending,
          settled,        \* resizeSettleDelay has passed since resizeSince
          begun,          \* statuses so far
          closed,         \* Finalize was called
          resizes

------------------------------------------------------------------------------
(* Lines, numbered in the order their statuses began *)

\* The statuses take turns; the widths of a duration, of a round-trip time and of
\* the failures.
Status(k) == <<"unknown", "up", "down">>[1 + ((k - 1) % 3)]
Duration == 11
Value(k) == IF Status(k) = "up" THEN 5 ELSE 1

------------------------------------------------------------------------------
(* The terminal *)

\* What is on the screen when the program starts; the cursor is below it.
UserLines(n) == [k \in 1..n |-> TextLine(<<"user", k>>, 60)]

StartTerm(s, n) ==
  LET rows == RowsOfAll(UserLines(n), s[1]) \o <<BlankRow>>
  IN  [w |-> s[1], h |-> s[2], buf |-> rows, cur |-> Len(rows),
       top |-> IF Len(rows) > s[2] THEN Len(rows) - s[2] ELSE 0, home |-> TRUE]

\* What the terminal makes of its rows in a new size.
Rewrap(s) ==
  \E starts \in {Starts(term.buf)}, n \in {CursorLine(term)} :
    \E lines \in {LinesAt(term, starts)} :
      term' = Rewrapped(term, lines, n, starts[n], s[1], s[2])

\* A new height takes effect at once, for a new width the terminal takes a while.
TakesSize(s) ==
  /\ size' = s
  /\ \/ s[1] = term.w /\ Rewrap(s)
     \/ s[1] # term.w /\ UNCHANGED term
==============================================================================
