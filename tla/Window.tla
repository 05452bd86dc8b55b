-------------------------------- MODULE Window --------------------------------
(***************************************************************************)
(* The window display (internal/output/window.go) on a terminal that        *)
(* reflows: a block of a header and the latest lines, redrawn in place on    *)
(* every event and every second.  After a change of width the program does   *)
(* not know where the terminal has moved the block.  It holds its redraws    *)
(* until the width is stable (resizeSettleDelay) and then repaints in place, *)
(* walks back over the rows the block now takes (reclaim), or begins anew    *)
(* below it (restart).                                                       *)
(***************************************************************************)
EXTENDS Display

CONSTANTS WindowLines  \* w.lines, at least 1

ASSUME WindowAssumption == WindowLines \in Nat \ {0}

VARIABLES layout,         \* w.layout: width of the latest Resize, hostWidth, retained
          started, lastRows,
          history,        \* w.history, the numbers of its lines
          deferPending,
          frozen          \* the frames that restarts have left behind

vars == <<size, term, layout, started, lastPhysRows, lastRows, history, cur, lastWidth,
          resizePending, deferPending, settled, begun, closed, frozen, resizes>>

Layouts == INSTANCE Layout WITH
  TimeWidth <- 8, HostLen <- 30, MaxWidth <- 200,
  width <- layout.width, hostWidth <- layout.hostWidth, retained <- layout.retained

Most(a, b) == IF a < b THEN a ELSE b

------------------------------------------------------------------------------
(* The frame *)

Header(l) == TextLine(<<"header", 0>>, Layouts!HeaderCells(l.hostWidth, l.retained))

StatusLine(l, k, live) ==
  TextLine(<<IF live THEN "live" ELSE "line", k>>,
           Layouts!LineCells(l.hostWidth, l.retained, Status(k), live, Duration, Value(k)))

VisibleLines(h) ==
  LET fit == IF NoHeader THEN h ELSE h - 1
      n   == Most(fit, WindowLines)
  IN  IF n < 1 THEN 1 ELSE n

LastN(s, n) == SubSeq(s, Len(s) - Most(n, Len(s)) + 1, Len(s))

\* The history, the live line behind it, and blank rows.
Frame(l, hist, live, h) ==
  LET visible == VisibleLines(h)
      shown   == LastN(hist, visible - 1)
      row(i)  == CASE i <= Len(shown)                    -> StatusLine(l, shown[i], FALSE)
                   [] i = Len(shown) + 1 /\ live # 0     -> StatusLine(l, live, TRUE)
                   [] OTHER                              -> BlankLine
  IN  (IF NoHeader THEN <<>> ELSE <<Header(l)>>) \o [i \in 1..visible |-> row(i)]

\* reflowedSpan; with the rows of the fresh frame it is totalPhys.  The mutant
\* counts lines instead of physical rows.
SpanLogical(lines, w) == Len(lines)

Span(lines, w) == Len(RowsOfAll(lines, w))

FreshFits(lines, w) == \A i \in DOMAIN lines : lines[i].cells <= w

------------------------------------------------------------------------------
(* Redraw *)

\* w.layout.Resize, before every frame.
Resized(w) == [width |-> w, hostWidth |-> Layouts!HostWidth(w), retained |-> Layouts!Retained(w)]

\* observeResize: this redraw is the first one at a new width, with a block on
\* the screen.
Observed == started /\ size[1] # lastWidth

\* A reflow to the new width moves rows of the block.
Moved == Span(lastRows, size[1]) # lastPhysRows

Crossing == resizePending \/ (Observed /\ Moved)

\* The mutant repaints at once in the same band.
DeferredNever == FALSE

Deferred == ~Crossing /\ (deferPending \/ Observed)

\* resizeSettled, the clock having been restarted by this very observation; the
\* mutant waits for the width of the latest frame to come back.
IsSettledOldWidth(force) == force \/ (settled /\ size[1] = layout.width)

IsSettled(force) == force \/ (settled /\ ~Observed)

Reclaimable(rows) == FreshFits(rows, size[1]) /\ Span(lastRows, size[1]) <= size[2]

\* The redraw is held back: what is on the screen stays.
Hold ==
  /\ resizePending' = Crossing
  /\ deferPending' = Deferred
  /\ settled' = (settled /\ ~Observed)
  /\ UNCHANGED <<term, layout, started, lastPhysRows, lastRows, frozen>>

\* The cursor moves up to the top of the block, every row is written, what the
\* block no longer takes is cleared; Finalize ends with a CR LF behind the block.
\* The mutant forgets that the cursor is on one of the rows it walks back over.
PaintTooHigh(fresh, back, end) ==
  \E at \in {IF started /\ back > 1 THEN Up(fresh, back) ELSE fresh},
     stale \in {IF started THEN back - lastPhysRows' ELSE 0} :
    \E rows \in {Text(at, lastRows')} : \E drawn \in {Write(at, rows)} :
      \E clean \in {ClearBelow(drawn, stale)} :
        term' = IF end THEN NewLine(clean) ELSE clean

Paint(fresh, back, end) ==
  \E at \in {IF started /\ back > 1 THEN Up(fresh, back - 1) ELSE fresh},
     stale \in {IF started THEN back - lastPhysRows' ELSE 0} :
    \E rows \in {Text(at, lastRows')} : \E drawn \in {Write(at, rows)} :
      \E clean \in {ClearBelow(drawn, stale)} :
        term' = IF end THEN NewLine(clean) ELSE clean

Draw(hist, live, end) ==
  /\ layout' = Resized(size[1])
  /\ started' = TRUE
  /\ lastRows' = Frame(layout', hist, live, size[2])
  /\ lastPhysRows' = Span(lastRows', size[1])
  /\ resizePending' = FALSE /\ deferPending' = FALSE /\ settled' = FALSE
  /\ \/ /\ ~Crossing
        /\ Paint(term, lastPhysRows, end)
        /\ frozen' = frozen
     \/ /\ Crossing /\ Reclaimable(lastRows')
        /\ Paint(term, Span(lastRows, size[1]), end)
        /\ frozen' = frozen
     \/ /\ Crossing /\ ~Reclaimable(lastRows')
        /\ Paint(NewLine(term), 1, end)
        /\ frozen' = frozen \o lastRows

\* force: Finalize, which also ends the block.
Redraw(hist, live, force) ==
  /\ lastWidth' = size[1]
  /\ \/ (Crossing \/ Deferred) /\ ~IsSettled(force) /\ Hold
     \/ (Crossing \/ Deferred => IsSettled(force)) /\ Draw(hist, live, force)

------------------------------------------------------------------------------
(* The calls of the run loop *)

\* pushHistory: at least one line is kept.
PushHistory(k) ==
  LET keep == IF WindowLines - 1 < 1 THEN 1 ELSE WindowLines - 1
  IN  LastN(Append(history, k), keep)

\* finalizeLine; the mutant overwrites the live line.
FinalizedLost == history

Finalized == IF cur = 0 THEN history ELSE PushHistory(cur)

\* Handle of a status change: the live line becomes history and a new one begins.
StatusChange ==
  /\ ~closed /\ begun < MaxStatus
  /\ begun' = begun + 1
  /\ cur' = begun + 1
  /\ history' = Finalized
  /\ Redraw(Finalized, begun + 1, FALSE)
  /\ UNCHANGED <<size, closed, resizes>>

\* Tick, a SIGWINCH, and Handle of a probe that changes no status.
Repaint ==
  /\ ~closed /\ cur # 0
  /\ Redraw(history, cur, FALSE)
  /\ UNCHANGED <<size, history, cur, begun, closed, resizes>>

\* The live line becomes history, the block is drawn whatever the settle window,
\* and the cursor goes to a row of its own.
Finalize ==
  /\ ~closed /\ cur # 0
  /\ "finalize" \in Races \/ size = <<term.w, term.h>>
  /\ closed' = TRUE
  /\ cur' = 0
  /\ history' = PushHistory(cur)
  /\ Redraw(PushHistory(cur), 0, TRUE)
  /\ UNCHANGED <<size, begun, resizes>>

------------------------------------------------------------------------------
(* Environment.  The terminal is at rest when the first frame is drawn, and has
   reflowed to the widths the program knows of before a settle delay elapses.
   Races names what it does besides:
   "home" - a resize while the cursor is not behind its text, that is between a
   redraw that cleared rows and the next one; "finalize" - the end of the run while
   the terminal reflows; "flicker" - a width left and taken up again before the
   program saw the other.                                                        *)

Resize ==
  /\ started /\ ~closed /\ resizes < MaxResizes
  /\ \E s \in Sizes \ {size} :
       /\ "flicker" \in Races \/ s[1] = size[1] \/ s[1] # lastWidth
       /\ "home" \in Races \/ ~term.home \/ term.buf[term.cur].cells = 0
       /\ TakesSize(s)
  /\ resizes' = resizes + 1
  /\ UNCHANGED <<layout, started, lastPhysRows, lastRows, history, cur, lastWidth,
                 resizePending, deferPending, settled, begun, closed, frozen>>

Reflowed ==
  /\ size # <<term.w, term.h>>
  /\ Rewrap(size)
  /\ UNCHANGED <<size, layout, started, lastPhysRows, lastRows, history, cur, lastWidth,
                 resizePending, deferPending, settled, begun, closed, frozen, resizes>>

SettleTime ==
  /\ resizePending \/ deferPending
  /\ ~settled
  /\ term.w = size[1] \/ size[1] # lastWidth
  /\ settled' = TRUE
  /\ UNCHANGED <<size, term, layout, started, lastPhysRows, lastRows, history, cur, lastWidth,
                 resizePending, deferPending, begun, closed, frozen, resizes>>

------------------------------------------------------------------------------
Init ==
  /\ size \in Sizes
  /\ \E n \in Above : term = StartTerm(size, n)
  /\ layout = [width |-> 0, hostWidth |-> Layouts!HostNeed, retained |-> 4]
  /\ started = FALSE /\ lastPhysRows = 0 /\ lastRows = <<>>
  /\ history = <<>> /\ cur = 0 /\ begun = 0 /\ closed = FALSE
  /\ lastWidth = 0 /\ resizePending = FALSE /\ deferPending = FALSE /\ settled = FALSE
  /\ frozen = <<>> /\ resizes = 0

Done == closed /\ size = <<term.w, term.h>> /\ UNCHANGED vars

Next == StatusChange \/ Repaint \/ Finalize \/ Resize \/ Reflowed \/ SettleTime \/ Done

\* The ticker of the run loop, a terminal that reflows, and time that passes.
Fairness == WF_vars(Repaint) /\ WF_vars(Reflowed) /\ WF_vars(SettleTime)

Spec == Init /\ [][Next]_vars /\ Fairness

------------------------------------------------------------------------------
(* Properties *)

\* The rows of the screen from before the program.
UserCount ==
  LET lines == Logical(term) IN Cardinality({i \in DOMAIN lines : lines[i].tag[1] = "user"})

\* window.go: "Content above and below the window block is left exactly as it was."
\* Above the block there are the rows from before the program, whole, and the frames
\* that restarts left behind, whole, and nothing else.
AboveUntouched ==
  \E n \in Above :
    LET before == UserLines(n) \o frozen
        now    == Logical(term)
    IN  /\ UserCount = n
        /\ Len(before) <= Len(now) /\ SubSeq(now, 1, Len(before)) = before

\* Every redraw "rewrites the block in place ... so stale characters never
\* survive": below that there is one copy of the block, each of its rows as last
\* rendered, the cursor on the last of them.  Where a redraw may walk back over it,
\* it takes the rows that the program believes it takes, and all are on the screen.
BlockInPlace ==
  started =>
    LET now   == Logical(term)
        block == IF closed THEN lastRows \o <<BlankLine>> ELSE lastRows
    IN  /\ LastN(now, Len(block)) = block
        /\ Len(now) = UserCount + Len(frozen) + Len(block)
        /\ CursorLine(term) = Len(now)
        /\ term.cur \in (term.top + 1)..(term.top + term.h)
        /\ ~closed /\ ~resizePending /\ size = <<term.w, term.h>> /\ size[1] = lastWidth =>
             /\ Span(lastRows, term.w) = lastPhysRows
             /\ term.cur - lastPhysRows >= term.top

\* Outside of the settle window the block shows the latest statuses in order, as many
\* as it has rows for, the live one last; and the last one also after the end.
ShowsLatest ==
  started /\ ~resizePending /\ ~deferPending =>
    LET header == IF NoHeader THEN 0 ELSE 1
        room   == Len(lastRows) - header
        row(i) == lastRows[header + i].tag
    IN  \E n \in 1..begun :
          /\ n <= room
          /\ n < begun => n >= room - (IF closed THEN 1 ELSE 0)
          /\ \A i \in 1..n :
               row(i) = <<IF i = n /\ ~closed THEN "live" ELSE "line", begun - n + i>>
          /\ \A i \in (n + 1)..room : row(i) = BlankLine.tag

\* window.go: "no event-timed redraw lands mid-reflow": between a change of width and
\* the terminal's reflow the program writes nothing, except at its end.
NoWriteMidReflow ==
  [][started /\ term.w # size[1] /\ size' = size /\ term' # term
       => closed' \/ term'.w = size[1]]_vars

\* A redraw that is held back is made up for.
Settles == (resizePending \/ deferPending) ~> ~(resizePending \/ deferPending)

==============================================================================
