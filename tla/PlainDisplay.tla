----------------------------- MODULE PlainDisplay -----------------------------
(***************************************************************************)
(* The plain line display (internal/output/display.go) on a terminal that    *)
(* reflows: finished lines stay where they are and scroll away, and in live  *)
(* mode the line of the current status is rewritten in place below them.     *)
(* Columns keep the widths of the start, so that a line may wrap.  When the  *)
(* width changes the display leaves the live line as it is and begins a new  *)
(* one below it, once the width is stable or a line must be finished; where  *)
(* the old one is known to take a single row, that row is reduced to a dash. *)
(* Without live mode a line is printed when it is finished; a quiet display  *)
(* prints nothing.  Names that Window has as well begin with Plain.          *)
(***************************************************************************)
EXTENDS Display

VARIABLES mode,           \* "live", "lines" without d.live, "quiet"
          kept            \* what the program has left behind above the live line

plainVars == <<mode, size, term, cur, lastPhysRows, lastWidth, resizePending, settled, begun,
               closed, kept, resizes>>

\* The layout of the start, which plain mode keeps: all columns, HOST as wide as
\* its host of 30 runes.
FullLayout == INSTANCE Layout WITH
  TimeWidth <- 8, HostLen <- 30, MaxWidth <- 200,
  width <- 0, hostWidth <- 30, retained <- 4

------------------------------------------------------------------------------
(* Lines *)

Cells(k, live) ==
  FullLayout!LineCells(FullLayout!HostNeed, 4, Status(k), live, Duration, Value(k))

Live(k) == TextLine(<<"live", k>>, Cells(k, TRUE))
Final(k) == TextLine(<<"line", k>>, Cells(k, FALSE))
HeaderLine == TextLine(<<"header", 0>>, FullLayout!HeaderCells(FullLayout!HostNeed, 4))
Mark == TextLine(<<"mark", 0>>, 1)

OneRow(line) == PhysicalRows(line.cells, size[1]) = 1

------------------------------------------------------------------------------
(* Writing *)

\* resizeNote: this write sees a new width.
NewWidth == lastWidth # 0 /\ size[1] # lastWidth

Pending == resizePending \/ NewWidth

\* resizeMarkAbove: the line before took one row and the next one takes one.
Marked(line) == lastPhysRows = 1 /\ OneRow(line)

\* The row above the cursor's becomes a dash, on a terminal of one row its own.
MarkAbove(t) == [t EXCEPT !.buf[Up(t, 1).cur] = Row(Mark.tag, Mark.cells, FALSE)]

\* resizeRestart, and the mark.
Restarted(t, line) ==
  IF Marked(line) THEN MarkAbove(NewLine(t)) ELSE NewLine(t)

\* What a restart leaves above.
Left(line) == <<IF Marked(line) THEN Mark ELSE Live(cur)>>

\* The rows a line takes; the mutant counts every line as one row.
PhysLogical(line) == 1

Phys(line) == PhysicalRows(line.cells, size[1])

\* A line in place of one that takes phys rows, the cursor on the last of them, and
\* the lines below it.
PaintLine(t, line, phys, below) ==
  \E up \in {Up(t, IF phys > 1 THEN phys - 1 ELSE 0)} :
    \E drawn \in {Write(up, Text(up, <<line>>))} :
      \E clean \in {ClearBelow(drawn, phys - Phys(line))} :
        term' = IF below = <<>> THEN clean
                ELSE Write(NewLine(clean), Text(NewLine(clean), below))

\* The live line is replaced, or left behind if the width has changed; finished are
\* the lines that then stand above the live one.
Replace(line, below, finished) ==
  \/ /\ Pending
     /\ \E t \in {Restarted(term, line)} : PaintLine(t, line, 1, below)
     /\ kept' = kept \o Left(line) \o finished
  \/ /\ ~Pending
     /\ PaintLine(term, line, lastPhysRows, below)
     /\ kept' = kept \o finished

------------------------------------------------------------------------------
(* The calls of the run loop, in live mode *)

Headers == IF NoHeader THEN <<>> ELSE <<HeaderLine>>

\* Handle of the first event: the header, then the live line.
FirstStatus ==
  /\ mode = "live" /\ ~closed /\ begun = 0
  /\ term' = Write(term, Text(term, Headers \o <<Live(1)>>))
  /\ kept' = kept \o Headers
  /\ begun' = 1 /\ cur' = 1
  /\ lastPhysRows' = Phys(Live(1))
  /\ lastWidth' = size[1]
  /\ UNCHANGED <<mode, size, resizePending, settled, closed, resizes>>

\* Handle of a status change: finalizeLine, and a new live line below.
PlainStatusChange ==
  /\ mode = "live" /\ ~closed /\ cur # 0 /\ begun < MaxStatus
  /\ "change" \in Races \/ size = <<term.w, term.h>>
  /\ Replace(Final(cur), <<Live(begun + 1)>>, <<Final(cur)>>)
  /\ begun' = begun + 1 /\ cur' = begun + 1
  /\ lastPhysRows' = Phys(Live(begun + 1))
  /\ lastWidth' = size[1]
  /\ resizePending' = FALSE /\ settled' = FALSE
  /\ UNCHANGED <<mode, size, closed, resizes>>

\* Finalize: the live line is finished whatever the settle window.
PlainFinalize ==
  /\ mode = "live" /\ ~closed /\ cur # 0
  /\ "change" \in Races \/ size = <<term.w, term.h>>
  /\ Replace(Final(cur), <<BlankLine>>, <<Final(cur)>>)
  /\ closed' = TRUE /\ cur' = 0
  /\ lastPhysRows' = 1
  /\ lastWidth' = size[1]
  /\ resizePending' = FALSE /\ settled' = FALSE
  /\ UNCHANGED <<mode, size, begun, resizes>>

\* The settle delay has passed since a redraw first saw the width; in the mutant
\* every redraw restarts the clock.
PlainSettledRestarted == FALSE

PlainSettled == settled /\ ~NewWidth

\* In-place writes are frozen.
Holds == Pending /\ ~PlainSettled

\* Tick, a SIGWINCH, and Handle of a probe that changes no status: writeLive.
PlainRepaint ==
  /\ mode = "live" /\ ~closed /\ cur # 0
  /\ lastWidth' = size[1]
  /\ \/ /\ Holds
        /\ resizePending' = TRUE /\ settled' = PlainSettled
        /\ UNCHANGED <<term, lastPhysRows, kept>>
     \/ /\ ~Holds
        /\ Replace(Live(cur), <<>>, <<>>)
        /\ lastPhysRows' = Phys(Live(cur))
        /\ resizePending' = FALSE /\ settled' = FALSE
  /\ UNCHANGED <<mode, size, cur, begun, closed, resizes>>

------------------------------------------------------------------------------
(* The same calls without live mode *)

\* A line and its line feed, which on a raw terminal keeps the column.
LineFeed(line) ==
  IF "raw" \in Races
  THEN TextLine(BlankLine.tag, Last(RowsOf(line, term.w)).cells) ELSE BlankLine

Put(lines) ==
  /\ kept' = kept \o lines
  /\ term' = IF lines = <<>> THEN term
             ELSE Write(term, Text(term, lines \o <<LineFeed(Last(lines))>>))

\* The first event prints the header, a status change the line of the status that
\* has ended, the end that of the last one; ticks and probes print nothing.
LinesFirst ==
  /\ mode = "lines" /\ ~closed /\ begun = 0
  /\ Put(Headers)
  /\ begun' = 1 /\ cur' = 1
  /\ UNCHANGED <<mode, size, lastPhysRows, lastWidth, resizePending, settled, closed, resizes>>

LinesChange ==
  /\ mode = "lines" /\ ~closed /\ cur # 0 /\ begun < MaxStatus
  /\ Put(<<Final(cur)>>)
  /\ begun' = begun + 1 /\ cur' = begun + 1
  /\ UNCHANGED <<mode, size, lastPhysRows, lastWidth, resizePending, settled, closed, resizes>>

LinesFinalize ==
  /\ mode = "lines" /\ ~closed /\ cur # 0
  /\ Put(<<Final(cur)>>)
  /\ closed' = TRUE /\ cur' = 0
  /\ UNCHANGED <<mode, size, lastPhysRows, lastWidth, resizePending, settled, begun, resizes>>

\* A quiet display returns from every call.
Quiet ==
  /\ mode = "quiet" /\ ~closed
  /\ \/ begun < MaxStatus /\ begun' = begun + 1 /\ UNCHANGED closed
     \/ closed' = TRUE /\ UNCHANGED begun
  /\ UNCHANGED <<mode, size, term, cur, lastPhysRows, lastWidth, resizePending, settled, kept,
                 resizes>>

------------------------------------------------------------------------------
(* Environment.  A terminal has reflowed to the widths the program knows of
   before a settle delay elapses.  Races names what it does besides: "change" - a
   status change or the end of the run while the terminal reflows; "flicker" - a
   width left and taken up again before the program saw the other; "straddle" - a
   width at which the live line takes more rows than its finished form; "raw" -
   the key reader has made the terminal raw, and nothing turns LF into CR LF.    *)

PlainResize ==
  /\ ~closed /\ (cur # 0 \/ mode = "quiet") /\ resizes < MaxResizes
  /\ \E s \in Sizes \ {size} :
       /\ "flicker" \in Races \/ s[1] = size[1] \/ s[1] # lastWidth
       /\ "straddle" \in Races \/
            cur = 0 \/
            PhysicalRows(Live(cur).cells, s[1]) = PhysicalRows(Final(cur).cells, s[1])
       /\ TakesSize(s)
  /\ resizes' = resizes + 1
  /\ UNCHANGED <<mode, cur, lastPhysRows, lastWidth, resizePending, settled, begun, closed,
                 kept>>

PlainReflowed ==
  /\ size # <<term.w, term.h>>
  /\ Rewrap(size)
  /\ UNCHANGED <<mode, size, cur, lastPhysRows, lastWidth, resizePending, settled, begun, closed,
                 kept, resizes>>

PlainSettleTime ==
  /\ resizePending /\ ~settled
  /\ term.w = size[1] \/ size[1] # lastWidth
  /\ settled' = TRUE
  /\ UNCHANGED <<mode, size, term, cur, lastPhysRows, lastWidth, resizePending, begun, closed, kept,
                 resizes>>

------------------------------------------------------------------------------
PlainInit ==
  /\ mode \in {"live", "lines", "quiet"}
  /\ size \in Sizes
  /\ \E n \in Above : kept = UserLines(n) /\ term = StartTerm(size, n)
  /\ cur = 0 /\ lastPhysRows = 0 /\ lastWidth = 0
  /\ resizePending = FALSE /\ settled = FALSE
  /\ begun = 0 /\ closed = FALSE /\ resizes = 0

PlainDone == closed /\ size = <<term.w, term.h>> /\ UNCHANGED plainVars

PlainNext ==
  \/ FirstStatus \/ PlainStatusChange \/ PlainRepaint \/ PlainFinalize
  \/ LinesFirst \/ LinesChange \/ LinesFinalize \/ Quiet
  \/ PlainResize \/ PlainReflowed \/ PlainSettleTime \/ PlainDone

\* The ticker of the run loop while a line is held back, a terminal that reflows, and
\* time that passes.
PlainFairness ==
  /\ WF_plainVars(resizePending /\ PlainRepaint)
  /\ WF_plainVars(PlainReflowed) /\ WF_plainVars(PlainSettleTime)

PlainSpec == PlainInit /\ [][PlainNext]_plainVars /\ PlainFairness

------------------------------------------------------------------------------
(* Properties *)

\* display.go: the display "walks back to the true start before rewriting, and clears
\* rows the line no longer uses", and a restart leaves the old rendering "in
\* scrollback as history".  Above the live line the terminal holds exactly what was
\* there before the program, the header, one line per finished status and one frozen
\* line or dash per restart, in order and none overwritten; the cursor is behind
\* them, on the screen.  A display that prints only finished lines, whatever the
\* size, leaves these and nothing else, and a quiet one nothing.
ScreenExact ==
  LET last == IF mode = "live" /\ cur # 0 THEN Live(cur) ELSE BlankLine
  IN  /\ Logical(term) = kept \o <<last>>
      /\ CursorLine(term) = Len(kept) + 1
      /\ term.cur \in (term.top + 1)..(term.top + term.h)
      /\ mode = "lines" => Len(kept) \in {n + (IF begun = 0 THEN 0 ELSE Len(Headers) + begun)
                                              - (IF cur = 0 THEN 0 ELSE 1) : n \in Above}
      /\ mode = "quiet" => Len(kept) \in Above

\* A live line that is held back is taken up again.
PlainSettles == resizePending ~> ~resizePending
==============================================================================
