------------------------------- MODULE Terminal -------------------------------
(***************************************************************************)
(* A terminal that reflows, as far as the displays of internal/output use    *)
(* one.  It is a record of its geometry (w columns, h rows), the rows ever   *)
(* written that are not blank to the end (buf, the scrollback included), how *)
(* many of them are above the screen (top), the row of the cursor in buf     *)
(* (cur) and whether the cursor is in column 0 (home) or behind the text of  *)
(* its row.  The glyphs of a row are a tag: whose line it is.                *)
(***************************************************************************)
EXTENDS Integers, Sequences, SequencesExt

Larger(a, b) == IF a > b THEN a ELSE b
Smaller(a, b) == IF a < b THEN a ELSE b

\* A line as a program writes it, and a row of the terminal; soft: the line goes
\* on in the next row.
TextLine(tag, cells) == [tag |-> tag, cells |-> cells]
Row(tag, cells, soft) == [tag |-> tag, cells |-> cells, soft |-> soft]

BlankLine == TextLine(<<"blank", 0>>, 0)
BlankRow == Row(<<"blank", 0>>, 0, FALSE)

\* Text of two lines in one.
Torn == <<"torn", 0>>

\* physicalRows: how many rows a line takes.
PhysicalRows(cells, w) == IF cells <= w THEN 1 ELSE (cells + w - 1) \div w

RowsOf(line, w) ==
  LET n == PhysicalRows(line.cells, w)
  IN  [i \in 1..n |-> Row(line.tag,
                          IF i < n THEN w ELSE line.cells - (n - 1) * w,
                          i < n)]

RowsOfAll(lines, w) == FlattenSeq([i \in DOMAIN lines |-> RowsOf(lines[i], w)])

\* The same lines with everything below the cursor that is blank forgotten.
Trimmed(buf, cur) ==
  LET used == {i \in DOMAIN buf : i <= cur \/ buf[i].cells > 0}
  IN  SubSeq(buf, 1, Max(used))

Bottom(t) == t.top + t.h

------------------------------------------------------------------------------
(* What a program writes. *)

\* CR LF, at the bottom the screen scrolls.
NewLine(t) ==
  [t EXCEPT !.cur = t.cur + 1,
            !.top = Larger(t.top, t.cur + 1 - t.h),
            !.buf = IF t.cur = Len(t.buf) THEN Append(t.buf, BlankRow) ELSE t.buf,
            !.home = TRUE]

\* Cursor up n rows, no further than the top of the screen, then CR.
Up(t, n) == [t EXCEPT !.cur = Larger(t.cur - n, t.top + 1), !.home = TRUE]

\* The rows of lines written one below the other from where the cursor is: where
\* it is not in column 0 the first line continues the text before it.
Text(t, lines) ==
  RowsOfAll(IF t.home THEN lines
            ELSE <<TextLine(Torn, t.buf[t.cur].cells + Head(lines).cells)>> \o Tail(lines),
            t.w)

\* Those rows, each cleared to its end.
Write(t, rows) ==
  LET end == t.cur + Len(rows) - 1
  IN  [t EXCEPT !.buf = Trimmed(SubSeq(t.buf, 1, t.cur - 1) \o rows
                                  \o SubSeq(t.buf, end + 1, Len(t.buf)), end),
                !.cur = end,
                !.top = Larger(t.top, end - t.h),
                !.home = rows[Len(rows)].cells = 0]

\* n times: down one row, no further than the bottom, CR, clear the row; then
\* up n rows.
ClearBelow(t, n) ==
  IF n <= 0 THEN t
  ELSE LET cleared == {Smaller(t.cur + i, Bottom(t)) : i \in 1..n}
           buf     == [i \in DOMAIN t.buf |-> IF i \in cleared THEN BlankRow ELSE t.buf[i]]
           cur     == Larger(Smaller(t.cur + n, Bottom(t)) - n, t.top + 1)
       IN  [t EXCEPT !.buf = Trimmed(SubSeq(buf, 1, Len(buf)), cur), !.cur = cur, !.home = TRUE]

------------------------------------------------------------------------------
(* What the terminal does to the rows when it is resized. *)

\* The line that row i belongs to: a row behind a soft one goes on with its line.
LineNo(buf, i) == Cardinality({j \in 1..i : j = 1 \/ ~buf[j - 1].soft})

\* The rows that begin a line.
Starts(buf) ==
  [k \in 1..LineNo(buf, Len(buf)) |-> 1 + Cardinality({i \in DOMAIN buf : LineNo(buf, i) < k})]

EndOf(buf, i) ==
  CHOOSE j \in i..Len(buf) : /\ j = Len(buf) \/ ~buf[j].soft
                             /\ \A k \in i..(j - 1) : buf[k].soft

LineAt(t, i) ==
  LET j == EndOf(t.buf, i)
  IN  TextLine(IF \A k \in i..j : t.buf[k].tag = t.buf[i].tag THEN t.buf[i].tag ELSE Torn,
               (j - i) * t.w + t.buf[j].cells)

\* The lines the rows are wrapped from.
LinesAt(t, starts) == [k \in DOMAIN starts |-> LineAt(t, starts[k])]

Logical(t) == LinesAt(t, Starts(t.buf))

\* The line the cursor is in.
CursorLine(t) == LineNo(t.buf, t.cur)

\* The row of its line that the cursor is in, counted from 0, at width w: it stays
\* where it is in the text of the line, which begins in row start.
RowWithin(t, start, w) ==
  IF t.home THEN ((t.cur - start) * t.w) \div w
  ELSE PhysicalRows((t.cur - start) * t.w + t.buf[t.cur].cells, w) - 1

\* The lines, the n-th of which is that of the cursor and begins in row start, are
\* wrapped anew; the screen shows as many rows above the cursor as fit.
Rewrapped(t, lines, n, start, w, h) ==
  LET cur == Len(RowsOfAll(SubSeq(lines, 1, n - 1), w)) + RowWithin(t, start, w) + 1
  IN  [w |-> w, h |-> h, buf |-> RowsOfAll(lines, w), cur |-> cur,
       top |-> Larger(0, cur - h), home |-> t.home]

==============================================================================
