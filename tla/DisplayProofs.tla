---------------------------- MODULE DisplayProofs ----------------------------
(***************************************************************************)
(* Proofs about the two displays of internal/output on a terminal that       *)
(* reflows, for every number of lines, every set of sizes and any number of  *)
(* statuses, redraws and resizes.                                           *)
(*                                                                         *)
(*  - The terminal: rows that were written for lines are read as these lines  *)
(*    again, however often they are wrapped anew; and what a write puts in   *)
(*    the place of the last lines of a terminal leaves those above as they   *)
(*    are (Displays, DisplaysLogical, OverShows, RewrappedShows).            *)
(*  - The window: nothing is written while the terminal reflows; what is     *)
(*    drawn is up to date; and the terminal shows the lines from before the   *)
(*    program, what restarts left and the block, in this order and nothing   *)
(*    else (HoldInv, ShownInv, BlockInv).                                    *)
(*  - The plain display, on the same terminal: it shows what the display has  *)
(*    left behind and the live line below (PlainInv).                        *)
(***************************************************************************)
EXTENDS Window, PlainDisplay, FiniteSetTheorems, SequenceTheorems, TLAPS

------------------------------------------------------------------------------
(* Numbers *)

\* A set of numbers that is not empty has a least one: the induction of the proofs below.
LEMMA LeastOf ==
  ASSUME NEW T \in SUBSET Nat, T # {}
  PROVE  \E x \in T : \A y \in T : x <= y
<1> DEFINE R == {ss \in Nat \X Nat : ss[1] < ss[2]}
<1>1. IsWellFoundedOn(R, Nat)
  BY NatLessThanWellFounded DEF OpToRel
<1> HIDE DEF R
<1>2. PICK x \in T : \A y \in T : ~ (<<y, x>> \in R)
  BY <1>1, WFMin
<1>3. ASSUME NEW y \in T
      PROVE  x <= y
  <2>1. x \in Nat /\ y \in Nat /\ <<y, x>> \in Nat \X Nat /\ <<y, x>>[1] = y /\ <<y, x>>[2] = x
    OBVIOUS
  <2>2. ~ (y < x)
    BY <1>2, <2>1 DEF R
  <2>3. QED
    BY <2>1, <2>2
<1>4. QED
  BY <1>3

\* A set with m that holds k + 1 with k, below n, holds all from m to n.
LEMMA UpTo ==
  ASSUME NEW m \in Nat, NEW n \in Nat, NEW S, m \in S,
         \A k \in m..(n - 1) : k \in S => k + 1 \in S
  PROVE  \A k \in m..n : k \in S
<1>1. SUFFICES ASSUME {k \in m..n : k \notin S} # {}
               PROVE  FALSE
  OBVIOUS
<1>2. {k \in m..n : k \notin S} \in SUBSET Nat
  OBVIOUS
<1>3. PICK x \in {k \in m..n : k \notin S} : \A y \in {k \in m..n : k \notin S} : x <= y
  BY <1>1, <1>2, LeastOf
<1>4. x \in m..n /\ x # m /\ x - 1 \in m..(n - 1) /\ x - 1 \in m..n /\ ~(x <= x - 1) /\ x - 1 + 1 = x
  BY <1>3
<1>5. x - 1 \in S
  BY <1>3, <1>4
<1>6. QED
  BY <1>3, <1>4, <1>5

------------------------------------------------------------------------------
(* The terminal: rows and lines *)

\* The glyphs of a line of a program, and what they may be on the terminal.
Tags == {"blank", "user", "header", "live", "line", "mark"} \X Int

Lines == [tag : Tags, cells : Nat]

Rows == [tag : Tags, cells : Int, soft : BOOLEAN]

Widths == Nat \ {0}

\* Whether a row goes on in the next one.
LEMMA RowSoft ==
  ASSUME NEW r, NEW tag, NEW cells, NEW soft, r = Row(tag, cells, soft)
  PROVE  r.soft = soft
BY DEF Row

\* Division, as far as it is needed.
LEMMA Quotient ==
  ASSUME NEW a \in Nat, NEW w \in Widths
  PROVE  /\ a \div w \in Nat
         /\ w * (a \div w) <= a
         /\ a < w * (a \div w) + w
BY DEF Widths

\* A line takes at least one row, and a line with text ends with text in its last row.
LEMMA PhysicalRowsIs ==
  ASSUME NEW c \in Nat, NEW w \in Widths
  PROVE  /\ PhysicalRows(c, w) \in Nat /\ PhysicalRows(c, w) >= 1
         /\ c = 0 => PhysicalRows(c, w) = 1
         /\ c > 0 => c - (PhysicalRows(c, w) - 1) * w > 0
<1>1. CASE c <= w
  BY <1>1 DEF PhysicalRows, Widths
<1>2. CASE ~(c <= w)
  <2> DEFINE q == (c + w - 1) \div w
  <2>1. PhysicalRows(c, w) = q
    BY <1>2 DEF PhysicalRows
  <2>2. /\ c + w - 1 \in Nat /\ w \in Nat /\ w > 0 /\ c > w
        /\ c + w - 1 >= w
    BY <1>2 DEF Widths
  <2>3. q \in Nat /\ w * q <= c + w - 1 /\ c + w - 1 < w * q + w
    BY <2>2, Quotient
  <2> HIDE DEF q
  <2>4. q # 0
    BY <2>2, <2>3
  <2>5. (q - 1) * w = w * q - w
    BY <2>2, <2>3
  <2>6. w * q \in Int
    BY <2>2, <2>3
  <2>7. c - (w * q - w) > 0
    BY <2>2, <2>3, <2>6
  <2>8. QED
    BY <2>1, <2>2, <2>3, <2>4, <2>5, <2>7
<1>3. QED
  BY <1>1, <1>2 DEF Widths

\* The rows of one line: all but the last are full and go on.
LEMMA RowsOfIs ==
  ASSUME NEW l \in Lines, NEW w \in Widths
  PROVE  /\ RowsOf(l, w) \in Seq(Rows)
         /\ Len(RowsOf(l, w)) = PhysicalRows(l.cells, w)
         /\ \A i \in 1..PhysicalRows(l.cells, w) :
              LET n == PhysicalRows(l.cells, w)
              IN  RowsOf(l, w)[i] = Row(l.tag, IF i < n THEN w ELSE l.cells - (n - 1) * w, i < n)
<1> DEFINE n == PhysicalRows(l.cells, w)
           cells(i) == IF i < n THEN w ELSE l.cells - (n - 1) * w
<1>1. n \in Nat /\ l.cells \in Nat /\ l.tag \in Tags /\ w \in Int
  BY PhysicalRowsIs DEF Lines, Widths
<1>2. RowsOf(l, w) = [i \in 1..n |-> Row(l.tag, cells(i), i < n)]
  BY DEF RowsOf
<1> HIDE DEF n
<1>3. (n - 1) * w \in Int
  BY <1>1
<1>4. \A i \in 1..n : cells(i) \in Int
  BY <1>1, <1>3
<1>5. \A i \in 1..n : Row(l.tag, cells(i), i < n) \in Rows
  BY <1>1, <1>4 DEF Row, Rows
<1>6. RowsOf(l, w) \in Seq(Rows) /\ Len(RowsOf(l, w)) = n
  BY <1>1, <1>2, <1>5
<1>7. \A i \in 1..n : RowsOf(l, w)[i] = Row(l.tag, cells(i), i < n)
  BY <1>2
<1>8. QED
  BY <1>6, <1>7 DEF n

\* FlattenSeq reads its sequences one after the other.
Flattens(f, seqs) ==
  f = [i \in 1..Len(seqs) |-> IF i = 1 THEN seqs[i] ELSE f[i - 1] \o seqs[i]]

\* FlattenSeq has such a reading.
LEMMA FlattenReads ==
  ASSUME NEW seqs, Len(seqs) \in Nat, Len(seqs) # 0
  PROVE  \E f : Flattens(f, seqs) /\ FlattenSeq(seqs) = f[Len(seqs)]
<1> DEFINE L == Len(seqs)
           Upto(n, s) == s = [i \in 1..n |-> IF i = 1 THEN seqs[i] ELSE s[i - 1] \o seqs[i]]
           S == {n \in 0..L : \E s : Upto(n, s)}
<1>1. L \in Nat
  OBVIOUS
<1>2. 0 \in S
  <2>1. Upto(0, [i \in 1..0 |-> seqs[i]])
    OBVIOUS
  <2> HIDE DEF Upto
  <2>2. QED
    BY <1>1, <2>1
<1>3. ASSUME NEW n \in 0..(L - 1), n \in S
      PROVE  n + 1 \in S
  <2>1. PICK s : Upto(n, s)
    BY <1>3
  <2> DEFINE t == [i \in 1..(n + 1) |-> IF i = 1 THEN seqs[i] ELSE s[i - 1] \o seqs[i]]
  <2>2. \A i \in 1..n : t[i] = s[i]
    <3>1. \A i \in 1..n : s[i] = IF i = 1 THEN seqs[i] ELSE s[i - 1] \o seqs[i]
      BY <2>1
    <3>2. \A i \in 1..n : i \in 1..(n + 1)
      BY <1>1
    <3>3. \A i \in 1..n : t[i] = IF i = 1 THEN seqs[i] ELSE s[i - 1] \o seqs[i]
      BY <3>2
    <3>4. QED
      BY <3>1, <3>3
  <2>3. t = [i \in 1..(n + 1) |-> IF i = 1 THEN seqs[i] ELSE t[i - 1] \o seqs[i]]
    <3>1. \A i \in 1..(n + 1) : i # 1 => i - 1 \in 1..n
      BY <1>1
    <3>2. \A i \in 1..(n + 1) : i # 1 => t[i - 1] = s[i - 1]
      <4> HIDE DEF t
      <4>1. QED
        BY <2>2, <3>1
    <3>3. QED
      BY <3>2
  <2>4. Upto(n + 1, t)
    BY <2>3
  <2> HIDE DEF Upto, t
  <2>5. QED
    BY <1>1, <2>4
<1>4. L \in S
  <2> HIDE DEF S
  <2>1. \A k \in 0..L : k \in S
    BY <1>1, <1>2, <1>3, UpTo
  <2>2. QED
    BY <1>1, <2>1
<1>5. \E f : Flattens(f, seqs)
  BY <1>4 DEF Flattens
<1>6. Flattens(CHOOSE f : Flattens(f, seqs), seqs)
  BY <1>5
<1>7. FlattenSeq(seqs) = (CHOOSE f : Flattens(f, seqs))[Len(seqs)]
  BY DEF FlattenSeq, Flattens
<1>8. QED
  BY <1>6, <1>7

\* The rows of the first k lines, for every k.
Wrapped(L, w, s) ==
  /\ s[0] = <<>>
  /\ \A k \in 1..Len(L) : s[k] = s[k - 1] \o RowsOf(L[k], w)
  /\ \A k \in 0..Len(L) : s[k] \in Seq(Rows)
  /\ RowsOfAll(L, w) = s[Len(L)]

\* The rows of lines, one line after the other.
LEMMA RowsOfAllReads ==
  ASSUME NEW L \in Seq(Lines), NEW w \in Widths
  PROVE  \E s : Wrapped(L, w, s)
<1> DEFINE N == Len(L)
           seqs == [i \in DOMAIN L |-> RowsOf(L[i], w)]
<1>1. N \in Nat /\ DOMAIN L = 1..N /\ \A i \in 1..N : L[i] \in Lines
  OBVIOUS
<1>2. /\ DOMAIN seqs = 1..N /\ Len(seqs) = N
      /\ \A i \in 1..N : seqs[i] = RowsOf(L[i], w) /\ seqs[i] \in Seq(Rows)
  BY <1>1, RowsOfIs
<1>3. RowsOfAll(L, w) = FlattenSeq(seqs)
  BY DEF RowsOfAll
<1> HIDE DEF seqs, N
<1>4. CASE N = 0
  <2> DEFINE s == [k \in 0..0 |-> <<>>]
  <2>1. seqs = <<>>
    BY <1>2, <1>4
  <2>2. FlattenSeq(seqs) = <<>>
    BY <1>2, <1>4, <2>1 DEF FlattenSeq
  <2>3. s[0] = <<>> /\ <<>> \in Seq(Rows)
    BY EmptySeq
  <2> HIDE DEF s
  <2>4. /\ \A k \in 1..N : s[k] = s[k - 1] \o RowsOf(L[k], w)
        /\ \A k \in 0..N : s[k] \in Seq(Rows)
        /\ RowsOfAll(L, w) = s[N]
    <3>1. 1..N = {} /\ 0..N = {0}
      BY <1>4
    <3>2. s[0] \in Seq(Rows)
      BY <2>3
    <3>3. RowsOfAll(L, w) = s[0]
      BY <1>3, <2>2, <2>3
    <3>4. QED
      BY <1>4, <3>1, <3>2, <3>3
  <2>5. QED
    BY <2>3, <2>4 DEF Wrapped, N
<1>5. CASE N # 0
  <2>1. PICK f : Flattens(f, seqs) /\ FlattenSeq(seqs) = f[N]
    BY <1>1, <1>2, <1>5, FlattenReads
  <2> DEFINE s == [k \in 0..N |-> IF k = 0 THEN <<>> ELSE f[k]]
  <2>2. \A i \in 1..N : f[i] = IF i = 1 THEN seqs[i] ELSE f[i - 1] \o seqs[i]
    BY <1>2, <2>1 DEF Flattens
  <2>3. s[0] = <<>> /\ \A k \in 1..N : s[k] = f[k]
    BY <1>1
  <2>4. ASSUME NEW k \in 1..N
        PROVE  s[k] = s[k - 1] \o seqs[k]
    <3>1. CASE k = 1
      <4>1. s[1] = seqs[1] /\ s[0] = <<>> /\ seqs[1] \in Seq(Rows)
        BY <1>2, <2>2, <2>3, <3>1
      <4> HIDE DEF s
      <4>2. <<>> \o seqs[1] = seqs[1]
        BY <4>1
      <4>3. s[1] = s[0] \o seqs[1] /\ k - 1 = 0
        BY <3>1, <4>1, <4>2
      <4>4. QED
        BY <3>1, <4>3
    <3>2. CASE k # 1
      <4>1. k - 1 \in 1..N
        BY <1>1, <3>2
      <4>2. s[k] = f[k - 1] \o seqs[k] /\ s[k - 1] = f[k - 1]
        BY <2>2, <2>3, <3>2, <4>1
      <4>3. QED
        BY <4>2
    <3>3. QED
      BY <3>1, <3>2
  <2> HIDE DEF s
  <2> DEFINE S == {k \in 0..N : s[k] \in Seq(Rows)}
  <2>5. 0 \in S
    <3>1. s[0] \in Seq(Rows) /\ 0 \in 0..N
      BY <1>1, <2>3, EmptySeq
    <3>2. QED
      BY <3>1
  <2>6. ASSUME NEW k \in 0..(N - 1), k \in S
        PROVE  k + 1 \in S
    <3>1. k + 1 \in 1..N /\ k + 1 - 1 = k /\ k + 1 \in 0..N
      BY <1>1
    <3>2. s[k] \in Seq(Rows)
      BY <2>6
    <3>3. s[k + 1] = s[k] \o seqs[k + 1]
      <4>1. \A m \in 1..N, p \in 0..(N - 1) : m = p + 1 => s[m] = s[p] \o seqs[m]
        <5>1. \A m \in 1..N : s[m] = s[m - 1] \o seqs[m]
          BY <2>4
        <5>2. \A m \in 1..N, p \in 0..(N - 1) : m = p + 1 => m - 1 = p
          BY <1>1
        <5>3. QED
          BY <5>1, <5>2
      <4>2. QED
        BY <3>1, <4>1
    <3>4. seqs[k + 1] \in Seq(Rows)
      BY <1>2, <3>1
    <3>5. s[k + 1] \in Seq(Rows)
      BY <3>2, <3>3, <3>4, ConcatProperties
    <3>6. QED
      BY <3>1, <3>5
  <2>7. \A k \in 0..N : k \in S
    <3> HIDE DEF S
    <3>1. QED
      BY <1>1, <2>5, <2>6, UpTo
  <2>8. \A k \in 1..N : s[k] = s[k - 1] \o RowsOf(L[k], w)
    BY <1>2, <2>4
  <2>9. RowsOfAll(L, w) = s[N]
    BY <1>1, <1>3, <1>5, <2>1, <2>3
  <2>10. Wrapped(L, w, s)
    BY <2>3, <2>7, <2>8, <2>9 DEF Wrapped, N
  <2>11. QED
    BY <2>10
<1>6. QED
  BY <1>4, <1>5

\* One more line.
LEMMA WrappedStep ==
  ASSUME NEW L \in Seq(Lines), NEW w \in Widths, NEW s, Wrapped(L, w, s), NEW k \in 0..(Len(L) - 1)
  PROVE  /\ k + 1 \in 1..Len(L) /\ L[k + 1] \in Lines
         /\ s[k + 1] = s[k] \o RowsOf(L[k + 1], w)
         /\ s[k] \in Seq(Rows) /\ s[k + 1] \in Seq(Rows)
<1>1. Len(L) \in Nat
  OBVIOUS
<1>2. k + 1 \in 1..Len(L) /\ k + 1 \in 0..Len(L) /\ k \in 0..Len(L)
  BY <1>1
<1>3. \A m \in 1..Len(L), p \in 0..(Len(L) - 1) : m = p + 1 => s[m] = s[p] \o RowsOf(L[m], w)
  <2>1. \A m \in 1..Len(L) : s[m] = s[m - 1] \o RowsOf(L[m], w)
    BY DEF Wrapped
  <2>2. \A m \in 1..Len(L), p \in 0..(Len(L) - 1) : m = p + 1 => m - 1 = p
    BY <1>1
  <2>3. QED
    BY <2>1, <2>2
<1>4. s[k] \in Seq(Rows) /\ s[k + 1] \in Seq(Rows)
  BY <1>2 DEF Wrapped
<1>5. L[k + 1] \in Lines
  BY <1>2
<1>6. QED
  BY <1>2, <1>3, <1>4, <1>5

\* What is read of the first lines does not depend on those that follow.
Alike(L, M, n) == n <= Len(L) /\ n <= Len(M) /\ \A i \in 1..n : L[i] = M[i]

\* The rows of the first n lines do not depend on the others.
LEMMA WrappedAlike ==
  ASSUME NEW L \in Seq(Lines), NEW M \in Seq(Lines), NEW w \in Widths,
         NEW s, Wrapped(L, w, s), NEW t, Wrapped(M, w, t),
         NEW n \in Nat, Alike(L, M, n)
  PROVE  \A k \in 0..n : s[k] = t[k]
<1> DEFINE S == {k \in 0..n : s[k] = t[k]}
<1>1. 0 \in S
  <2>1. s[0] = t[0]
    BY DEF Wrapped
  <2>2. QED
    BY <2>1
<1>2. ASSUME NEW k \in 0..(n - 1), k \in S
      PROVE  k + 1 \in S
  <2>1. /\ k \in 0..(Len(L) - 1) /\ k \in 0..(Len(M) - 1) /\ k + 1 \in 1..n /\ k + 1 \in 0..n
        /\ s[k] = t[k] /\ L[k + 1] = M[k + 1]
    BY <1>2 DEF Alike
  <2>2. s[k + 1] = s[k] \o RowsOf(L[k + 1], w) /\ t[k + 1] = t[k] \o RowsOf(M[k + 1], w)
    BY <2>1, WrappedStep
  <2>3. s[k + 1] = t[k + 1]
    BY <2>1, <2>2
  <2>4. QED
    BY <2>1, <2>3
<1>3. \A k \in 0..n : k \in S
  <2> HIDE DEF S
  <2>1. QED
    BY <1>1, <1>2, UpTo
<1>4. QED
  BY <1>3

\* Rows, one below the other, in three parts.
LEMMA RowsAssociative ==
  \A x, y, z \in Seq(Rows) : (x \o y) \o z = x \o (y \o z)
BY ConcatAssociative

\* Lines one below the other take their rows one below the other.
Joined(C, A, B) ==
  /\ Len(C) = Len(A) + Len(B)
  /\ \A i \in 1..Len(A) : C[i] = A[i]
  /\ \A i \in 1..Len(B) : C[Len(A) + i] = B[i]

\* Counting on behind m.
LEMMA StepWithin ==
  ASSUME NEW m \in Nat, NEW n \in Nat, NEW k \in 0..(n - 1)
  PROVE  /\ k + 1 \in 0..n /\ k + 1 \in 1..n /\ m + k \in 0..((m + n) - 1)
         /\ m + (k + 1) = (m + k) + 1
OBVIOUS

\* The same for lines that stand below others, by the number of the lines below.
LEMMA RowsOfAllBehind ==
  ASSUME NEW A \in Seq(Lines), NEW B \in Seq(Lines), NEW w \in Widths,
         NEW C \in Seq(Lines), Joined(C, A, B)
  PROVE  /\ RowsOfAll(C, w) = RowsOfAll(A, w) \o RowsOfAll(B, w)
         /\ RowsOfAll(A, w) \in Seq(Rows) /\ RowsOfAll(B, w) \in Seq(Rows)
<1>1. /\ C \in Seq(Lines) /\ Len(C) = Len(A) + Len(B)
      /\ Len(A) \in Nat /\ Len(B) \in Nat
      /\ \A i \in 1..Len(A) : C[i] = A[i]
      /\ \A i \in 1..Len(B) : C[Len(A) + i] = B[i]
  BY DEF Joined
<1>2. PICK s : Wrapped(C, w, s)
  BY <1>1, RowsOfAllReads
<1>3. PICK a : Wrapped(A, w, a)
  BY RowsOfAllReads
<1>4. PICK b : Wrapped(B, w, b)
  BY RowsOfAllReads
<1>5. s[Len(A)] = a[Len(A)]
  <2>1. Alike(C, A, Len(A)) /\ Len(A) \in 0..Len(A)
    BY <1>1 DEF Alike
  <2>2. \A k \in 0..Len(A) : s[k] = a[k]
    BY <1>2, <1>3, <2>1, WrappedAlike
  <2>3. QED
    BY <2>1, <2>2
<1>6. /\ a[Len(A)] = RowsOfAll(A, w) /\ a[Len(A)] \in Seq(Rows)
      /\ b[Len(B)] = RowsOfAll(B, w) /\ b[Len(B)] \in Seq(Rows)
      /\ s[Len(C)] = RowsOfAll(C, w)
      /\ b[0] = <<>>
  <2>1. Len(A) \in 0..Len(A) /\ Len(B) \in 0..Len(B)
    BY <1>1
  <2>2. QED
    BY <1>2, <1>3, <1>4, <2>1 DEF Wrapped
<1> DEFINE m == Len(A)
           n == Len(B)
           S == {k \in 0..n : s[m + k] = s[m] \o b[k]}
<1>7. /\ m \in Nat /\ n \in Nat /\ s[m] \in Seq(Rows) /\ Len(C) = m + n
      /\ \A i \in 1..n : C[m + i] = B[i]
  BY <1>1, <1>5, <1>6
<1>8. m + 0 = m /\ 0 \in 0..n
  BY <1>7
<1>9. n = Len(B) /\ m = Len(A)
  OBVIOUS
<1> HIDE DEF m, n
<1>10. 0 \in S
  <2>1. s[m + 0] = s[m] \o b[0]
    BY <1>6, <1>7, <1>8, ConcatEmptySeq
  <2>2. QED
    BY <1>8, <2>1
<1> HIDE DEF S
<1>11. ASSUME NEW k \in 0..(n - 1), k \in S
       PROVE  k + 1 \in S
  <2>1. /\ k + 1 \in 0..n /\ k + 1 \in 1..n /\ m + k \in 0..(Len(C) - 1)
        /\ m + (k + 1) = (m + k) + 1
    <3>1. m \in Nat /\ n \in Nat /\ Len(C) = m + n
      BY <1>7
    <3>2. /\ k + 1 \in 0..n /\ k + 1 \in 1..n /\ m + k \in 0..((m + n) - 1)
          /\ m + (k + 1) = (m + k) + 1
      BY <3>1, StepWithin
    <3>3. QED
      BY <3>1, <3>2
  <2>2. s[m + k] = s[m] \o b[k]
    BY <1>11 DEF S
  <2>3. C[(m + k) + 1] = B[k + 1]
    <3>1. C[m + (k + 1)] = B[k + 1]
      BY <1>7, <2>1
    <3>2. QED
      BY <2>1, <3>1
  <2>4. s[(m + k) + 1] = s[m + k] \o RowsOf(C[(m + k) + 1], w)
    <3> DEFINE i == m + k
    <3>1. i \in 0..(Len(C) - 1)
      BY <2>1
    <3> HIDE DEF i
    <3>2. s[i + 1] = s[i] \o RowsOf(C[i + 1], w)
      BY <1>2, <3>1, WrappedStep
    <3>3. QED
      BY <3>2 DEF i
  <2>5. b[k + 1] = b[k] \o RowsOf(B[k + 1], w) /\ b[k] \in Seq(Rows) /\ B[k + 1] \in Lines
    BY <1>4, <1>9, WrappedStep
  <2>6. RowsOf(B[k + 1], w) \in Seq(Rows)
    BY <2>5, RowsOfIs
  <2>7. (s[m] \o b[k]) \o RowsOf(B[k + 1], w) = s[m] \o (b[k] \o RowsOf(B[k + 1], w))
    BY <1>7, <2>5, <2>6, RowsAssociative
  <2>8. s[m + (k + 1)] = s[m] \o b[k + 1]
    BY <2>1, <2>2, <2>3, <2>4, <2>5, <2>7
  <2>9. QED
    BY <2>1, <2>8 DEF S
<1>12. n \in S
  <2>1. \A k \in 0..n : k \in S
    BY <1>7, <1>10, <1>11, UpTo
  <2>2. QED
    BY <1>7, <2>1
<1>13. s[m + n] = s[m] \o b[n]
  BY <1>12 DEF S
<1>14. QED
  BY <1>5, <1>6, <1>7, <1>9, <1>13

\* The rows of two sequences of lines are those of the one, then those of the other.
LEMMA RowsOfAllConcat ==
  ASSUME NEW A \in Seq(Lines), NEW B \in Seq(Lines), NEW w \in Widths
  PROVE  /\ RowsOfAll(A \o B, w) = RowsOfAll(A, w) \o RowsOfAll(B, w)
         /\ RowsOfAll(A, w) \in Seq(Rows) /\ RowsOfAll(B, w) \in Seq(Rows)
<1>1. A \o B \in Seq(Lines) /\ Joined(A \o B, A, B)
  <2>1. Len(A) \in Nat /\ Len(B) \in Nat
    OBVIOUS
  <2>2. QED
    BY <2>1, ConcatProperties DEF Joined
<1>2. QED
  BY <1>1, RowsOfAllBehind

\* Line k + 1 of L takes the rows of buf from P[k] + 1 to P[k + 1].
Placed(buf, L, w, P) ==
  /\ \A k \in 0..Len(L) : P[k] \in Nat
  /\ P[0] = 0 /\ P[Len(L)] = Len(buf)
  /\ \A k \in 0..(Len(L) - 1) :
       /\ P[k + 1] = P[k] + PhysicalRows(L[k + 1].cells, w)
       /\ \A j \in 1..PhysicalRows(L[k + 1].cells, w) : buf[P[k] + j] = RowsOf(L[k + 1], w)[j]

\* The rows of lines have every line in its place.
LEMMA EveryLinePlaced ==
  ASSUME NEW L \in Seq(Lines), NEW w \in Widths
  PROVE  \E P : Placed(RowsOfAll(L, w), L, w, P)
<1>1. PICK s : Wrapped(L, w, s)
  BY RowsOfAllReads
<1> DEFINE N == Len(L)
           P == [k \in 0..N |-> Len(s[k])]
<1>2. N \in Nat
  OBVIOUS
<1>3. /\ \A k \in 0..N : s[k] \in Seq(Rows) /\ Len(s[k]) \in Nat
      /\ s[0] = <<>> /\ RowsOfAll(L, w) = s[N]
  BY <1>1 DEF Wrapped
<1>4. ASSUME NEW k \in 0..(N - 1)
      PROVE  /\ k + 1 \in 0..N /\ k \in 0..N /\ L[k + 1] \in Lines
             /\ s[k + 1] = s[k] \o RowsOf(L[k + 1], w)
             /\ Len(s[k + 1]) = Len(s[k]) + PhysicalRows(L[k + 1].cells, w)
             /\ \A i \in 1..Len(s[k]) : s[k + 1][i] = s[k][i]
             /\ \A j \in 1..PhysicalRows(L[k + 1].cells, w) :
                  s[k + 1][Len(s[k]) + j] = RowsOf(L[k + 1], w)[j]
  <2>1. /\ k + 1 \in 0..N /\ k \in 0..N /\ L[k + 1] \in Lines
        /\ s[k + 1] = s[k] \o RowsOf(L[k + 1], w) /\ s[k] \in Seq(Rows)
    <3>1. k + 1 \in 0..N /\ k \in 0..N /\ k \in 0..(Len(L) - 1)
      BY <1>2
    <3>2. /\ L[k + 1] \in Lines
          /\ s[k + 1] = s[k] \o RowsOf(L[k + 1], w) /\ s[k] \in Seq(Rows)
      BY <1>1, <3>1, WrappedStep
    <3>3. QED
      BY <3>1, <3>2
  <2>2. /\ RowsOf(L[k + 1], w) \in Seq(Rows)
        /\ Len(RowsOf(L[k + 1], w)) = PhysicalRows(L[k + 1].cells, w)
    BY <2>1, RowsOfIs
  <2> DEFINE a == s[k]
             b == RowsOf(L[k + 1], w)
  <2>3. a \in Seq(Rows) /\ b \in Seq(Rows)
    BY <2>1, <2>2
  <2> HIDE DEF a, b
  <2>4. Len(a) \in Nat /\ Len(b) \in Nat
    BY <2>3
  <2>5. /\ Len(a \o b) = Len(a) + Len(b)
        /\ \A i \in 1..Len(a) : (a \o b)[i] = a[i]
        /\ \A j \in 1..Len(b) : (a \o b)[Len(a) + j] = b[j]
    BY <2>3, <2>4, ConcatProperties
  <2>6. s[k + 1] = a \o b
    BY <2>1 DEF a, b
  <2>7. QED
    BY <2>1, <2>2, <2>5, <2>6 DEF a, b
<1>5. ASSUME NEW m \in 0..N
      PROVE  Len(s[m]) <= Len(s[N]) /\ \A i \in 1..Len(s[m]) : s[N][i] = s[m][i]
  <2> DEFINE S == {k \in m..N : Len(s[m]) <= Len(s[k]) /\ \A i \in 1..Len(s[m]) : s[k][i] = s[m][i]}
  <2>1. m \in S
    BY <1>2, <1>3
  <2>2. ASSUME NEW k \in m..(N - 1), k \in S
        PROVE  k + 1 \in S
    <3>1. k \in 0..(N - 1) /\ k + 1 \in m..N /\ k \in 0..N /\ k + 1 \in 0..N
      BY <1>2
    <3>2. Len(s[m]) \in Nat /\ Len(s[k]) \in Nat /\ Len(s[k + 1]) \in Nat
      BY <1>3, <3>1
    <3>3. Len(s[m]) <= Len(s[k]) /\ \A i \in 1..Len(s[m]) : s[k][i] = s[m][i]
      BY <2>2
    <3>4. Len(s[k + 1]) >= Len(s[k]) /\ \A i \in 1..Len(s[k]) : s[k + 1][i] = s[k][i]
      <4>1. PhysicalRows(L[k + 1].cells, w) \in Nat
        BY <1>4, <3>1, PhysicalRowsIs DEF Lines
      <4>2. /\ Len(s[k + 1]) = Len(s[k]) + PhysicalRows(L[k + 1].cells, w)
            /\ \A i \in 1..Len(s[k]) : s[k + 1][i] = s[k][i]
        BY <1>4, <3>1
      <4>3. QED
        BY <3>2, <4>1, <4>2
    <3>5. QED
      BY <3>1, <3>2, <3>3, <3>4
  <2>3. N \in S
    <3> HIDE DEF S, N
    <3>1. m \in Nat /\ N \in m..N
      BY <1>2
    <3>2. \A k \in m..(N - 1) : k \in S => k + 1 \in S
      BY <2>2
    <3>3. \A k \in m..N : k \in S
      BY <1>2, <2>1, <3>1, <3>2, UpTo
    <3>4. QED
      BY <3>1, <3>3
  <2>4. QED
    BY <2>3
<1>6. ASSUME NEW k \in 0..(N - 1), NEW j \in 1..PhysicalRows(L[k + 1].cells, w)
      PROVE  s[N][Len(s[k]) + j] = RowsOf(L[k + 1], w)[j]
  <2>1. PhysicalRows(L[k + 1].cells, w) \in Nat
    BY <1>4, PhysicalRowsIs DEF Lines
  <2>2. Len(s[k]) \in Nat /\ Len(s[k]) + j \in 1..Len(s[k + 1]) /\ k + 1 \in 0..N
    <3>1. /\ k + 1 \in 0..N /\ k \in 0..N
          /\ Len(s[k + 1]) = Len(s[k]) + PhysicalRows(L[k + 1].cells, w)
      BY <1>4
    <3>2. Len(s[k]) \in Nat
      BY <1>3, <3>1
    <3>3. QED
      BY <2>1, <3>1, <3>2
  <2>3. s[N][Len(s[k]) + j] = s[k + 1][Len(s[k]) + j]
    BY <1>5, <2>2
  <2>4. QED
    BY <1>4, <2>3
<1>7. \A k \in 0..N : P[k] = Len(s[k])
  OBVIOUS
<1> HIDE DEF P
<1>8. P[0] = 0 /\ P[N] = Len(s[N])
  BY <1>2, <1>3, <1>7
<1>9. ASSUME NEW k \in 0..(N - 1)
      PROVE  /\ P[k + 1] = P[k] + PhysicalRows(L[k + 1].cells, w)
             /\ \A j \in 1..PhysicalRows(L[k + 1].cells, w) : s[N][P[k] + j] = RowsOf(L[k + 1], w)[j]
  <2>1. P[k] = Len(s[k]) /\ P[k + 1] = Len(s[k + 1])
    BY <1>4, <1>7
  <2>2. QED
    BY <1>4, <1>6, <2>1
<1>10. Placed(s[N], L, w, P)
  BY <1>3, <1>7, <1>8, <1>9 DEF Placed
<1>11. QED
  BY <1>3, <1>10

\* The rows of the line in place k + 1.
LEMMA PlacedRow ==
  ASSUME NEW L \in Seq(Lines), NEW w \in Widths, NEW buf, NEW P, Placed(buf, L, w, P),
         NEW k \in 0..(Len(L) - 1)
  PROVE  /\ P[k] \in Nat /\ P[k + 1] \in Nat /\ P[k] < P[k + 1]
         /\ k + 1 \in 1..Len(L) /\ L[k + 1] \in Lines
         /\ P[k + 1] - P[k] = PhysicalRows(L[k + 1].cells, w)
         /\ \A i \in (P[k] + 1)..P[k + 1] :
              /\ buf[i].soft <=> i < P[k + 1]
              /\ buf[i].tag = L[k + 1].tag
              /\ buf[i].cells = IF i < P[k + 1] THEN w
                                ELSE L[k + 1].cells - (P[k + 1] - P[k] - 1) * w
<1> DEFINE l == L[k + 1]
           n == PhysicalRows(l.cells, w)
<1>1. /\ k \in 0..Len(L) /\ k + 1 \in 0..Len(L) /\ k + 1 \in 1..Len(L)
  OBVIOUS
<1>2. l \in Lines
  BY <1>1
<1>3. /\ P[k] \in Nat /\ P[k + 1] \in Nat /\ P[k + 1] = P[k] + n
      /\ \A j \in 1..n : buf[P[k] + j] = RowsOf(l, w)[j]
  BY <1>1 DEF Placed
<1>4. n \in Nat /\ n >= 1
  BY <1>2, PhysicalRowsIs DEF Lines
<1>5. \A j \in 1..n :
        RowsOf(l, w)[j] = Row(l.tag, IF j < n THEN w ELSE l.cells - (n - 1) * w, j < n)
  BY <1>2, RowsOfIs
<1> HIDE DEF n, l
<1>6. ASSUME NEW i \in (P[k] + 1)..P[k + 1]
      PROVE  /\ buf[i].soft <=> i < P[k + 1]
             /\ buf[i].tag = l.tag
             /\ buf[i].cells = IF i < P[k + 1] THEN w ELSE l.cells - (n - 1) * w
  <2> DEFINE j == i - P[k]
  <2>1. j \in 1..n /\ P[k] + j = i /\ (j < n <=> i < P[k + 1])
    BY <1>3, <1>4
  <2> HIDE DEF j
  <2>2. buf[i] = Row(l.tag, IF j < n THEN w ELSE l.cells - (n - 1) * w, j < n)
    BY <1>3, <1>5, <2>1
  <2>3. /\ buf[i].tag = l.tag
        /\ buf[i].cells = IF j < n THEN w ELSE l.cells - (n - 1) * w
    BY <2>2 DEF Row
  <2> DEFINE cells == IF j < n THEN w ELSE l.cells - (n - 1) * w
  <2>4. buf[i].soft = (j < n)
    <3> HIDE DEF cells
    <3>1. buf[i] = Row(l.tag, cells, j < n)
      BY <2>2 DEF cells
    <3>2. QED
      BY <3>1, RowSoft
  <2>5. QED
    BY <2>1, <2>3, <2>4
<1>7. P[k + 1] - P[k] = n
  BY <1>3, <1>4
<1>8. QED
  BY <1>1, <1>2, <1>3, <1>4, <1>6, <1>7 DEF n, l

\* A line begins where the one before it ends, and the lines take all rows.
LEMMA PlacedUp ==
  ASSUME NEW L \in Seq(Lines), NEW w \in Widths, NEW buf, NEW P, Placed(buf, L, w, P),
         NEW k \in 0..Len(L), NEW m \in k..Len(L)
  PROVE  P[k] \in Nat /\ P[m] \in Nat /\ P[k] <= P[m]
<1> DEFINE S == {q \in k..Len(L) : P[k] <= P[q]}
<1>1. Len(L) \in Nat /\ k \in Nat /\ m \in 0..Len(L)
  OBVIOUS
<1>2. \A q \in 0..Len(L) : P[q] \in Nat
  BY DEF Placed
<1>3. k \in S
  BY <1>1, <1>2
<1>4. ASSUME NEW q \in k..(Len(L) - 1), q \in S
      PROVE  q + 1 \in S
  <2>1. q \in 0..(Len(L) - 1) /\ q + 1 \in k..Len(L)
    BY <1>1
  <2>2. P[q] \in Nat /\ P[q + 1] \in Nat /\ P[q] < P[q + 1]
    BY <2>1, PlacedRow
  <2>3. P[k] <= P[q] /\ P[k] \in Nat
    BY <1>2, <1>4
  <2>4. QED
    BY <2>1, <2>2, <2>3
<1>5. m \in S
  <2> HIDE DEF S
  <2>1. \A q \in k..(Len(L) - 1) : q \in S => q + 1 \in S
    BY <1>4
  <2>2. \A q \in k..Len(L) : q \in S
    BY <1>1, <1>3, <2>1, UpTo
  <2>3. QED
    BY <2>2
<1>6. QED
  BY <1>1, <1>2, <1>5

\* Every row belongs to a line.
LEMMA PlacedIn ==
  ASSUME NEW L \in Seq(Lines), NEW w \in Widths, NEW buf, NEW P, Placed(buf, L, w, P),
         NEW i \in 1..Len(buf)
  PROVE  \E k \in 0..(Len(L) - 1) : i \in (P[k] + 1)..P[k + 1]
<1> DEFINE T == {k \in 0..Len(L) : i <= P[k]}
<1>1. Len(L) \in Nat /\ P[0] = 0 /\ P[Len(L)] = Len(buf) /\ \A q \in 0..Len(L) : P[q] \in Nat
  BY DEF Placed
<1>2. Len(buf) \in Nat /\ i \in Nat /\ i >= 1 /\ i <= Len(buf)
  BY <1>1
<1>3. T \in SUBSET Nat /\ Len(L) \in T
  BY <1>1, <1>2
<1>4. PICK m \in T : \A q \in T : m <= q
  <2> HIDE DEF T
  <2>1. QED
    BY <1>3, LeastOf
<1>5. m \in 0..Len(L) /\ i <= P[m] /\ m # 0
  BY <1>1, <1>2, <1>4
<1>6. m - 1 \in 0..(Len(L) - 1) /\ m - 1 + 1 = m /\ m - 1 \in 0..Len(L) /\ ~(m <= m - 1)
  BY <1>1, <1>5
<1>7. ~(i <= P[m - 1]) /\ P[m - 1] \in Nat /\ P[m] \in Nat
  BY <1>1, <1>4, <1>5, <1>6
<1>8. i \in (P[m - 1] + 1)..P[m - 1 + 1]
  BY <1>2, <1>5, <1>6, <1>7
<1>9. QED
  BY <1>6, <1>8

\* The rows are numbered by their lines.
FirstRows(buf, i) == {j \in 1..i : j = 1 \/ ~buf[j - 1].soft}

\* The rows of the k-th line have number k.
LEMMA LineNoIs ==
  ASSUME NEW L \in Seq(Lines), NEW w \in Widths, NEW buf, NEW P, Placed(buf, L, w, P)
  PROVE  /\ \A k \in 0..Len(L) : LineNo(buf, P[k]) = k
         /\ \A k \in 0..(Len(L) - 1) : \A i \in (P[k] + 1)..P[k + 1] : LineNo(buf, i) = k + 1
<1> DEFINE F(i) == FirstRows(buf, i)
           S == {k \in 0..Len(L) : Cardinality(F(P[k])) = k}
<1>1. Len(L) \in Nat /\ P[0] = 0 /\ \A q \in 0..Len(L) : P[q] \in Nat
  BY DEF Placed
<1>2. \A i \in Nat : IsFiniteSet(F(i))
  <2>1. ASSUME NEW i \in Nat
        PROVE  IsFiniteSet(F(i))
    <3>1. IsFiniteSet(1..i)
      BY FS_Interval
    <3>2. F(i) \in SUBSET (1..i)
      BY DEF FirstRows
    <3>3. QED
      BY <3>1, <3>2, FS_Subset
  <2>2. QED
    BY <2>1
<1>3. ASSUME NEW k \in 0..(Len(L) - 1), NEW i \in (P[k] + 1)..P[k + 1]
      PROVE  F(i) = F(P[k]) \cup {P[k] + 1} /\ P[k] + 1 \notin F(P[k])
  <2>1. /\ P[k] \in Nat /\ P[k + 1] \in Nat /\ P[k] < P[k + 1]
        /\ \A j \in (P[k] + 1)..P[k + 1] : buf[j].soft <=> j < P[k + 1]
    BY PlacedRow
  <2>2. P[k] = 0 \/ ~buf[P[k]].soft
    <3>1. CASE k = 0
      BY <1>1, <3>1
    <3>2. CASE k # 0
      <4>1. k - 1 \in 0..(Len(L) - 1) /\ k - 1 + 1 = k
        BY <1>1, <3>2
      <4>2. /\ P[k - 1] < P[k - 1 + 1] /\ P[k - 1] \in Nat /\ P[k - 1 + 1] \in Nat
            /\ \A j \in (P[k - 1] + 1)..P[k - 1 + 1] : buf[j].soft <=> j < P[k - 1 + 1]
        BY <4>1, PlacedRow
      <4>3. P[k] \in (P[k - 1] + 1)..P[k - 1 + 1] /\ ~(P[k] < P[k - 1 + 1])
        BY <4>1, <4>2
      <4>4. QED
        BY <4>2, <4>3
    <3>3. QED
      BY <3>1, <3>2
  <2> DEFINE p == P[k]
             q == P[k + 1]
  <2>3. /\ p \in Nat /\ q \in Nat /\ p < q /\ i \in (p + 1)..q
        /\ \A j \in (p + 1)..q : buf[j].soft <=> j < q
        /\ p = 0 \/ ~buf[p].soft
    BY <2>1, <2>2
  <2> HIDE DEF p, q
  <2>4. ASSUME NEW j \in 1..i
        PROVE  (j = 1 \/ ~buf[j - 1].soft) <=> (j \in F(p) \/ j = p + 1)
    <3>1. CASE j <= p
      BY <2>3, <3>1 DEF FirstRows
    <3>2. CASE j = p + 1
      BY <2>3, <3>2
    <3>3. CASE j > p + 1
      <4>1. j - 1 \in (p + 1)..q /\ j - 1 < q /\ j # 1
        BY <2>3, <3>3
      <4>2. buf[j - 1].soft
        BY <2>3, <4>1
      <4>3. j \notin F(p)
        BY <2>3, <3>3 DEF FirstRows
      <4>4. QED
        BY <3>3, <4>1, <4>2, <4>3
    <3>4. QED
      BY <2>3, <3>1, <3>2, <3>3
  <2>5. F(p) \subseteq 1..i /\ p + 1 \in 1..i /\ p + 1 \notin F(p)
    BY <2>3 DEF FirstRows
  <2>6. F(i) = F(p) \cup {p + 1}
    BY <2>4, <2>5 DEF FirstRows
  <2>7. QED
    BY <2>5, <2>6 DEF p
<1> HIDE DEF F
<1>4. ASSUME NEW k \in 0..(Len(L) - 1), NEW i \in (P[k] + 1)..P[k + 1], Cardinality(F(P[k])) = k
      PROVE  Cardinality(F(i)) = k + 1
  <2>1. P[k] \in Nat
    BY <1>1
  <2>2. IsFiniteSet(F(P[k])) /\ F(i) = F(P[k]) \cup {P[k] + 1} /\ P[k] + 1 \notin F(P[k])
    BY <1>2, <1>3, <2>1
  <2>3. Cardinality(F(P[k]) \cup {P[k] + 1}) = Cardinality(F(P[k])) + 1
    BY <2>2, FS_AddElement
  <2>4. QED
    BY <1>4, <2>2, <2>3
<1>5. 0 \in S
  <2>1. F(0) = {}
    BY DEF F, FirstRows
  <2>2. Cardinality(F(P[0])) = 0
    BY <1>1, <2>1, FS_EmptySet
  <2>3. QED
    BY <1>1, <2>2
<1>6. ASSUME NEW k \in 0..(Len(L) - 1), k \in S
      PROVE  k + 1 \in S
  <2>1. P[k] \in Nat /\ P[k + 1] \in Nat /\ P[k] < P[k + 1] /\ k + 1 \in 0..Len(L)
    BY PlacedRow
  <2>2. P[k + 1] \in (P[k] + 1)..P[k + 1]
    BY <2>1
  <2>3. Cardinality(F(P[k + 1])) = k + 1
    BY <1>4, <1>6, <2>2
  <2>4. QED
    BY <2>1, <2>3
<1>7. \A k \in 0..Len(L) : k \in S
  <2> HIDE DEF S
  <2>1. QED
    BY <1>1, <1>5, <1>6, UpTo
<1>8. \A i : LineNo(buf, i) = Cardinality(F(i))
  BY DEF LineNo, F, FirstRows
<1>9. \A k \in 0..Len(L) : LineNo(buf, P[k]) = k
  BY <1>7, <1>8
<1>10. ASSUME NEW k \in 0..(Len(L) - 1), NEW i \in (P[k] + 1)..P[k + 1]
       PROVE  LineNo(buf, i) = k + 1
  <2>1. k \in 0..Len(L)
    BY <1>1
  <2>2. Cardinality(F(P[k])) = k
    BY <1>7, <2>1
  <2>3. QED
    BY <1>4, <1>8, <2>2
<1>11. QED
  BY <1>9, <1>10

\* The rows of a line end where it does: the first one that does not go on.
LEMMA PlacedLine ==
  ASSUME NEW L \in Seq(Lines), NEW w \in Widths, NEW buf, DOMAIN buf = 1..Len(buf),
         NEW P, Placed(buf, L, w, P), NEW k \in 0..(Len(L) - 1)
  PROVE  EndOf(buf, P[k] + 1) = P[k + 1]
<1> DEFINE p == P[k]
           q == P[k + 1]
           n == Len(buf)
           Ends(j) == /\ j = n \/ ~buf[j].soft
                      /\ \A m \in (p + 1)..(j - 1) : buf[m].soft
<1>1. /\ p \in Nat /\ q \in Nat /\ p < q
      /\ \A i \in (p + 1)..q : buf[i].soft <=> i < q
  BY PlacedRow
<1>2. n \in Nat /\ q <= n
  <2>1. k + 1 \in 0..Len(L) /\ Len(L) \in (k + 1)..Len(L) /\ P[Len(L)] = n
    BY DEF Placed
  <2>2. QED
    BY <2>1, PlacedUp
<1>3. EndOf(buf, p + 1) = CHOOSE j \in (p + 1)..n : Ends(j)
  BY DEF EndOf
<1> HIDE DEF p, q, n
<1>4. q \in (p + 1)..n /\ Ends(q)
  <2>1. q \in (p + 1)..q /\ q \in (p + 1)..n /\ ~(q < q)
    BY <1>1, <1>2
  <2>2. ~buf[q].soft
    BY <1>1, <2>1
  <2>3. ASSUME NEW m \in (p + 1)..(q - 1)
        PROVE  buf[m].soft
    <3>1. m \in (p + 1)..q /\ m < q
      BY <1>1
    <3>2. QED
      BY <1>1, <3>1
  <2>4. QED
    BY <2>1, <2>2, <2>3
<1>5. ASSUME NEW j \in (p + 1)..n, Ends(j)
      PROVE  j = q
  <2>1. CASE j < q
    <3>1. j \in (p + 1)..q /\ j # n
      BY <1>1, <1>2, <2>1
    <3>2. buf[j].soft
      BY <1>1, <2>1, <3>1
    <3>3. QED
      BY <1>5, <3>1, <3>2
  <2>2. CASE j > q
    <3>1. q \in (p + 1)..(j - 1)
      BY <1>1, <1>2, <2>2
    <3>2. buf[q].soft
      BY <1>5, <3>1
    <3>3. QED
      BY <1>4, <1>1, <3>2
  <2>3. QED
    BY <1>1, <1>2, <2>1, <2>2
<1>6. EndOf(buf, p + 1) = q
  <2> HIDE DEF Ends
  <2>1. QED
    BY <1>3, <1>4, <1>5
<1>7. QED
  BY <1>6 DEF p, q

\* A line is its tag and its cells.
LEMMA LineIs ==
  ASSUME NEW l \in Lines
  PROVE  TextLine(l.tag, l.cells) = l
BY DEF TextLine, Lines

\* The line that begins in the first row of a line is this line.
LEMMA LineAtIs ==
  ASSUME NEW L \in Seq(Lines), NEW w \in Widths, NEW buf, DOMAIN buf = 1..Len(buf),
         NEW P, Placed(buf, L, w, P), NEW k \in 0..(Len(L) - 1),
         NEW t, t.buf = buf, t.w = w
  PROVE  LineAt(t, P[k] + 1) = L[k + 1]
<1> DEFINE p == P[k]
           q == P[k + 1]
           l == L[k + 1]
<1>1. w \in Nat
  BY DEF Widths
<1>2. /\ p \in Nat /\ q \in Nat /\ p < q /\ l \in Lines /\ w \in Nat
      /\ \A i \in (p + 1)..q :
              /\ buf[i].tag = l.tag
              /\ buf[i].cells = IF i < q THEN w ELSE l.cells - (q - p - 1) * w
  BY <1>1, PlacedRow
<1>3. EndOf(buf, p + 1) = q
  BY PlacedLine
<1>4. LineAt(t, p + 1) =
        TextLine(IF \A m \in (p + 1)..q : buf[m].tag = buf[p + 1].tag THEN buf[p + 1].tag ELSE Torn,
                 (q - (p + 1)) * w + buf[q].cells)
  BY <1>3 DEF LineAt
<1> HIDE DEF p, q, l
<1>5. p + 1 \in (p + 1)..q /\ q \in (p + 1)..q /\ ~(q < q) /\ q - (p + 1) = q - p - 1
      /\ q - p - 1 \in Nat
  BY <1>2
<1>6. buf[p + 1].tag = l.tag /\ \A m \in (p + 1)..q : buf[m].tag = buf[p + 1].tag
  BY <1>2, <1>5
<1>7. (q - p - 1) * w + buf[q].cells = l.cells
  <2>1. buf[q].cells = l.cells - (q - p - 1) * w
    BY <1>2, <1>5
  <2> DEFINE x == (q - p - 1) * w
  <2>2. x \in Int
    BY <1>2, <1>5
  <2>3. l.cells \in Int
    BY <1>2 DEF Lines
  <2> HIDE DEF x
  <2>4. x + (l.cells - x) = l.cells
    BY <2>2, <2>3
  <2>5. QED
    BY <2>1, <2>4 DEF x
<1>8. LineAt(t, p + 1) = TextLine(l.tag, l.cells)
  BY <1>4, <1>5, <1>6, <1>7
<1>9. QED
  BY <1>2, <1>8, LineIs DEF p, l

\* The rows that begin a line are the first rows of the lines.
LEMMA StartsAre ==
  ASSUME NEW L \in Seq(Lines), NEW w \in Widths, NEW buf, DOMAIN buf = 1..Len(buf),
         NEW P, Placed(buf, L, w, P)
  PROVE  /\ LineNo(buf, Len(buf)) = Len(L)
         /\ DOMAIN Starts(buf) = 1..Len(L)
         /\ \A k \in 0..(Len(L) - 1) : Starts(buf)[k + 1] = P[k] + 1
<1> DEFINE N == Len(L)
           Before(k) == {i \in DOMAIN buf : LineNo(buf, i) < k}
<1>1. N \in Nat /\ P[N] = Len(buf) /\ N \in 0..N
  BY DEF Placed
<1>2. LineNo(buf, Len(buf)) = N
  BY <1>1, LineNoIs
<1>3. Starts(buf) = [k \in 1..N |-> 1 + Cardinality(Before(k))]
  BY <1>2 DEF Starts
<1>4. ASSUME NEW k \in 0..(N - 1)
      PROVE  Before(k + 1) = 1..P[k] /\ P[k] \in Nat
  <2>1. k \in 0..N
    BY <1>1
  <2>2. P[k] \in Nat /\ Len(buf) \in Nat /\ P[k] <= Len(buf)
    BY <1>1, <2>1, PlacedUp
  <2>3. ASSUME NEW i \in 1..Len(buf)
        PROVE  LineNo(buf, i) < k + 1 <=> i <= P[k]
    <3>1. PICK m \in 0..(N - 1) : i \in (P[m] + 1)..P[m + 1]
      BY PlacedIn
    <3>2. LineNo(buf, i) = m + 1
      BY <3>1, LineNoIs
    <3>3. P[m] \in Nat /\ P[m + 1] \in Nat
      BY PlacedRow
    <3>4. CASE m < k
      <4>1. m + 1 \in 0..N /\ k \in (m + 1)..N
        BY <1>1, <3>4
      <4>2. P[m + 1] <= P[k]
        BY <4>1, PlacedUp
      <4>3. QED
        BY <2>2, <3>1, <3>2, <3>3, <3>4, <4>2
    <3>5. CASE ~(m < k)
      <4>1. m \in k..N
        BY <1>1, <3>5
      <4>2. P[k] <= P[m]
        BY <2>1, <4>1, PlacedUp
      <4>3. QED
        BY <2>2, <3>1, <3>2, <3>3, <3>5, <4>2
    <3>6. QED
      BY <3>4, <3>5
  <2>4. QED
    BY <2>2, <2>3
<1>5. ASSUME NEW k \in 0..(N - 1)
      PROVE  Starts(buf)[k + 1] = P[k] + 1
  <2>1. k + 1 \in 1..N
    BY <1>1
  <2>2. Cardinality(1..P[k]) = P[k]
    <3> DEFINE p == P[k]
    <3>1. p \in Nat /\ 1 \in Int /\ p \in Int
      BY <1>4
    <3> HIDE DEF p
    <3>2. Cardinality(1..p) = IF 1 > p THEN 0 ELSE p - 1 + 1
      BY <3>1, FS_Interval
    <3>3. Cardinality(1..p) = p
      BY <3>1, <3>2
    <3>4. QED
      BY <3>3 DEF p
  <2>3. Starts(buf)[k + 1] = 1 + Cardinality(Before(k + 1))
    <3>1. \A m \in 1..N : Starts(buf)[m] = 1 + Cardinality(Before(m))
      BY <1>3
    <3> HIDE DEF Before, N
    <3>2. QED
      BY <2>1, <3>1
  <2>4. QED
    <3> HIDE DEF Before
    <3>1. Before(k + 1) = 1..P[k] /\ P[k] \in Nat
      BY <1>4
    <3>2. QED
      BY <2>2, <2>3, <3>1
<1>6. QED
  BY <1>2, <1>3, <1>5

------------------------------------------------------------------------------
(* The terminal: what shows lines *)

\* A terminal whose rows are those of some lines.
Terminals ==
  [w : Widths, h : Nat \ {0}, buf : Seq(Rows), cur : Nat, top : Nat, home : BOOLEAN]

\* The rows of t are those of L, the cursor is in the last one, and that one is on
\* the screen.
Displays(t, L) ==
  /\ t \in Terminals
  /\ L \in Seq(Lines) /\ L # <<>>
  /\ t.buf = RowsOfAll(L, t.w)
  /\ t.cur = Len(t.buf)
  /\ t.top < t.cur /\ t.cur <= t.top + t.h

\* On a terminal that shows lines every one of them is in its place.
LEMMA DisplaysPlaced ==
  ASSUME NEW t, NEW L, Displays(t, L)
  PROVE  /\ L \in Seq(Lines) /\ Len(L) \in Nat \ {0} /\ Len(L) - 1 \in 0..(Len(L) - 1)
         /\ t.w \in Widths /\ DOMAIN t.buf = 1..Len(t.buf) /\ t.cur = Len(t.buf)
         /\ \E P : Placed(t.buf, L, t.w, P)
<1>1. /\ L \in Seq(Lines) /\ L # <<>> /\ t.w \in Widths /\ t.buf \in Seq(Rows)
      /\ t.buf = RowsOfAll(L, t.w) /\ t.cur = Len(t.buf)
  BY DEF Displays, Terminals
<1>2. Len(L) \in Nat \ {0}
  BY <1>1, EmptySeq
<1>3. QED
  BY <1>1, <1>2, EveryLinePlaced

\* A terminal that shows lines is read as these lines, the cursor in the last one.
LEMMA DisplaysLogical ==
  ASSUME NEW t, NEW L, Displays(t, L)
  PROVE  Logical(t) = L /\ CursorLine(t) = Len(L)
<1>1. /\ L \in Seq(Lines) /\ Len(L) \in Nat \ {0} /\ t.w \in Widths
      /\ DOMAIN t.buf = 1..Len(t.buf) /\ t.cur = Len(t.buf)
  BY DisplaysPlaced
<1>2. PICK P : Placed(t.buf, L, t.w, P)
  BY DisplaysPlaced
<1>3. /\ LineNo(t.buf, Len(t.buf)) = Len(L)
      /\ DOMAIN Starts(t.buf) = 1..Len(L)
      /\ \A k \in 0..(Len(L) - 1) : Starts(t.buf)[k + 1] = P[k] + 1
  BY <1>1, <1>2, StartsAre
<1>4. ASSUME NEW m \in 1..Len(L)
      PROVE  LineAt(t, Starts(t.buf)[m]) = L[m]
  <2>1. PICK k \in 0..(Len(L) - 1) : m = k + 1
    <3>1. m - 1 \in 0..(Len(L) - 1) /\ m = m - 1 + 1
      BY <1>1
    <3>2. QED
      BY <3>1
  <2>2. Starts(t.buf)[m] = P[k] + 1
    BY <1>3, <2>1
  <2>3. LineAt(t, P[k] + 1) = L[k + 1]
    BY <1>1, <1>2, LineAtIs
  <2>4. QED
    BY <2>1, <2>2, <2>3
<1>5. Logical(t) = [m \in 1..Len(L) |-> LineAt(t, Starts(t.buf)[m])]
  BY <1>3 DEF Logical, LinesAt
<1>6. Logical(t) = [m \in 1..Len(L) |-> L[m]]
  BY <1>4, <1>5
<1>7. QED
  BY <1>1, <1>3, <1>6 DEF CursorLine

\* The greatest element of a bounded set.
LEMMA MaxIs ==
  ASSUME NEW S \in SUBSET Nat, S # {}, NEW n \in Nat, \A y \in S : y <= n
  PROVE  Max(S) \in S /\ \A y \in S : y <= Max(S)
<1> DEFINE T == {n - y : y \in S}
           Top(x) == \A y \in S : x >= y
<1>1. T \in SUBSET Nat /\ T # {}
  <2>1. \A y \in S : n - y \in Nat
    OBVIOUS
  <2>2. QED
    BY <2>1
<1>2. PICK z \in T : \A v \in T : z <= v
  <2> HIDE DEF T
  <2>1. QED
    BY <1>1, LeastOf
<1>3. PICK x \in S : z = n - x
  BY <1>2
<1>4. ASSUME NEW y \in S
      PROVE  x >= y
  <2>1. n - x <= n - y
    BY <1>2, <1>3
  <2>2. QED
    BY <1>3, <2>1
<1>5. Max(S) = CHOOSE v \in S : Top(v)
  BY DEF Max
<1>6. Max(S) \in S /\ Top(Max(S))
  <2>1. Top(x)
    BY <1>4
  <2> HIDE DEF Top
  <2>2. QED
    BY <1>3, <1>5, <2>1
<1>7. QED
  BY <1>6

\* Trimming takes away rows below the cursor, all of them if they are blank.
LEMMA TrimmedIs ==
  ASSUME NEW buf \in Seq(Rows), NEW c \in 1..Len(buf)
  PROVE  \E m \in c..Len(buf) :
           /\ Trimmed(buf, c) = SubSeq(buf, 1, m)
           /\ (\A i \in (c + 1)..Len(buf) : buf[i].cells = 0) => m = c
<1> DEFINE used == {i \in DOMAIN buf : i <= c \/ buf[i].cells > 0}
           n == Len(buf)
<1>1. n \in Nat /\ DOMAIN buf = 1..n /\ c \in 1..n
  OBVIOUS
<1>2. used \in SUBSET Nat /\ c \in used /\ \A y \in used : y <= n
  BY <1>1
<1>3. Max(used) \in used /\ \A y \in used : y <= Max(used)
  <2> HIDE DEF used
  <2>1. used # {}
    BY <1>2
  <2>2. QED
    BY <1>1, <1>2, <2>1, MaxIs
<1>4. Trimmed(buf, c) = SubSeq(buf, 1, Max(used))
  BY DEF Trimmed
<1>5. Max(used) \in c..n
  BY <1>1, <1>2, <1>3
<1>6. ASSUME \A i \in (c + 1)..n : buf[i].cells = 0
      PROVE  Max(used) = c
  <2>1. SUFFICES ASSUME Max(used) # c
                 PROVE  FALSE
    OBVIOUS
  <2>2. Max(used) \in (c + 1)..n
    BY <1>1, <1>5, <2>1
  <2>3. buf[Max(used)].cells = 0
    BY <1>6, <2>2
  <2>4. Max(used) <= c \/ buf[Max(used)].cells > 0
    BY <1>3
  <2>5. QED
    BY <1>1, <2>2, <2>3, <2>4
<1>7. QED
  BY <1>4, <1>5, <1>6

\* Sequences of rows are equal when their rows are.
LEMMA SameRows ==
  ASSUME NEW a \in Seq(Rows), NEW b \in Seq(Rows), Len(a) = Len(b),
         \A i \in 1..Len(a) : a[i] = b[i]
  PROVE  a = b
BY SeqEqual

\* The first m rows.
LEMMA FirstRowsOf ==
  ASSUME NEW a \in Seq(Rows), NEW m \in 0..Len(a)
  PROVE  /\ SubSeq(a, 1, m) \in Seq(Rows) /\ Len(SubSeq(a, 1, m)) = m
         /\ \A i \in 1..m : SubSeq(a, 1, m)[i] = a[i]
<1>1. Len(a) \in Nat /\ \A i \in 1..m : a[i] \in Rows
  BY LenProperties
<1>2. /\ SubSeq(a, 1, m) \in Seq(Rows)
      /\ Len(SubSeq(a, 1, m)) = IF 1 <= m THEN m - 1 + 1 ELSE 0
      /\ \A i \in 1..(m - 1 + 1) : SubSeq(a, 1, m)[i] = a[1 + i - 1]
  BY <1>1, SubSeqProperties
<1>3. QED
  BY <1>1, <1>2

\* The rows of a single line.
LEMMA OneLine ==
  ASSUME NEW l \in Lines, NEW w \in Widths
  PROVE  /\ <<l>> \in Seq(Lines) /\ RowsOfAll(<<l>>, w) = RowsOf(l, w)
         /\ Len(RowsOfAll(<<l>>, w)) = PhysicalRows(l.cells, w)
<1>1. <<l>> \in Seq(Lines) /\ Len(<<l>>) = 1 /\ <<l>>[1] = l
  OBVIOUS
<1>2. RowsOfAll(<<l>>, w) \in Seq(Rows)
  BY <1>1, EmptySeq, RowsOfAllConcat
<1>3. PICK P : Placed(RowsOfAll(<<l>>, w), <<l>>, w, P)
  BY <1>1, EveryLinePlaced
<1> DEFINE M == <<l>>
           R == RowsOfAll(<<l>>, w)
<1>4. M \in Seq(Lines) /\ Len(M) = 1 /\ M[1] = l /\ Placed(R, M, w, P) /\ R \in Seq(Rows)
  BY <1>1, <1>2, <1>3
<1> HIDE DEF M, R
<1>5. /\ P[0] = 0 /\ P[1] = Len(R)
      /\ P[1] = P[0] + PhysicalRows(l.cells, w)
      /\ \A j \in 1..PhysicalRows(l.cells, w) : R[P[0] + j] = RowsOf(l, w)[j]
  <2>1. /\ P[0] = 0 /\ P[Len(M)] = Len(R)
        /\ \A k \in 0..(Len(M) - 1) :
             /\ P[k + 1] = P[k] + PhysicalRows(M[k + 1].cells, w)
             /\ \A j \in 1..PhysicalRows(M[k + 1].cells, w) : R[P[k] + j] = RowsOf(M[k + 1], w)[j]
    BY <1>4 DEF Placed
  <2>2. 0 \in 0..(Len(M) - 1) /\ 0 + 1 = 1
    BY <1>4
  <2>3. QED
    BY <1>4, <2>1, <2>2
<1>6. PhysicalRows(l.cells, w) \in Nat /\ RowsOf(l, w) \in Seq(Rows)
      /\ Len(RowsOf(l, w)) = PhysicalRows(l.cells, w)
  BY PhysicalRowsIs, RowsOfIs DEF Lines
<1>7. Len(R) = Len(RowsOf(l, w)) /\ \A i \in 1..Len(R) : R[i] = RowsOf(l, w)[i]
  BY <1>5, <1>6
<1>8. R = RowsOf(l, w)
  BY <1>4, <1>6, <1>7, SameRows
<1>9. QED
  BY <1>1, <1>6, <1>8 DEF R

\* The last line of L and the rows before it.
LEMMA LastLine ==
  ASSUME NEW L \in Seq(Lines), L # <<>>, NEW w \in Widths
  PROVE  LET l == L[Len(L)]
             front == SubSeq(L, 1, Len(L) - 1)
             n == PhysicalRows(l.cells, w)
             R == RowsOfAll(L, w)
         IN  /\ Len(L) \in Nat \ {0} /\ l \in Lines /\ front \in Seq(Lines)
             /\ R \in Seq(Rows) /\ RowsOfAll(front, w) \in Seq(Rows)
             /\ Len(R) = Len(RowsOfAll(front, w)) + n
             /\ n \in Nat \ {0} /\ Len(R) \in Nat \ {0} /\ n <= Len(R)
             /\ R[Len(R)].cells = l.cells - (n - 1) * w
             /\ R[Len(R)].cells = 0 <=> l.cells = 0
<1> DEFINE m == Len(L)
           l == L[m]
           front == SubSeq(L, 1, m - 1)
           n == PhysicalRows(l.cells, w)
           R == RowsOfAll(L, w)
           F == RowsOfAll(front, w)
<1>1. m \in Nat \ {0} /\ l \in Lines /\ <<l>> \in Seq(Lines) /\ Len(<<l>>) = 1 /\ <<l>>[1] = l
  BY EmptySeq
<1>2. front \in Seq(Lines) /\ Len(front) = m - 1 /\ \A i \in 1..(m - 1) : front[i] = L[i]
  <2>1. \A i \in 1..(m - 1) : L[i] \in Lines
    BY <1>1
  <2>2. m - 1 \in Nat
    BY <1>1
  <2> HIDE DEF m
  <2>3. /\ SubSeq(L, 1, m - 1) \in Seq(Lines)
        /\ Len(SubSeq(L, 1, m - 1)) = IF 1 <= m - 1 THEN m - 1 - 1 + 1 ELSE 0
        /\ \A i \in 1..(m - 1 - 1 + 1) : SubSeq(L, 1, m - 1)[i] = L[1 + i - 1]
    BY <2>1, <2>2, SubSeqProperties
  <2>4. QED
    BY <2>2, <2>3
<1>3. Joined(L, front, <<l>>)
  <2>1. Len(L) = m - 1 + 1 /\ L[m - 1 + 1] = l
    BY <1>1
  <2> HIDE DEF front, l, m
  <2>2. QED
    BY <1>1, <1>2, <2>1 DEF Joined
<1>4. R = F \o RowsOf(l, w) /\ F \in Seq(Rows) /\ RowsOf(l, w) \in Seq(Rows)
  <2> DEFINE last == <<l>>
  <2>1. RowsOfAll(last, w) = RowsOf(l, w)
    BY <1>1, OneLine
  <2>2. last \in Seq(Lines) /\ front \in Seq(Lines) /\ Joined(L, front, last)
    BY <1>1, <1>2, <1>3
  <2> HIDE DEF front, l, m, last
  <2>3. /\ RowsOfAll(L, w) = RowsOfAll(front, w) \o RowsOfAll(last, w)
        /\ RowsOfAll(front, w) \in Seq(Rows) /\ RowsOfAll(last, w) \in Seq(Rows)
    BY <2>2, RowsOfAllBehind
  <2>4. QED
    BY <2>1, <2>3
<1>5. n \in Nat \ {0} /\ l.cells \in Nat /\ Len(RowsOf(l, w)) = n
      /\ RowsOf(l, w)[n].cells = l.cells - (n - 1) * w
      /\ (l.cells = 0 => n = 1) /\ (l.cells > 0 => l.cells - (n - 1) * w > 0)
  <2>1. l.cells \in Nat
    BY <1>1 DEF Lines
  <2>2. /\ n \in Nat /\ n >= 1
        /\ l.cells = 0 => n = 1
        /\ l.cells > 0 => l.cells - (n - 1) * w > 0
    BY <2>1, PhysicalRowsIs
  <2>3. /\ Len(RowsOf(l, w)) = n
        /\ \A i \in 1..n :
             RowsOf(l, w)[i] = Row(l.tag, IF i < n THEN w ELSE l.cells - (n - 1) * w, i < n)
    BY <1>1, RowsOfIs
  <2> HIDE DEF n, l
  <2>4. n \in 1..n /\ ~(n < n)
    BY <2>2
  <2>5. RowsOf(l, w)[n] = Row(l.tag, IF n < n THEN w ELSE l.cells - (n - 1) * w, n < n)
    BY <2>3, <2>4
  <2>6. RowsOf(l, w)[n].cells = l.cells - (n - 1) * w
    BY <2>4, <2>5 DEF Row
  <2>7. QED
    BY <2>1, <2>2, <2>3, <2>6
<1> HIDE DEF m, l, front, n, R, F
<1>6. Len(R) = Len(F) + n /\ Len(F) \in Nat /\ R \in Seq(Rows) /\ R[Len(F) + n] = RowsOf(l, w)[n]
  <2> DEFINE b == RowsOf(l, w)
  <2>1. b \in Seq(Rows) /\ F \in Seq(Rows) /\ R = F \o b /\ Len(b) = n /\ n \in 1..n
    BY <1>4, <1>5
  <2> HIDE DEF b
  <2>2. Len(F) \in Nat /\ Len(b) \in Nat
    BY <2>1
  <2>3. /\ Len(F \o b) = Len(F) + Len(b) /\ F \o b \in Seq(Rows)
        /\ \A j \in 1..Len(b) : (F \o b)[Len(F) + j] = b[j]
    BY <2>1, <2>2, ConcatProperties
  <2>4. QED
    BY <2>1, <2>2, <2>3 DEF b
<1>7. R[Len(R)].cells = l.cells - (n - 1) * w
  BY <1>5, <1>6
<1>8. R[Len(R)].cells = 0 <=> l.cells = 0
  <2>1. CASE l.cells = 0
    <3>1. (n - 1) * w = 0 * w /\ 0 * w = 0
      BY <1>5, <2>1 DEF Widths
    <3>2. QED
      BY <1>7, <2>1, <3>1
  <2>2. CASE l.cells # 0
    <3>1. l.cells > 0
      BY <1>5, <2>2
    <3>2. QED
      BY <1>5, <1>7, <2>2, <3>1
  <2>3. QED
    BY <2>1, <2>2
<1>9. QED
  BY <1>1, <1>2, <1>4, <1>5, <1>6, <1>7, <1>8 DEF m, l, front, n, R, F

\* The last n rows are on the screen.
OnScreen(t, n) == t.cur - n >= t.top

\* A blank line has no cells,
LEMMA BlankCells ==
  /\ <<"blank", 0>> \in Tags
  /\ BlankLine = [tag |-> <<"blank", 0>>, cells |-> 0]
  /\ BlankRow = [tag |-> <<"blank", 0>>, cells |-> 0, soft |-> FALSE]
<1>2. <<"blank", 0>> \in Tags
  BY DEF Tags
<1>3. BlankLine = [tag |-> <<"blank", 0>>, cells |-> 0]
  BY DEF BlankLine, TextLine
<1>4. BlankRow = [tag |-> <<"blank", 0>>, cells |-> 0, soft |-> FALSE]
  BY DEF BlankRow, Row
<1>5. QED
  BY <1>2, <1>3, <1>4

\* is one of the lines,
LEMMA BlankTyped == BlankLine \in Lines /\ BlankRow \in Rows
<1> DEFINE tag == <<"blank", 0>>
<1>1. tag \in Tags /\ BlankLine = [tag |-> tag, cells |-> 0]
      /\ BlankRow = [tag |-> tag, cells |-> 0, soft |-> FALSE]
  BY BlankCells
<1> HIDE DEF tag
<1>2. QED
  BY <1>1 DEF Lines, Rows

\* and takes one row.
LEMMA BlankIs ==
  ASSUME NEW w \in Widths
  PROVE  /\ BlankLine \in Lines /\ <<BlankLine>> \in Seq(Lines)
         /\ RowsOfAll(<<BlankLine>>, w) = <<BlankRow>> /\ BlankRow \in Rows /\ BlankRow.cells = 0
<1>1. BlankLine \in Lines /\ BlankLine.cells = 0 /\ BlankLine.tag = <<"blank", 0>>
  BY BlankCells, BlankTyped
<1>2. PhysicalRows(BlankLine.cells, w) = 1
  BY <1>1, PhysicalRowsIs
<1>3. /\ RowsOf(BlankLine, w) \in Seq(Rows) /\ Len(RowsOf(BlankLine, w)) = 1
      /\ RowsOf(BlankLine, w)[1]
           = Row(BlankLine.tag, IF 1 < 1 THEN w ELSE BlankLine.cells - (1 - 1) * w, 1 < 1)
  <2>1. 1 \in 1..PhysicalRows(BlankLine.cells, w)
    BY <1>2
  <2>2. QED
    BY <1>1, <1>2, <2>1, RowsOfIs
<1>4. /\ (IF 1 < 1 THEN w ELSE BlankLine.cells - (1 - 1) * w) = 0
      /\ (1 < 1) = FALSE
  BY <1>1 DEF Widths
<1>5. RowsOf(BlankLine, w)[1] = BlankRow
  BY <1>1, <1>3, <1>4 DEF BlankRow
<1>6. RowsOf(BlankLine, w) = <<BlankRow>>
  BY <1>3, <1>5
<1>7. RowsOfAll(<<BlankLine>>, w) = RowsOf(BlankLine, w) /\ <<BlankLine>> \in Seq(Lines)
  BY <1>1, OneLine
<1>8. BlankRow \in Rows /\ BlankRow.cells = 0
  BY BlankCells, BlankTyped
<1>9. QED
  BY <1>1, <1>6, <1>7, <1>8

\* Lines below others.
LEMMA LinesBehind ==
  ASSUME NEW A \in Seq(Lines), NEW B \in Seq(Lines), B # <<>>
  PROVE  /\ A \o B \in Seq(Lines) /\ A \o B # <<>>
         /\ Len(A \o B) = Len(A) + Len(B) /\ Len(A) \in Nat /\ Len(B) \in Nat \ {0}
         /\ (A \o B)[Len(A) + Len(B)] = B[Len(B)]
<1>1. Len(A) \in Nat /\ Len(B) \in Nat \ {0}
  BY EmptySeq
<1>2. A \o B \in Seq(Lines) /\ Len(A \o B) = Len(A) + Len(B)
      /\ \A i \in 1..Len(B) : (A \o B)[Len(A) + i] = B[i]
  BY <1>1, ConcatProperties
<1>3. Len(B) \in 1..Len(B)
  BY <1>1
<1>4. (A \o B)[Len(A) + Len(B)] = B[Len(B)]
  BY <1>2, <1>3
<1>5. A \o B # <<>>
  BY <1>1, <1>2, EmptySeq
<1>6. QED
  BY <1>1, <1>2, <1>4, <1>5

\* CR LF behind what t shows.
LEMMA NewLineShows ==
  ASSUME NEW t, NEW L, Displays(t, L)
  PROVE  /\ Displays(NewLine(t), L \o <<BlankLine>>)
         /\ NewLine(t).w = t.w /\ NewLine(t).h = t.h /\ NewLine(t).home
         /\ NewLine(t).cur = t.cur + 1 /\ OnScreen(NewLine(t), 1)
<1> DEFINE u == NewLine(t)
           w == t.w
           B == <<BlankLine>>
<1>1. /\ t \in Terminals /\ L \in Seq(Lines) /\ t.buf = RowsOfAll(L, w) /\ t.cur = Len(t.buf)
      /\ t.top < t.cur /\ t.cur <= t.top + t.h
  BY DEF Displays
<1>2. w \in Widths /\ t.h \in Nat \ {0} /\ t.buf \in Seq(Rows) /\ t.cur \in Nat /\ t.top \in Nat
  BY <1>1 DEF Terminals
<1>3. /\ B \in Seq(Lines) /\ B # <<>> /\ RowsOfAll(B, w) = <<BlankRow>> /\ BlankRow \in Rows
  BY <1>2, BlankIs
<1>4. u = [t EXCEPT !.cur = t.cur + 1, !.top = Larger(t.top, t.cur + 1 - t.h),
                    !.buf = Append(t.buf, BlankRow), !.home = TRUE]
  BY <1>1 DEF NewLine
<1>5. Larger(t.top, t.cur + 1 - t.h) \in Nat
      /\ Larger(t.top, t.cur + 1 - t.h) < t.cur + 1
      /\ t.cur + 1 <= Larger(t.top, t.cur + 1 - t.h) + t.h
  BY <1>1, <1>2 DEF Larger
<1>6. Append(t.buf, BlankRow) \in Seq(Rows) /\ Len(Append(t.buf, BlankRow)) = t.cur + 1
      /\ Append(t.buf, BlankRow) = t.buf \o <<BlankRow>>
  BY <1>1, <1>2, <1>3, AppendIsConcat
<1>7. /\ u \in Terminals /\ u.w = w /\ u.h = t.h /\ u.home /\ u.cur = t.cur + 1
      /\ u.top = Larger(t.top, t.cur + 1 - t.h) /\ u.buf = Append(t.buf, BlankRow)
  <2>1. /\ u.w = w /\ u.h = t.h /\ u.home /\ u.cur = t.cur + 1
        /\ u.top = Larger(t.top, t.cur + 1 - t.h) /\ u.buf = Append(t.buf, BlankRow)
    BY <1>1, <1>4 DEF Terminals
  <2>2. u \in Terminals
    <3> DEFINE top == Larger(t.top, t.cur + 1 - t.h)
               buf == Append(t.buf, BlankRow)
               place == t.cur + 1
    <3>1. /\ u = [t EXCEPT !.cur = place, !.top = top, !.buf = buf, !.home = TRUE]
          /\ place \in Nat /\ top \in Nat /\ buf \in Seq(Rows)
      BY <1>2, <1>4, <1>5, <1>6
    <3> HIDE DEF top, buf, place, u
    <3>2. QED
      BY <1>1, <3>1 DEF Terminals
  <2>3. QED
    BY <2>1, <2>2
<1> HIDE DEF u, w, B
<1>8. /\ L \o B \in Seq(Lines) /\ L \o B # <<>>
      /\ RowsOfAll(L \o B, w) = RowsOfAll(L, w) \o RowsOfAll(B, w)
  <2>1. L \o B \in Seq(Lines) /\ L \o B # <<>>
    BY <1>1, <1>3, LinesBehind
  <2>2. RowsOfAll(L \o B, w) = RowsOfAll(L, w) \o RowsOfAll(B, w)
    BY <1>1, <1>2, <1>3, RowsOfAllConcat
  <2>3. QED
    BY <2>1, <2>2
<1>9. u.buf = RowsOfAll(L \o B, w)
  BY <1>1, <1>3, <1>6, <1>7, <1>8
<1>10. Displays(u, L \o B)
  BY <1>5, <1>6, <1>7, <1>8, <1>9 DEF Displays
<1>11. OnScreen(u, 1)
  BY <1>2, <1>5, <1>7 DEF OnScreen
<1>12. QED
  BY <1>7, <1>10, <1>11 DEF u, w, B

\* Cursor up, as far as the screen reaches.
LEMMA UpIs ==
  ASSUME NEW t \in Terminals, NEW n \in Nat, OnScreen(t, n + 1)
  PROVE  /\ Up(t, n) \in Terminals /\ Up(t, n).cur = t.cur - n /\ Up(t, n).home
         /\ Up(t, n).w = t.w /\ Up(t, n).h = t.h /\ Up(t, n).buf = t.buf /\ Up(t, n).top = t.top
<1>1. t.cur \in Nat /\ t.top \in Nat
  BY DEF Terminals
<1>2. Larger(t.cur - n, t.top + 1) = t.cur - n /\ t.cur - n \in Nat
  BY <1>1 DEF Larger, OnScreen
<1>3. Up(t, n) = [t EXCEPT !.cur = t.cur - n, !.home = TRUE]
  BY <1>2 DEF Up
<1>4. QED
  BY <1>2, <1>3 DEF Terminals

\* The rows n from row k on, in the place of what was there.
LEMMA WriteIs ==
  ASSUME NEW u \in Terminals, NEW n \in Seq(Rows), Len(n) > 0,
         NEW X \in 0..Len(u.buf), u.cur = X + 1
  PROVE  LET d == Write(u, n)
             end == X + Len(n)
         IN  /\ d \in Terminals /\ d.w = u.w /\ d.h = u.h /\ d.cur = end
             /\ d.top = Larger(u.top, end - u.h)
             /\ d.home <=> n[Len(n)].cells = 0
             /\ \E m \in end..Larger(end, Len(u.buf)) :
                  /\ Len(d.buf) = m
                  /\ end >= Len(u.buf) => m = end
                  /\ \A i \in 1..X : d.buf[i] = u.buf[i]
                  /\ \A i \in 1..Len(n) : d.buf[X + i] = n[i]
<1> DEFINE B    == Len(u.buf)
           N    == Len(n)
           end  == X + N
           x    == SubSeq(u.buf, 1, X)
           rest == SubSeq(u.buf, end + 1, B)
           xn   == x \o n
           Z    == xn \o rest
           d    == Write(u, n)
           top  == Larger(u.top, end - u.h)
<1>1. /\ B \in Nat /\ X \in Nat /\ X <= B /\ N \in Nat /\ N > 0 /\ u.buf \in Seq(Rows)
      /\ u.top \in Nat /\ u.h \in Nat /\ u.cur = X + 1 /\ end \in Nat
  BY DEF Terminals
<1>2. x \in Seq(Rows) /\ Len(x) = X /\ \A i \in 1..X : x[i] = u.buf[i]
  BY <1>1, FirstRowsOf
<1>3. rest \in Seq(Rows) /\ Len(rest) = IF end >= B THEN 0 ELSE B - end
  <2>1. end + 1 \in Int /\ B \in Int /\ \A i \in (end + 1)..B : u.buf[i] \in Rows
    BY <1>1
  <2> HIDE DEF end, B
  <2>2. /\ SubSeq(u.buf, end + 1, B) \in Seq(Rows)
        /\ Len(SubSeq(u.buf, end + 1, B))
             = IF end + 1 <= B THEN B - (end + 1) + 1 ELSE 0
    BY <2>1, SubSeqProperties
  <2>3. QED
    BY <1>1, <2>2
<1>4. Write(u, n) = [u EXCEPT !.buf = Trimmed(Z, end), !.cur = end, !.top = top,
                              !.home = n[N].cells = 0]
  <2>1. u.cur + Len(n) - 1 = end /\ u.cur - 1 = X
    BY <1>1
  <2>2. QED
    BY <2>1 DEF Write
<1> HIDE DEF x, rest, B, N, end, d
<1>5. /\ xn \in Seq(Rows) /\ Len(xn) = end
      /\ \A i \in 1..X : xn[i] = u.buf[i]
      /\ \A i \in 1..N : xn[X + i] = n[i]
  <2>1. n \in Seq(Rows) /\ N = Len(n) /\ end = X + N
    BY DEF N, end
  <2>2. /\ Len(x \o n) = Len(x) + Len(n) /\ x \o n \in Seq(Rows)
        /\ \A i \in 1..Len(x) : (x \o n)[i] = x[i]
        /\ \A i \in 1..Len(n) : (x \o n)[Len(x) + i] = n[i]
    <3>1. x \in Seq(Rows) /\ n \in Seq(Rows)
      BY <1>2
    <3>2. QED
      BY <3>1, ConcatProperties
  <2>3. QED
    BY <1>1, <1>2, <2>1, <2>2
<1> HIDE DEF xn
<1>6. /\ Z \in Seq(Rows) /\ Len(Z) = end + Len(rest)
      /\ \A i \in 1..end : Z[i] = xn[i]
  <2>1. /\ Len(xn \o rest) = Len(xn) + Len(rest) /\ xn \o rest \in Seq(Rows)
        /\ \A i \in 1..Len(xn) : (xn \o rest)[i] = xn[i]
    <3>1. xn \in Seq(Rows) /\ rest \in Seq(Rows)
      BY <1>3, <1>5
    <3>2. QED
      BY <3>1, ConcatProperties
  <2>2. QED
    BY <1>5, <2>1
<1> HIDE DEF Z
<1>7. Len(Z) = Larger(end, B) /\ end \in 1..Len(Z) /\ Len(Z) \in Nat
  BY <1>1, <1>3, <1>6 DEF Larger, end
<1>8. PICK m \in end..Len(Z) : /\ Trimmed(Z, end) = SubSeq(Z, 1, m)
                               /\ (\A i \in (end + 1)..Len(Z) : Z[i].cells = 0) => m = end
  BY <1>6, <1>7, TrimmedIs
<1>9. /\ m \in 0..Len(Z) /\ SubSeq(Z, 1, m) \in Seq(Rows) /\ Len(SubSeq(Z, 1, m)) = m
      /\ \A i \in 1..m : SubSeq(Z, 1, m)[i] = Z[i]
  <2>1. m \in 0..Len(Z)
    BY <1>1, <1>7
  <2>2. QED
    BY <1>6, <2>1, FirstRowsOf
<1>10. /\ d \in Terminals /\ d.w = u.w /\ d.h = u.h /\ d.cur = end /\ d.top = top
       /\ d.buf = SubSeq(Z, 1, m)
       /\ d.home <=> n[N].cells = 0
  <2>1. top \in Nat
    BY <1>1 DEF Larger
  <2> HIDE DEF top
  <2>2. d = [u EXCEPT !.buf = SubSeq(Z, 1, m), !.cur = end, !.top = top,
                      !.home = n[N].cells = 0]
    BY <1>4, <1>8 DEF d, top
  <2> DEFINE zm == SubSeq(Z, 1, m)
             hm == n[N].cells = 0
  <2>3. hm \in BOOLEAN /\ zm \in Seq(Rows)
    BY <1>9
  <2>4. d = [u EXCEPT !.buf = zm, !.cur = end, !.top = top, !.home = hm]
    BY <2>2
  <2> HIDE DEF hm, zm
  <2>5. /\ d \in Terminals /\ d.w = u.w /\ d.h = u.h /\ d.cur = end /\ d.top = top
        /\ d.buf = zm /\ d.home = hm
    BY <1>1, <2>1, <2>3, <2>4 DEF Terminals
  <2>6. QED
    BY <2>5 DEF hm, zm
<1>11. end >= B => m = end
  BY <1>1, <1>7, <1>8 DEF Larger
<1>12. ASSUME NEW i \in 1..X
       PROVE  d.buf[i] = u.buf[i]
  <2>1. i \in 1..m /\ i \in 1..end
    BY <1>1, <1>7 DEF end
  <2>2. QED
    BY <1>5, <1>6, <1>9, <1>10, <2>1
<1>13. ASSUME NEW i \in 1..N
       PROVE  d.buf[X + i] = n[i]
  <2>1. X + i \in 1..m /\ X + i \in 1..end
    BY <1>1, <1>7 DEF end
  <2>2. QED
    BY <1>5, <1>6, <1>9, <1>10, <2>1
<1>14. m \in end..Larger(end, B) /\ Len(d.buf) = m
  BY <1>7, <1>9, <1>10
<1>15. QED
  BY <1>10, <1>11, <1>12, <1>13, <1>14 DEF B, N, end, d

\* Clearing the k rows below the cursor, all of them on the screen.
LEMMA ClearBelowIs ==
  ASSUME NEW d \in Terminals, NEW k \in Nat \ {0}, d.cur \in 1..Len(d.buf),
         Len(d.buf) <= d.cur + k, d.cur + k <= d.top + d.h, d.top < d.cur
  PROVE  LET c == ClearBelow(d, k)
         IN  /\ c \in Terminals /\ c.w = d.w /\ c.h = d.h /\ c.cur = d.cur /\ c.top = d.top
             /\ c.home /\ Len(c.buf) = d.cur
             /\ \A i \in 1..d.cur : c.buf[i] = d.buf[i]
<1> DEFINE n == d.cur
           cleared == {Smaller(n + i, Bottom(d)) : i \in 1..k}
           buf == [i \in DOMAIN d.buf |-> IF i \in cleared THEN BlankRow ELSE d.buf[i]]
           place == Larger(Smaller(n + k, Bottom(d)) - k, d.top + 1)
           c == ClearBelow(d, k)
           m == Len(d.buf)
<1>1. /\ d.buf \in Seq(Rows) /\ m \in Nat /\ n \in 1..m /\ d.top \in Nat /\ d.h \in Nat
      /\ DOMAIN d.buf = 1..m /\ m <= n + k /\ n \in Nat
  BY DEF Terminals
<1>2. cleared = (n + 1)..(n + k)
  <2>1. \A i \in 1..k : Smaller(n + i, Bottom(d)) = n + i
    BY <1>1 DEF Smaller, Bottom
  <2>2. \A i \in 1..k : n + i \in (n + 1)..(n + k)
    BY <1>1
  <2>3. \A j \in (n + 1)..(n + k) : j - n \in 1..k /\ n + (j - n) = j
    BY <1>1
  <2>4. QED
    BY <2>1, <2>2, <2>3
<1>3. place = n
  BY <1>1 DEF Smaller, Larger, Bottom
<1>4. /\ buf \in Seq(Rows) /\ Len(buf) = m
      /\ \A i \in 1..n : buf[i] = d.buf[i]
      /\ \A i \in (n + 1)..m : buf[i].cells = 0
  <2>1. BlankRow \in Rows /\ BlankRow.cells = 0
    BY BlankCells, BlankTyped
  <2> HIDE DEF cleared, m, n
  <2>2. \A i \in 1..m : d.buf[i] \in Rows
    BY <1>1
  <2>3. \A i \in 1..m : buf[i] \in Rows
    BY <1>1, <2>1, <2>2
  <2>4. buf \in Seq(Rows) /\ Len(buf) = m
    BY <1>1, <2>3
  <2>5. \A i \in 1..n : buf[i] = d.buf[i]
    BY <1>1, <1>2
  <2>6. ASSUME NEW i \in (n + 1)..m
        PROVE  buf[i].cells = 0
    <3>1. i \in 1..m /\ i \in cleared
      BY <1>1, <1>2
    <3>2. buf[i] = BlankRow
      BY <1>1, <3>1
    <3>3. QED
      BY <2>1, <3>2
  <2>7. QED
    BY <2>4, <2>5, <2>6
<1>5. c = [d EXCEPT !.buf = Trimmed(SubSeq(buf, 1, Len(buf)), place), !.cur = place, !.home = TRUE]
  BY DEF ClearBelow
<1> HIDE DEF cleared, buf, place, c, n, m
<1>6. SubSeq(buf, 1, Len(buf)) = buf
  <2>1. m \in 0..Len(buf)
    BY <1>1, <1>4
  <2>2. /\ SubSeq(buf, 1, m) \in Seq(Rows) /\ Len(SubSeq(buf, 1, m)) = m
        /\ \A i \in 1..m : SubSeq(buf, 1, m)[i] = buf[i]
    BY <1>4, <2>1, FirstRowsOf
  <2>3. SubSeq(buf, 1, m) = buf
    BY <1>4, <2>2, SameRows
  <2>4. QED
    BY <1>4, <2>3
<1>7. Trimmed(buf, n) = SubSeq(buf, 1, n)
  <2>1. n \in 1..Len(buf)
    BY <1>1, <1>4
  <2>2. PICK p \in n..Len(buf) : /\ Trimmed(buf, n) = SubSeq(buf, 1, p)
                                 /\ (\A i \in (n + 1)..Len(buf) : buf[i].cells = 0) => p = n
    BY <1>4, <2>1, TrimmedIs
  <2>3. QED
    BY <1>4, <2>2
<1>8. /\ SubSeq(buf, 1, n) \in Seq(Rows) /\ Len(SubSeq(buf, 1, n)) = n
      /\ \A i \in 1..n : SubSeq(buf, 1, n)[i] = buf[i]
  <2>1. n \in 0..Len(buf)
    BY <1>1, <1>4
  <2>2. QED
    BY <1>4, <2>1, FirstRowsOf
<1>9. /\ c \in Terminals /\ c.w = d.w /\ c.h = d.h /\ c.cur = n /\ c.top = d.top /\ c.home
      /\ c.buf = SubSeq(buf, 1, n)
  <2> DEFINE z == SubSeq(buf, 1, n)
  <2>1. z \in Seq(Rows) /\ c = [d EXCEPT !.buf = z, !.cur = n, !.home = TRUE]
    BY <1>3, <1>5, <1>6, <1>7, <1>8
  <2> HIDE DEF z
  <2>2. /\ c \in Terminals /\ c.w = d.w /\ c.h = d.h /\ c.cur = n /\ c.top = d.top /\ c.home
        /\ c.buf = z
    BY <1>1, <2>1 DEF Terminals
  <2>3. QED
    BY <2>2 DEF z
<1>10. QED
  BY <1>4, <1>8, <1>9 DEF c, n

\* The cursor is in column 0 of the n-th row from the end.
At(t, n, u) ==
  /\ u \in Terminals /\ u.w = t.w /\ u.h = t.h /\ u.buf = t.buf /\ u.top = t.top
  /\ u.cur = t.cur - (n - 1) /\ u.home

\* Cursor up to the first of the last n rows.
LEMMA UpAt ==
  ASSUME NEW t \in Terminals, NEW n \in Nat \ {0}, OnScreen(t, n)
  PROVE  At(t, n, Up(t, n - 1))
<1>1. n - 1 \in Nat /\ n - 1 + 1 = n
  OBVIOUS
<1>2. QED
  BY <1>1, UpIs DEF At

\* A cursor in column 0 is where the last row begins.
LEMMA HomeAt ==
  ASSUME NEW t \in Terminals, t.home
  PROVE  At(t, 1, t)
<1>1. t.cur = t.cur - (1 - 1)
  BY DEF Terminals
<1>2. QED
  BY <1>1 DEF At

\* How many rows are to be cleared when n rows take the place of b.
Stale(k, b, n) == (n < b => k = b - n) /\ (n >= b => k <= 0)

\* Nothing to clear.
LEMMA ClearNothing ==
  ASSUME NEW t, NEW k, k <= 0
  PROVE  ClearBelow(t, k) = t
BY DEF ClearBelow

\* The rows n have taken the place of the rows o behind x.
Overwritten(t, x, o, n, c) ==
  /\ c \in Terminals /\ c.w = t.w /\ c.h = t.h
  /\ c.buf = x \o n /\ c.cur = Len(x) + Len(n)
  /\ c.top = Larger(t.top, c.cur - t.h)
  /\ c.home <=> Len(n) < Len(o) \/ n[Len(n)].cells = 0

\* Up, new rows, and the clearing of those they do not cover: the rows above stay.
LEMMA OverRows ==
  ASSUME NEW t \in Terminals, NEW x \in Seq(Rows), NEW o \in Seq(Rows), NEW n \in Seq(Rows),
         Len(o) > 0, Len(n) > 0, t.buf = x \o o, t.cur = Len(t.buf),
         OnScreen(t, Len(o)), t.cur <= t.top + t.h, NEW u, At(t, Len(o), u),
         NEW k \in Int, Stale(k, Len(o), Len(n))
  PROVE  Overwritten(t, x, o, n, ClearBelow(Write(u, n), k))
<1> DEFINE X == Len(x)
           B == Len(o)
           N == Len(n)
           end == X + N
           d == Write(u, n)
           c == ClearBelow(d, k)
           xn == x \o n
<1>1. /\ X \in Nat /\ B \in Nat /\ N \in Nat /\ B > 0 /\ N > 0
      /\ t.top \in Nat /\ t.h \in Nat /\ end \in Nat
  BY DEF Terminals
<1>2. /\ Len(t.buf) = X + B /\ t.cur = X + B
      /\ \A i \in 1..X : t.buf[i] = x[i]
  <2>1. /\ Len(x \o o) = Len(x) + Len(o)
        /\ \A i \in 1..Len(x) : (x \o o)[i] = x[i]
    BY <1>1, ConcatProperties
  <2>2. QED
    BY <2>1
<1>3. /\ u \in Terminals /\ u.w = t.w /\ u.h = t.h /\ u.buf = t.buf /\ u.top = t.top
      /\ u.cur = X + 1
  BY <1>1, <1>2 DEF At
<1>4. /\ xn \in Seq(Rows) /\ Len(xn) = end
      /\ \A i \in 1..X : xn[i] = x[i]
      /\ \A i \in 1..N : xn[X + i] = n[i]
  BY <1>1, ConcatProperties
<1>5. t.top <= X /\ X + B <= t.top + t.h
  BY <1>1, <1>2 DEF OnScreen
<1>6. /\ d \in Terminals /\ d.w = t.w /\ d.h = t.h /\ d.cur = end
      /\ d.top = Larger(t.top, end - t.h)
      /\ d.home <=> n[N].cells = 0
      /\ \E m \in end..Larger(end, X + B) :
           /\ Len(d.buf) = m
           /\ end >= X + B => m = end
           /\ \A i \in 1..X : d.buf[i] = t.buf[i]
           /\ \A i \in 1..N : d.buf[X + i] = n[i]
  <2>1. X \in 0..Len(u.buf) /\ u.cur = X + 1 /\ Len(n) > 0
    BY <1>1, <1>2, <1>3
  <2> HIDE DEF X
  <2>2. LET dd == Write(u, n)
            ee == X + Len(n)
        IN  /\ dd \in Terminals /\ dd.w = u.w /\ dd.h = u.h /\ dd.cur = ee
            /\ dd.top = Larger(u.top, ee - u.h)
            /\ dd.home <=> n[Len(n)].cells = 0
            /\ \E m \in ee..Larger(ee, Len(u.buf)) :
                 /\ Len(dd.buf) = m
                 /\ ee >= Len(u.buf) => m = ee
                 /\ \A i \in 1..X : dd.buf[i] = u.buf[i]
                 /\ \A i \in 1..Len(n) : dd.buf[X + i] = n[i]
    BY <1>3, <2>1, WriteIs
  <2>3. QED
    BY <1>2, <1>3, <2>2
<1>7. PICK m \in end..Larger(end, X + B) :
        /\ Len(d.buf) = m
        /\ end >= X + B => m = end
        /\ \A i \in 1..X : d.buf[i] = t.buf[i]
        /\ \A i \in 1..N : d.buf[X + i] = n[i]
  BY <1>6
<1>8. \A i \in 1..end : d.buf[i] = xn[i]
  <2> SUFFICES ASSUME NEW i \in 1..end
               PROVE  d.buf[i] = xn[i]
    OBVIOUS
  <2> HIDE DEF X, N, d, xn
  <2>1. CASE i <= X
    <3>1. i \in 1..X
      BY <1>1, <2>1
    <3>2. QED
      BY <1>2, <1>4, <1>7, <3>1
  <2>2. CASE i > X
    <3>1. i - X \in 1..N /\ X + (i - X) = i
      BY <1>1, <2>2
    <3>2. d.buf[X + (i - X)] = xn[X + (i - X)]
      BY <1>4, <1>7, <3>1
    <3>3. QED
      BY <3>1, <3>2
  <2>3. QED
    BY <1>1, <2>1, <2>2
<1>9. CASE N >= B
  <2>1. k <= 0
    BY <1>9 DEF Stale
  <2>2. c = d
    BY <2>1, ClearNothing
  <2>3. m = end
    BY <1>1, <1>7, <1>9
  <2>4. d.buf \in Seq(Rows)
    BY <1>6 DEF Terminals
  <2>5. d.buf = xn
    <3> HIDE DEF d, xn, end
    <3>1. Len(d.buf) = Len(xn) /\ \A i \in 1..Len(d.buf) : d.buf[i] = xn[i]
      BY <1>4, <1>7, <1>8, <2>3
    <3>2. QED
      BY <1>4, <2>4, <3>1, SameRows
  <2>6. ~(N < B)
    BY <1>1, <1>9
  <2> HIDE DEF d, c, end, xn, N, B, X
  <2>7. /\ c \in Terminals /\ c.w = t.w /\ c.h = t.h
        /\ c.buf = xn /\ c.cur = end
        /\ c.top = Larger(t.top, c.cur - t.h)
        /\ c.home <=> N < B \/ n[N].cells = 0
    BY <1>6, <2>2, <2>5, <2>6
  <2>8. QED
    BY <2>7 DEF c, d, end, xn, N, B, X, Overwritten
<1>10. CASE N < B
  <2>1. k = B - N /\ k \in Nat \ {0}
    BY <1>1, <1>10 DEF Stale
  <2>2. d.top = t.top
    BY <1>1, <1>5, <1>6, <1>10 DEF Larger
  <2>3. /\ d.cur \in 1..Len(d.buf) /\ Len(d.buf) <= d.cur + k
        /\ d.cur + k <= d.top + d.h /\ d.top < d.cur
    BY <1>1, <1>5, <1>6, <1>7, <1>10, <2>1, <2>2 DEF Larger
  <2> HIDE DEF d
  <2>4. /\ c \in Terminals /\ c.w = d.w /\ c.h = d.h /\ c.cur = d.cur /\ c.top = d.top
        /\ c.home /\ Len(c.buf) = d.cur
        /\ \A i \in 1..d.cur : c.buf[i] = d.buf[i]
    BY <1>6, <2>1, <2>3, ClearBelowIs
  <2> HIDE DEF c, end, xn
  <2>5. c.buf \in Seq(Rows)
    BY <2>4 DEF Terminals
  <2>6. c.buf = xn
    <3>1. Len(c.buf) = Len(xn) /\ \A i \in 1..Len(c.buf) : c.buf[i] = xn[i]
      BY <1>4, <1>6, <1>8, <2>4
    <3>2. QED
      BY <1>4, <2>5, <3>1, SameRows
  <2>7. t.top = Larger(t.top, end - t.h)
    BY <1>6, <2>2
  <2>8. /\ c \in Terminals /\ c.w = t.w /\ c.h = t.h
        /\ c.buf = xn /\ c.cur = end
        /\ c.top = Larger(t.top, c.cur - t.h)
        /\ c.home <=> N < B \/ n[N].cells = 0
    BY <1>6, <1>10, <2>2, <2>4, <2>6, <2>7
  <2>9. QED
    BY <2>8 DEF c, d, end, xn, Overwritten
<1>11. QED
  BY <1>1, <1>9, <1>10

\* Lines take at least one row, and the last row is blank iff the last line is.
LEMMA RowsOfSome ==
  ASSUME NEW L \in Seq(Lines), L # <<>>, NEW w \in Widths
  PROVE  /\ RowsOfAll(L, w) \in Seq(Rows) /\ Len(RowsOfAll(L, w)) \in Nat \ {0}
         /\ RowsOfAll(L, w)[Len(RowsOfAll(L, w))].cells = 0 <=> L[Len(L)].cells = 0
BY LastLine

\* The lines new take the place of the lines old at the end of what t shows.
LEMMA OverShows ==
  ASSUME NEW A \in Seq(Lines), NEW old \in Seq(Lines), NEW new \in Seq(Lines),
         old # <<>>, new # <<>>, NEW t, Displays(t, A \o old),
         OnScreen(t, Len(RowsOfAll(old, t.w))),
         NEW u, At(t, Len(RowsOfAll(old, t.w)), u),
         NEW k \in Int, Stale(k, Len(RowsOfAll(old, t.w)), Len(RowsOfAll(new, t.w)))
  PROVE  LET c == ClearBelow(Write(u, Text(u, new)), k)
             n == Len(RowsOfAll(new, t.w))
         IN  /\ Displays(c, A \o new) /\ c.w = t.w /\ c.h = t.h
             /\ \A m \in 0..n : m <= t.h => OnScreen(c, m)
             /\ c.home <=> n < Len(RowsOfAll(old, t.w)) \/ new[Len(new)].cells = 0
<1> DEFINE w == t.w
           x == RowsOfAll(A, w)
           o == RowsOfAll(old, w)
           n == RowsOfAll(new, w)
           c == ClearBelow(Write(u, Text(u, new)), k)
<1>1. /\ t \in Terminals /\ w \in Widths /\ t.buf = RowsOfAll(A \o old, w) /\ t.cur = Len(t.buf)
      /\ t.top < t.cur /\ t.cur <= t.top + t.h /\ t.top \in Nat /\ t.h \in Nat \ {0}
  BY DEF Displays, Terminals
<1>2. /\ x \in Seq(Rows) /\ o \in Seq(Rows) /\ n \in Seq(Rows)
      /\ t.buf = x \o o /\ RowsOfAll(A \o new, w) = x \o n
  BY <1>1, RowsOfAllConcat
<1>3. Len(o) \in Nat \ {0} /\ Len(n) \in Nat \ {0}
      /\ (n[Len(n)].cells = 0 <=> new[Len(new)].cells = 0)
  BY <1>1, RowsOfSome
<1>4. Text(u, new) = n
  BY DEF Text, At
<1>5. A \o new \in Seq(Lines) /\ A \o new # <<>>
  BY LinesBehind
<1> HIDE DEF x, o, n, w
<1>6. Len(o) > 0 /\ Len(n) > 0 /\ Len(x) \in Nat
  BY <1>2, <1>3
<1>7. OnScreen(t, Len(o)) /\ At(t, Len(o), u) /\ Stale(k, Len(o), Len(n))
  BY DEF o, n, w
<1>8. Overwritten(t, x, o, n, ClearBelow(Write(u, n), k))
  BY <1>1, <1>2, <1>6, <1>7, OverRows
<1>9. /\ c \in Terminals /\ c.w = w /\ c.h = t.h
      /\ c.buf = x \o n /\ c.cur = Len(x) + Len(n)
      /\ c.top = Larger(t.top, c.cur - t.h)
      /\ c.home <=> Len(n) < Len(o) \/ n[Len(n)].cells = 0
  BY <1>4, <1>8 DEF w, Overwritten
<1> HIDE DEF c
<1>10. Len(x \o n) = Len(x) + Len(n) /\ Len(x \o o) = Len(x) + Len(o)
  BY <1>2, ConcatProperties
<1>11. t.top <= Len(x)
  BY <1>1, <1>2, <1>3, <1>6, <1>7, <1>10 DEF OnScreen
<1>12. Displays(c, A \o new)
  <2>1. c.top < c.cur /\ c.cur <= c.top + c.h
    <3> DEFINE e == c.cur
    <3>1. e \in Nat /\ t.top < e
      <4>1. e = Len(x) + Len(n) /\ Len(x) \in Nat /\ Len(n) \in Nat \ {0} /\ t.top \in Nat
        BY <1>1, <1>3, <1>6, <1>9
      <4> HIDE DEF e
      <4>2. QED
        BY <1>11, <4>1
    <3>2. c.top = Larger(t.top, e - t.h) /\ c.h = t.h
      BY <1>9
    <3> HIDE DEF e
    <3>3. c.top < e /\ e <= c.top + t.h
      BY <1>1, <3>1, <3>2 DEF Larger
    <3>4. QED
      BY <3>2, <3>3 DEF e
  <2>2. c.buf = RowsOfAll(A \o new, c.w) /\ c.cur = Len(c.buf)
    BY <1>2, <1>9, <1>10
  <2>3. QED
    BY <1>5, <1>9, <2>1, <2>2 DEF Displays
<1>13. ASSUME NEW m \in 0..Len(n), m <= t.h
       PROVE  OnScreen(c, m)
  <2> DEFINE e == c.cur
             a == t.top
             h == t.h
             b == Len(x)
  <2>1. /\ a \in Nat /\ h \in Nat /\ b \in Nat /\ a <= b /\ Len(n) \in Nat /\ e = b + Len(n)
        /\ c.top = Larger(a, e - h)
    BY <1>1, <1>3, <1>6, <1>9, <1>11
  <2> HIDE DEF e, a, b
  <2>2. e - m >= c.top
    BY <1>13, <2>1 DEF Larger, h
  <2>3. QED
    BY <2>2 DEF OnScreen, e
<1>14. QED
  BY <1>3, <1>9, <1>12, <1>13 DEF c, n, o, w

\* A new size, with the cursor behind the text of its line.
LEMMA RewrappedShows ==
  ASSUME NEW L, NEW t, Displays(t, L), ~t.home \/ L[Len(L)].cells = 0,
         NEW w \in Widths, NEW h \in Nat \ {0}
  PROVE  LET u == Rewrapped(t, L, Len(L), Starts(t.buf)[Len(L)], w, h)
         IN  /\ Displays(u, L) /\ u.w = w /\ u.h = h /\ u.home = t.home
             /\ \A m \in 0..Len(RowsOfAll(L, w)) : m <= h => OnScreen(u, m)
<1> DEFINE N == Len(L)
           l == L[N]
           front == SubSeq(L, 1, N - 1)
           start == Starts(t.buf)[N]
           p == PhysicalRows(l.cells, t.w)
           q == PhysicalRows(l.cells, w)
           R == RowsOfAll(L, w)
           F == RowsOfAll(front, w)
           within == RowWithin(t, start, w)
           place == Len(F) + within + 1
           u == Rewrapped(t, L, N, start, w, h)
<1>1. /\ t \in Terminals /\ L \in Seq(Lines) /\ L # <<>> /\ t.w \in Widths
      /\ t.buf = RowsOfAll(L, t.w) /\ t.cur = Len(t.buf) /\ t.home \in BOOLEAN
  BY DEF Displays, Terminals
<1>2. /\ N \in Nat \ {0} /\ l \in Lines /\ l.cells \in Nat /\ p \in Nat \ {0}
      /\ p <= t.cur /\ t.cur \in Nat
      /\ t.buf[t.cur].cells = l.cells - (p - 1) * t.w
  <2> DEFINE B == RowsOfAll(L, t.w)
  <2>1. /\ N \in Nat \ {0} /\ l \in Lines /\ p \in Nat \ {0}
        /\ Len(B) \in Nat /\ p <= Len(B)
        /\ B[Len(B)].cells = l.cells - (p - 1) * t.w
    BY <1>1, LastLine
  <2> HIDE DEF B, p, l, N
  <2>2. t.buf = B /\ t.cur = Len(B)
    BY <1>1 DEF B
  <2>3. QED
    BY <2>1, <2>2 DEF Lines
<1>3. /\ R \in Seq(Rows) /\ q \in Nat \ {0} /\ Len(R) = Len(F) + q /\ Len(F) \in Nat
      /\ Len(R) \in Nat \ {0}
  BY <1>1, LastLine
<1>4. start = t.cur - p + 1
  <2>1. DOMAIN t.buf = 1..Len(t.buf)
    BY <1>1 DEF Terminals
  <2>2. PICK P : Placed(t.buf, L, t.w, P)
    BY <1>1, EveryLinePlaced
  <2>3. N - 1 \in 0..(N - 1) /\ N - 1 + 1 = N
    BY <1>2
  <2>4. Starts(t.buf)[N - 1 + 1] = P[N - 1] + 1
    BY <1>1, <2>1, <2>2, <2>3, StartsAre
  <2>5. P[N - 1] \in Nat /\ P[N - 1 + 1] \in Nat
        /\ P[N - 1 + 1] - P[N - 1] = PhysicalRows(L[N - 1 + 1].cells, t.w)
    BY <1>1, <2>2, <2>3, PlacedRow
  <2>6. P[N] = t.cur
    BY <1>1, <2>2 DEF Placed
  <2>7. start = P[N - 1] + 1 /\ P[N - 1] \in Nat /\ t.cur - P[N - 1] = p
    BY <2>3, <2>4, <2>5, <2>6
  <2> HIDE DEF start, p
  <2>8. QED
    BY <1>2, <2>7
<1>5. u = [w |-> w, h |-> h, buf |-> R, cur |-> place, top |-> Larger(0, place - h),
           home |-> t.home]
  BY DEF Rewrapped
<1> HIDE DEF start, R, F, u, front
<1>6. within = q - 1
  <2>1. t.cur - start = p - 1
    BY <1>2, <1>4
  <2>2. CASE t.home
    <3>1. l.cells = 0
      BY <2>2
    <3>2. p = 1 /\ q = 1
      BY <1>1, <3>1, PhysicalRowsIs
    <3>3. t.w \in Nat \ {0} /\ 0 * t.w = 0 /\ 0 \div w = 0
      BY <1>1 DEF Widths
    <3>4. QED
      BY <2>1, <2>2, <3>2, <3>3 DEF RowWithin
  <2>3. CASE ~t.home
    <3> DEFINE a == (p - 1) * t.w
    <3>1. a \in Int
      BY <1>1, <1>2 DEF Widths
    <3>2. (t.cur - start) * t.w + t.buf[t.cur].cells = a + (l.cells - a)
      BY <1>2, <2>1
    <3> HIDE DEF a
    <3>3. a + (l.cells - a) = l.cells
      BY <1>2, <3>1
    <3>4. QED
      BY <2>3, <3>2, <3>3 DEF RowWithin
  <2>4. QED
    BY <1>1, <2>2, <2>3
<1> HIDE DEF within, q, p, l, N
<1>7. place = Len(R)
  BY <1>3, <1>6
<1> HIDE DEF place
<1>8. Larger(0, Len(R) - h) \in Nat /\ Larger(0, Len(R) - h) < Len(R)
      /\ Len(R) <= Larger(0, Len(R) - h) + h
  BY <1>3 DEF Larger
<1>9. /\ u \in Terminals /\ u.w = w /\ u.h = h /\ u.buf = R /\ u.cur = Len(R)
      /\ u.top = Larger(0, Len(R) - h) /\ u.home = t.home
  <2> DEFINE top == Larger(0, Len(R) - h)
  <2>1. u = [w |-> w, h |-> h, buf |-> R, cur |-> Len(R), top |-> top, home |-> t.home]
    BY <1>5, <1>7
  <2>2. top \in Nat /\ Len(R) \in Nat
    BY <1>3, <1>8
  <2> HIDE DEF top
  <2>3. u \in Terminals
    BY <1>1, <1>3, <2>1, <2>2 DEF Terminals
  <2>4. QED
    BY <2>1, <2>3 DEF top
<1>10. Displays(u, L)
  BY <1>1, <1>8, <1>9 DEF Displays, R
<1>11. ASSUME NEW m \in 0..Len(R), m <= h
       PROVE  OnScreen(u, m)
  BY <1>3, <1>8, <1>9, <1>11 DEF OnScreen, Larger
<1>12. QED
  BY <1>9, <1>10, <1>11 DEF u, start, R, N

------------------------------------------------------------------------------
(* The window: widths of the terminal *)

\* What the window does to a terminal leaves its width as it is.
HasWidth(t) == "w" \in DOMAIN t

LEMMA NewLineWidth ==
  ASSUME NEW t, HasWidth(t)
  PROVE  HasWidth(NewLine(t)) /\ NewLine(t).w = t.w
BY DEF HasWidth, NewLine

LEMMA UpWidth ==
  ASSUME NEW t, HasWidth(t), NEW n
  PROVE  HasWidth(Up(t, n)) /\ Up(t, n).w = t.w
BY DEF HasWidth, Up

LEMMA WriteWidth ==
  ASSUME NEW t, HasWidth(t), NEW rows
  PROVE  HasWidth(Write(t, rows)) /\ Write(t, rows).w = t.w
BY DEF HasWidth, Write

LEMMA ClearBelowWidth ==
  ASSUME NEW t, HasWidth(t), NEW n
  PROVE  HasWidth(ClearBelow(t, n)) /\ ClearBelow(t, n).w = t.w
BY DEF HasWidth, ClearBelow

\* A program does not change the width of its terminal.
LEMMA PaintWidth ==
  ASSUME NEW fresh, HasWidth(fresh), NEW back, NEW end, Paint(fresh, back, end)
  PROVE  HasWidth(term') /\ term'.w = fresh.w
<1>1. PICK at \in {IF started /\ back > 1 THEN Up(fresh, back - 1) ELSE fresh},
           stale \in {IF started THEN back - lastPhysRows' ELSE 0} :
        \E rows \in {Text(at, lastRows')} : \E drawn \in {Write(at, rows)} :
          \E clean \in {ClearBelow(drawn, stale)} :
            term' = IF end THEN NewLine(clean) ELSE clean
  BY DEF Paint
<1>2. PICK rows, drawn, clean :
        /\ drawn = Write(at, rows) /\ clean = ClearBelow(drawn, stale)
        /\ term' = IF end THEN NewLine(clean) ELSE clean
  BY <1>1
<1>3. HasWidth(at) /\ at.w = fresh.w
  BY <1>1, UpWidth
<1>4. HasWidth(clean) /\ clean.w = fresh.w
  BY <1>2, <1>3, WriteWidth, ClearBelowWidth
<1>5. QED
  BY <1>2, <1>4, NewLineWidth

LEMMA DrawWidth ==
  ASSUME HasWidth(term), NEW hist, NEW live, NEW end, Draw(hist, live, end)
  PROVE  HasWidth(term') /\ term'.w = term.w
BY PaintWidth, NewLineWidth DEF Draw

LEMMA RewrapWidth ==
  ASSUME NEW s, Rewrap(s)
  PROVE  HasWidth(term') /\ term'.w = s[1]
BY DEF Rewrap, Rewrapped, HasWidth

------------------------------------------------------------------------------
(* The window: holding back *)

\* While the terminal has not reflowed to the width the program reads, the program
\* either has not seen that width yet, or it holds its redraws and the settle
\* delay has not elapsed.
Holding == (resizePending \/ deferPending) /\ ~settled

\* The terminal has not reflowed to the size that the program reads.
Reflowing == term.w # size[1]

\* While it has not, the program has not seen the width yet or holds back.
HoldInv ==
  /\ HasWidth(term)
  /\ ~started => ~Reflowing
  /\ started /\ ~closed /\ Reflowing => size[1] # lastWidth \/ Holding

\* While the terminal reflows, a redraw that is not the last one writes nothing,
\* and from then on the program has seen the width and holds.
LEMMA RedrawHolds ==
  ASSUME HoldInv, ~closed, Reflowing, NEW hist, NEW live, Redraw(hist, live, FALSE)
  PROVE  UNCHANGED <<term, started>> /\ Holding'
<1>1. started
  BY DEF HoldInv
<1>2. size[1] # lastWidth \/ Holding
  BY <1>1 DEF HoldInv
<1>3. ~IsSettled(FALSE) /\ ~(settled /\ ~Observed)
  BY <1>1, <1>2 DEF IsSettled, Observed, Holding
<1>4. Crossing \/ Deferred
  BY <1>1, <1>2 DEF Crossing, Deferred, Observed, Holding
<1>5. Hold
  BY <1>3, <1>4 DEF Redraw
<1>6. resizePending' = Crossing /\ deferPending' = Deferred
      /\ settled' = (settled /\ ~Observed)
  BY <1>5 DEF Hold
<1>7. resizePending' \/ deferPending'
  BY <1>4, <1>6, Zenon
<1>8. ~settled'
  BY <1>3, <1>6, Zenon
<1>9. QED
  BY <1>5, <1>7, <1>8 DEF Hold, Holding

\* A redraw leaves the width of the terminal as it is.
LEMMA RedrawWidth ==
  ASSUME HoldInv, NEW hist, NEW live, NEW force, Redraw(hist, live, force)
  PROVE  HasWidth(term') /\ term'.w = term.w /\ lastWidth' = size[1]
<1>1. CASE Hold
  BY <1>1 DEF Hold, Redraw, HoldInv
<1>2. CASE Draw(hist, live, force)
  BY <1>2, DrawWidth DEF Redraw, HoldInv
<1>3. QED
  BY <1>1, <1>2 DEF Redraw

\* Nothing reflows at the start.
LEMMA HoldStarts == Init => HoldInv
<1>1. Init => started = FALSE
  BY DEF Init
<1>2. Init => HasWidth(term) /\ term.w = size[1]
  BY DEF Init, StartTerm, HasWidth
<1>3. QED
  BY <1>1, <1>2 DEF HoldInv, Reflowing

\* Every step keeps it: whoever draws looks at the width first.
LEMMA HoldInductive ==
  ASSUME HoldInv, "flicker" \notin Races, [Next]_vars
  PROVE  HoldInv'
<1>1. ASSUME NEW hist, NEW live, Redraw(hist, live, FALSE), ~closed, size' = size
      PROVE  HoldInv'
  <2>1. HasWidth(term') /\ term'.w = term.w /\ lastWidth' = size[1]
    BY <1>1, RedrawWidth
  <2>2. CASE Reflowing
    <3>1. UNCHANGED <<term, started>> /\ Holding'
      BY <1>1, <2>2, RedrawHolds
    <3>2. started
      BY <2>2 DEF HoldInv
    <3>3. QED
      BY <1>1, <2>1, <3>1, <3>2 DEF HoldInv
  <2>3. CASE ~Reflowing
    BY <1>1, <2>1, <2>3 DEF HoldInv, Reflowing
  <2>4. QED
    BY <2>2, <2>3
<1>2. CASE StatusChange
  BY <1>1, <1>2 DEF StatusChange
<1>3. CASE Repaint
  BY <1>1, <1>3 DEF Repaint
<1>4. CASE Finalize
  <2>1. PICK hist : Redraw(hist, 0, TRUE)
    BY <1>4 DEF Finalize
  <2>2. HasWidth(term') /\ term'.w = term.w
    BY <2>1, RedrawWidth
  <2>3. closed' = TRUE /\ size' = size
    BY <1>4 DEF Finalize
  <2>4. ~started' => ~Reflowing
    <3>1. IsSettled(TRUE)
      BY DEF IsSettled
    <3>2. Draw(hist, 0, TRUE)
      BY <2>1, <3>1 DEF Redraw
    <3>3. QED
      BY <3>2 DEF Draw
  <2>5. QED
    BY <2>2, <2>3, <2>4 DEF HoldInv, Reflowing
<1>5. CASE Resize
  <2>1. PICK s : /\ s[1] = size[1] \/ s[1] # lastWidth
                 /\ size' = s
                 /\ (s[1] = term.w /\ Rewrap(s)) \/ (s[1] # term.w /\ UNCHANGED term)
    BY <1>5 DEF Resize, TakesSize
  <2>2. started /\ UNCHANGED <<started, closed, lastWidth, resizePending, deferPending,
                               settled>>
    BY <1>5 DEF Resize
  <2>3. CASE s[1] = term.w /\ Rewrap(s)
    BY <2>1, <2>2, <2>3, RewrapWidth DEF HoldInv, Reflowing
  <2>4. CASE UNCHANGED term /\ s[1] = size[1]
    BY <2>1, <2>2, <2>4 DEF HoldInv, Reflowing, Holding
  <2>5. CASE UNCHANGED term /\ s[1] # lastWidth
    BY <2>1, <2>2, <2>5 DEF HoldInv, Reflowing, Holding
  <2>6. QED
    BY <2>1, <2>3, <2>4, <2>5
<1>6. CASE Reflowed
  <2>1. HasWidth(term') /\ term'.w = size[1] /\ size' = size
    BY <1>6, RewrapWidth DEF Reflowed
  <2>2. QED
    BY <2>1 DEF HoldInv, Reflowing
<1>7. CASE SettleTime
  <2>1. ~Reflowing \/ size[1] # lastWidth
    BY <1>7 DEF SettleTime, Reflowing
  <2>2. UNCHANGED <<size, term, started, closed, lastWidth>>
    BY <1>7 DEF SettleTime
  <2>3. QED
    BY <2>1, <2>2 DEF HoldInv, Reflowing
<1>8. CASE Done \/ UNCHANGED vars
  BY <1>8 DEF Done, vars, HoldInv, Reflowing, Holding
<1>9. QED
  BY <1>2, <1>3, <1>4, <1>5, <1>6, <1>7, <1>8 DEF Next

\* No redraw lands in the middle of a reflow: whenever status changes, ticks,
\* SIGWINCHs and widths of a drag come, the program writes only what it writes at
\* its end while the terminal has not reflowed to the width it reads; so long as the
\* program sees a width before it is left and taken up again (window.go:212-231,
\* 433-494).
THEOREM NoWriteMidReflowCorrect ==
  ASSUME "flicker" \notin Races
  PROVE  Spec => NoWriteMidReflow
<1>1. HoldInv /\ [Next]_vars
        => [started /\ term.w # size[1] /\ size' = size /\ term' # term
              => closed' \/ term'.w = size[1]]_vars
  <2> SUFFICES ASSUME HoldInv, Next, started, Reflowing, size' = size, term' # term
               PROVE  closed' \/ term'.w = size[1]
    BY DEF Reflowing, vars
  <2>1. CASE StatusChange
    <3>1. PICK hist, live : Redraw(hist, live, FALSE)
      BY <2>1 DEF StatusChange
    <3>2. ~closed
      BY <2>1 DEF StatusChange
    <3>3. QED
      BY <3>1, <3>2, RedrawHolds
  <2>2. CASE Repaint
    <3>1. PICK hist, live : Redraw(hist, live, FALSE)
      BY <2>2 DEF Repaint
    <3>2. ~closed
      BY <2>2 DEF Repaint
    <3>3. QED
      BY <3>1, <3>2, RedrawHolds
  <2>3. CASE Finalize
    BY <2>3 DEF Finalize
  <2>4. CASE Resize
    <3>1. PICK s \in Sizes \ {size} : size' = s
      BY <2>4 DEF Resize, TakesSize
    <3>2. QED
      BY <3>1
  <2>5. CASE Reflowed
    BY <2>5, RewrapWidth DEF Reflowed
  <2>6. CASE SettleTime \/ Done
    BY <2>6 DEF SettleTime, Done, vars
  <2>7. QED
    BY <2>1, <2>2, <2>3, <2>4, <2>5, <2>6 DEF Next
<1>2. QED
  BY <1>1, HoldStarts, HoldInductive, PTL DEF Spec, NoWriteMidReflow

------------------------------------------------------------------------------
(* The window: what is drawn *)

\* The last n elements of a sequence.
LEMMA LastNIs ==
  ASSUME NEW S, NEW s \in Seq(S), NEW n \in Nat
  PROVE  /\ LastN(s, n) \in Seq(S)
         /\ Len(LastN(s, n)) = Most(n, Len(s))
         /\ \A i \in 1..Most(n, Len(s)) : LastN(s, n)[i] = s[Len(s) - Most(n, Len(s)) + i]
<1> DEFINE c == Most(n, Len(s))
           m == Len(s) - c + 1
<1>1. Len(s) \in Nat /\ c \in Nat /\ c <= Len(s)
  BY DEF Most
<1>2. m \in Int /\ Len(s) \in Int /\ Len(s) - m + 1 = c /\ m >= 1
  BY <1>1
<1>3. \A i \in m..Len(s) : s[i] \in S
  BY <1>1, <1>2, LenProperties
<1>4. LastN(s, n) = SubSeq(s, m, Len(s))
  BY DEF LastN
<1> HIDE DEF c, m
<1>5. /\ SubSeq(s, m, Len(s)) \in Seq(S)
      /\ Len(SubSeq(s, m, Len(s))) = IF m <= Len(s) THEN Len(s) - m + 1 ELSE 0
      /\ \A i \in 1..(Len(s) - m + 1) : SubSeq(s, m, Len(s))[i] = s[m + i - 1]
  BY <1>2, <1>3, SubSeqProperties
<1>6. m = Len(s) - c + 1
  BY DEF m
<1>7. Len(SubSeq(s, m, Len(s))) = c
  BY <1>1, <1>2, <1>5
<1>8. ASSUME NEW i \in 1..c
      PROVE  SubSeq(s, m, Len(s))[i] = s[Len(s) - c + i]
  <2>1. i \in 1..(Len(s) - m + 1)
    BY <1>1, <1>6
  <2>2. m + i - 1 = Len(s) - c + i
    BY <1>1, <1>6
  <2>3. QED
    BY <1>5, <2>1, <2>2
<1>9. QED
  BY <1>4, <1>5, <1>7, <1>8 DEF c

\* The lines of a history are the latest of m, in order, as many as it may keep.
Keep == IF WindowLines - 1 < 1 THEN 1 ELSE WindowLines - 1

\* The history is the latest of the m statuses that have ended, as many as it keeps.
Latest(hist, m) ==
  /\ hist \in Seq(Nat)
  /\ Len(hist) = Most(Keep, m)
  /\ \A i \in 1..Len(hist) : hist[i] = m - Len(hist) + i

\* One more status: window.go:522-533 cuts the history from the front.
LEMMA PushLatest ==
  ASSUME NEW m \in Nat, Latest(history, m)
  PROVE  Latest(PushHistory(m + 1), m + 1)
<1> DEFINE s == Append(history, m + 1)
<1>1. Keep \in Nat \ {0}
  BY WindowAssumption DEF Keep
<1>2. /\ history \in Seq(Nat) /\ Len(history) \in Nat /\ Len(history) = Most(Keep, m)
      /\ \A i \in 1..Len(history) : history[i] = m - Len(history) + i
  BY DEF Latest
<1>3. s \in Seq(Nat) /\ Len(s) = Len(history) + 1 /\ s[Len(s)] = m + 1
      /\ \A i \in 1..Len(history) : s[i] = history[i]
  BY <1>2
<1>4. ASSUME NEW i \in 1..Len(s)
      PROVE  s[i] = m + 1 - Len(s) + i
  <2>1. CASE i \in 1..Len(history)
    <3>1. s[i] = m - Len(history) + i
      BY <1>2, <1>3, <2>1
    <3>2. QED
      BY <1>2, <1>3, <3>1
  <2>2. CASE i = Len(s)
    BY <1>2, <1>3, <2>2
  <2>3. QED
    BY <1>2, <1>3, <2>1, <2>2
<1>5. PushHistory(m + 1) = LastN(s, Keep)
  BY DEF PushHistory, Keep
<1> HIDE DEF s
<1> DEFINE c == Most(Keep, Len(s))
<1>6. c = Most(Keep, m + 1) /\ c \in Nat /\ c <= Len(s)
  BY <1>1, <1>2, <1>3 DEF Most
<1>7. /\ LastN(s, Keep) \in Seq(Nat) /\ Len(LastN(s, Keep)) = c
      /\ \A i \in 1..c : LastN(s, Keep)[i] = s[Len(s) - c + i]
  BY <1>1, <1>3, LastNIs
<1>8. ASSUME NEW i \in 1..c
      PROVE  LastN(s, Keep)[i] = m + 1 - c + i
  <2>1. Len(s) - c + i \in 1..Len(s) /\ Len(s) \in Nat
    BY <1>2, <1>3, <1>6
  <2>2. LastN(s, Keep)[i] = m + 1 - Len(s) + (Len(s) - c + i)
    BY <1>4, <1>7, <2>1
  <2>3. QED
    BY <1>6, <2>1, <2>2
<1> HIDE DEF c
<1> DEFINE pushed == PushHistory(m + 1)
<1>9. /\ pushed \in Seq(Nat) /\ Len(pushed) = c
      /\ \A i \in 1..c : pushed[i] = m + 1 - c + i
  BY <1>5, <1>7, <1>8
<1> HIDE DEF pushed
<1>10. Len(pushed) = Most(Keep, m + 1)
  BY <1>6, <1>9
<1>11. \A i \in 1..Len(pushed) : pushed[i] = m + 1 - Len(pushed) + i
  BY <1>9
<1>12. Latest(pushed, m + 1)
  BY <1>9, <1>10, <1>11 DEF Latest
<1>13. QED
  BY <1>12 DEF pushed

\* The rows of the header.
HeaderRows == IF NoHeader THEN 0 ELSE 1

\* Rows that show the latest n of b statuses, the last of them live or not, with
\* blank rows behind, and leave out none that there is a row for.
Shows(rows, n, b, live) ==
  LET room == Len(rows) - HeaderRows
  IN  /\ n <= room
      /\ n < b => n >= room - (IF live # 0 THEN 0 ELSE 1)
      /\ \A i \in 1..n :
           rows[HeaderRows + i].tag
             = <<IF i = n /\ live # 0 THEN "live" ELSE "line", b - n + i>>
      /\ \A i \in (n + 1)..room : rows[HeaderRows + i].tag = BlankLine.tag

\* An element of the second of two sequences.
LEMMA Behind ==
  ASSUME NEW S, NEW a \in Seq(S), NEW b \in Seq(S), NEW i \in 1..Len(b)
  PROVE  Len(a \o b) = Len(a) + Len(b) /\ (a \o b)[Len(a) + i] = b[i]
<1>1. Len(a) + i \in 1..(Len(a) + Len(b)) /\ ~(Len(a) + i <= Len(a))
      /\ Len(a) + i - Len(a) = i
  OBVIOUS
<1>2. QED
  BY <1>1, ConcatProperties

\* Behind the header: n lines of the history, the live one if there is one, and
\* blank rows.
Framed(rows, visible, n, hist, live) ==
  /\ visible \in Nat \ {0} /\ n \in Nat
  /\ Len(rows) - HeaderRows = visible
  /\ \A i \in 1..visible :
       rows[HeaderRows + i].tag =
         IF i <= n THEN <<"line", hist[Len(hist) - n + i]>>
         ELSE IF i = n + 1 /\ live # 0 THEN <<"live", live>>
         ELSE BlankLine.tag

\* What Redraw makes of a history (window.go:235-262).
LEMMA FrameRows ==
  ASSUME NEW l, NEW hist \in Seq(Nat), NEW live \in Nat, NEW h \in Nat
  PROVE  Framed(Frame(l, hist, live, h), VisibleLines(h),
                Most(VisibleLines(h) - 1, Len(hist)), hist, live)
<1> DEFINE visible == VisibleLines(h)
           n       == Most(visible - 1, Len(hist))
           rows    == Frame(l, hist, live, h)
           shown   == LastN(hist, visible - 1)
           past(k) == StatusLine(l, k, FALSE)
           current == StatusLine(l, live, TRUE)
           row(i)  == CASE i <= Len(shown)                -> past(shown[i])
                        [] i = Len(shown) + 1 /\ live # 0 -> current
                        [] OTHER                          -> BlankLine
           body    == [i \in 1..visible |-> row(i)]
           head    == IF NoHeader THEN <<>> ELSE <<Header(l)>>
           S       == {row(i) : i \in 1..visible} \cup {Header(l)}
<1>1. visible \in Nat \ {0}
  BY WindowAssumption DEF VisibleLines, Most
<1>2. Len(hist) \in Nat /\ n \in Nat /\ n <= Len(hist)
  BY <1>1 DEF Most
<1>3. /\ Len(shown) = n
      /\ \A i \in 1..n : shown[i] = hist[Len(hist) - n + i]
  <2>1. visible - 1 \in Nat
    BY <1>1
  <2>2. QED
    BY <2>1, LastNIs
<1>4. rows = head \o body
  BY DEF Frame
<1>5. (\A k : past(k).tag = <<"line", k>>) /\ current.tag = <<"live", live>>
  BY DEF StatusLine, TextLine
<1> HIDE DEF visible, past, current, rows, n, shown
<1>6. ASSUME NEW i \in 1..visible
      PROVE  row(i).tag = IF i <= n THEN <<"line", hist[Len(hist) - n + i]>>
                          ELSE IF i = n + 1 /\ live # 0 THEN <<"live", live>>
                          ELSE BlankLine.tag
  <2>1. CASE i <= n
    <3>1. row(i) = past(hist[Len(hist) - n + i])
      BY <1>1, <1>2, <1>3, <2>1
    <3> HIDE DEF row
    <3>2. QED
      BY <1>5, <2>1, <3>1
  <2>2. CASE i > n /\ i = n + 1 /\ live # 0
    <3>1. row(i) = current
      BY <1>1, <1>2, <1>3, <2>2
    <3> HIDE DEF row
    <3>2. QED
      BY <1>2, <1>5, <2>2, <3>1
  <2>3. CASE i > n /\ ~(i = n + 1 /\ live # 0)
    <3>1. row(i) = BlankLine
      BY <1>1, <1>2, <1>3, <2>3
    <3> HIDE DEF row
    <3>2. QED
      BY <1>2, <2>3, <3>1
  <2>4. QED
    BY <1>1, <1>2, <2>1, <2>2, <2>3
<1> HIDE DEF row
<1>7. body \in Seq(S) /\ Len(body) = visible /\ \A i \in 1..visible : body[i] = row(i)
  BY <1>1
<1>8. head \in Seq(S) /\ Len(head) = HeaderRows
  <2>1. CASE NoHeader
    BY <2>1, EmptySeq DEF HeaderRows
  <2>2. CASE ~NoHeader
    BY <2>2 DEF HeaderRows
  <2>3. QED
    BY <2>1, <2>2
<1> HIDE DEF body, head, S
<1>9. ASSUME NEW i \in 1..visible
      PROVE  rows[HeaderRows + i] = row(i) /\ Len(rows) = HeaderRows + visible
  <2>1. Len(head \o body) = Len(head) + Len(body) /\ (head \o body)[Len(head) + i] = body[i]
    BY <1>7, <1>8, Behind
  <2>2. QED
    BY <1>4, <1>7, <1>8, <2>1
<1>10. Len(rows) - HeaderRows = visible
  <2>1. HeaderRows \in Nat
    BY DEF HeaderRows
  <2>2. QED
    BY <1>1, <1>9, <2>1
<1>11. \A i \in 1..visible :
         rows[HeaderRows + i].tag = IF i <= n THEN <<"line", hist[Len(hist) - n + i]>>
                                    ELSE IF i = n + 1 /\ live # 0 THEN <<"live", live>>
                                    ELSE BlankLine.tag
  BY <1>6, <1>9
<1>12. Framed(rows, visible, n, hist, live)
  BY <1>1, <1>2, <1>10, <1>11 DEF Framed
<1>13. QED
  BY <1>12 DEF n, rows, visible

\* The smaller of three numbers.
LEMMA MostOfMost ==
  ASSUME NEW a \in Nat, NEW b \in Nat, NEW m \in Nat, a <= b
  PROVE  Most(a, Most(b, m)) = Most(a, m)
BY DEF Most

\* A frame of the latest of m statuses and a live one, if there is one, shows the
\* latest of them all; without a live one it takes a second row to show any.
LEMMA FrameShows ==
  ASSUME NEW l, NEW m \in Nat, NEW hist, Latest(hist, m), NEW live \in {0, m + 1},
         NEW h \in Nat, live = 0 => m > 0 /\ VisibleLines(h) > 1
  PROVE  LET b == IF live = 0 THEN m ELSE m + 1
         IN  \E n \in 1..b : Shows(Frame(l, hist, live, h), n, b, live)
<1> DEFINE visible == VisibleLines(h)
           k       == Most(visible - 1, Len(hist))
           rows    == Frame(l, hist, live, h)
<1>1. /\ hist \in Seq(Nat) /\ Len(hist) = Most(Keep, m) /\ Len(hist) \in Nat
      /\ \A i \in 1..Len(hist) : hist[i] = m - Len(hist) + i
  BY DEF Latest
<1>2. /\ visible \in Nat \ {0} /\ k \in Nat
      /\ Len(rows) - HeaderRows = visible
      /\ \A i \in 1..visible :
           rows[HeaderRows + i].tag =
             IF i <= k THEN <<"line", hist[Len(hist) - k + i]>>
             ELSE IF i = k + 1 /\ live # 0 THEN <<"live", live>>
             ELSE BlankLine.tag
  <2>1. live \in Nat /\ hist \in Seq(Nat)
    BY <1>1
  <2>2. Framed(rows, visible, k, hist, live)
    BY <2>1, FrameRows
  <2> HIDE DEF rows, visible, k
  <2>3. QED
    BY <2>2 DEF Framed
<1>3. visible <= WindowLines
  BY WindowAssumption DEF VisibleLines, Most
<1>4. k = Most(visible - 1, m) /\ k <= Len(hist) /\ k <= m /\ k < visible
  <2>1. Keep \in Nat \ {0} /\ visible - 1 <= Keep
    BY <1>2, <1>3, WindowAssumption DEF Keep
  <2>2. k = Most(visible - 1, Most(Keep, m)) /\ visible - 1 \in Nat
    BY <1>1, <1>2
  <2>3. k = Most(visible - 1, m)
    BY <2>1, <2>2, MostOfMost
  <2>4. Most(visible - 1, Len(hist)) <= Len(hist) /\ Most(visible - 1, m) <= m
        /\ Most(visible - 1, m) <= visible - 1
    BY <1>1, <2>2 DEF Most
  <2>5. QED
    BY <1>2, <2>3, <2>4
<1>5. k < m => k = visible - 1
  BY <1>2, <1>4 DEF Most
<1>6. live = 0 => k > 0
  BY <1>2, <1>4 DEF Most
<1> HIDE DEF k, visible, rows
<1>7. visible \in Nat \ {0} /\ k \in Nat /\ m \in Nat /\ Len(hist) \in Nat
       /\ Len(rows) - HeaderRows = visible
  BY <1>1, <1>2
<1>8. ASSUME NEW i \in 1..k
      PROVE  rows[HeaderRows + i].tag = <<"line", m - k + i>>
  <2>1. i \in 1..visible /\ Len(hist) - k + i \in 1..Len(hist)
    BY <1>4, <1>7
  <2>2. hist[Len(hist) - k + i] = m - k + i
    BY <1>1, <1>2, <2>1
  <2>3. rows[HeaderRows + i].tag = <<"line", hist[Len(hist) - k + i]>>
    <3>1. i <= k
      BY <1>7
    <3>2. QED
      BY <1>2, <2>1, <3>1
  <2>4. QED
    BY <2>2, <2>3
<1>9. CASE live = 0
  <2>1. k \in 1..m
    BY <1>4, <1>6, <1>7, <1>9
  <2>2. ASSUME NEW i \in (k + 1)..(Len(rows) - HeaderRows)
        PROVE  rows[HeaderRows + i].tag = BlankLine.tag
    <3>1. i \in 1..visible /\ ~(i <= k)
      BY <1>7
    <3>2. QED
      BY <1>2, <1>9, <3>1
  <2>3. Shows(rows, k, m, live)
    BY <1>2, <1>4, <1>5, <1>8, <1>9, <2>2 DEF Shows
  <2>4. QED
    BY <1>9, <2>1, <2>3 DEF rows
<1>10. CASE live = m + 1
  <2>1. k + 1 \in 1..(m + 1) /\ live # 0 /\ m + 1 - (k + 1) = m - k
    BY <1>4, <1>7, <1>10
  <2>2. ASSUME NEW i \in (k + 1 + 1)..(Len(rows) - HeaderRows)
        PROVE  rows[HeaderRows + i].tag = BlankLine.tag
    <3>1. i \in 1..visible /\ ~(i <= k) /\ i # k + 1
      BY <1>7
    <3>2. QED
      BY <1>2, <3>1
  <2>3. rows[HeaderRows + k + 1].tag = <<"live", m + 1>>
    <3>1. k + 1 \in 1..visible /\ ~(k + 1 <= k) /\ HeaderRows + (k + 1) = HeaderRows + k + 1
      BY <1>4, <1>7 DEF HeaderRows
    <3>2. QED
      BY <1>2, <1>10, <2>1, <3>1
  <2> DEFINE n == k + 1
             b == m + 1
  <2>4. ASSUME NEW i \in 1..n
        PROVE  rows[HeaderRows + i].tag
                 = <<IF i = n /\ live # 0 THEN "live" ELSE "line", b - n + i>>
    <3>1. CASE i = k + 1
      <4>1. b - n + i = m + 1 /\ HeaderRows + i = HeaderRows + k + 1
        BY <1>7, <3>1 DEF HeaderRows
      <4>2. QED
        BY <2>1, <2>3, <3>1, <4>1
    <3>2. CASE i # k + 1
      <4>1. i \in 1..k /\ b - n + i = m - k + i
        BY <1>7, <3>2
      <4>2. QED
        BY <1>8, <2>1, <3>2, <4>1
    <3>3. QED
      BY <3>1, <3>2
  <2>5. /\ k + 1 <= Len(rows) - HeaderRows
        /\ k + 1 < m + 1
             => k + 1 >= Len(rows) - HeaderRows - (IF live # 0 THEN 0 ELSE 1)
    BY <1>4, <1>5, <1>7
  <2>6. /\ n <= Len(rows) - HeaderRows
        /\ n < b => n >= Len(rows) - HeaderRows - (IF live # 0 THEN 0 ELSE 1)
    BY <2>5
  <2>7. \A i \in 1..n : rows[HeaderRows + i].tag
                          = <<IF i = n /\ live # 0 THEN "live" ELSE "line", b - n + i>>
    BY <2>4
  <2>8. \A i \in (n + 1)..(Len(rows) - HeaderRows) :
          rows[HeaderRows + i].tag = BlankLine.tag
    BY <2>2
  <2> HIDE DEF n, b
  <2>9. Shows(rows, n, b, live)
    BY <2>6, <2>7, <2>8 DEF Shows
  <2>10. QED
    BY <2>1, <2>9, <1>10 DEF n, b, rows
<1>11. QED
  BY <1>9, <1>10

\* There is room for two lines, at any height: with one the last frame has none for
\* a status (window.go:249-252).
TwoVisible == \A s \in Sizes : VisibleLines(s[2]) > 1

\* The statuses so far are the latest ones of the history and the live one.
HistInv ==
  /\ begun \in Nat /\ size \in Sizes
  /\ ~closed => cur = begun
  /\ closed => cur = 0 /\ begun > 0
  /\ Latest(history, IF cur = 0 THEN begun ELSE begun - 1)

\* What was drawn last shows them, unless the program holds a redraw back.
ShownInv ==
  started /\ ~resizePending /\ ~deferPending /\ (closed => TwoVisible)
    => begun > 0 /\ \E n \in 1..begun : Shows(lastRows, n, begun, cur)

\* A redraw shows the statuses so far, or leaves the program holding back.
LEMMA RedrawShows ==
  ASSUME size \in Sizes, NEW m \in Nat, NEW hist, Latest(hist, m), NEW live \in {0, m + 1},
         live = 0 => m > 0 /\ TwoVisible, NEW force, Redraw(hist, live, force)
  PROVE  \/ resizePending' \/ deferPending'
         \/ \E n \in 1..(IF live = 0 THEN m ELSE m + 1) :
              Shows(lastRows', n, IF live = 0 THEN m ELSE m + 1, live)
<1>1. CASE Hold /\ (Crossing \/ Deferred)
  <2>1. resizePending' = Crossing /\ deferPending' = Deferred
    BY <1>1 DEF Hold
  <2>2. QED
    BY <1>1, <2>1, Zenon
<1>2. CASE Draw(hist, live, force)
  <2>1. size[2] \in Nat
    BY DisplayAssumption
  <2>2. lastRows' = Frame(layout', hist, live, size[2])
    BY <1>2 DEF Draw
  <2>3. live = 0 => VisibleLines(size[2]) > 1
    BY DEF TwoVisible
  <2>4. QED
    BY <2>1, <2>2, <2>3, FrameShows
<1>3. QED
  BY <1>1, <1>2 DEF Redraw

\* Nothing is shown and nothing is there to show.
LEMMA ShownStarts == Init => HistInv /\ ShownInv
<1>1. Init => begun = 0 /\ cur = 0 /\ ~closed /\ size \in Sizes /\ ~started
      /\ history = <<>>
  BY DEF Init
<1>2. Latest(<<>>, 0)
  <2>1. Keep \in Nat
    BY WindowAssumption DEF Keep
  <2>2. QED
    BY <2>1, EmptySeq DEF Latest, Most
<1>3. QED
  BY <1>1, <1>2 DEF HistInv, ShownInv

\* Every step keeps what is shown up to date, whatever the size.
LEMMA ShownInductive ==
  ASSUME HistInv, ShownInv, [Next]_vars
  PROVE  HistInv' /\ ShownInv'
<1>1. CASE StatusChange
  <2>1. ~closed /\ ~closed' /\ begun' = begun + 1 /\ cur' = begun + 1
        /\ history' = Finalized /\ Redraw(Finalized, begun + 1, FALSE) /\ size' = size
    BY <1>1 DEF StatusChange
  <2>2. Latest(Finalized, begun)
    <3>1. CASE cur = 0
      BY <3>1 DEF HistInv, Finalized
    <3>2. CASE cur # 0
      <4>1. begun - 1 \in Nat /\ Latest(history, begun - 1) /\ cur = begun - 1 + 1
        BY <2>1, <3>2 DEF HistInv
      <4>2. Latest(PushHistory(cur), begun - 1 + 1)
        BY <4>1, PushLatest
      <4>3. QED
        BY <3>2, <4>1, <4>2 DEF Finalized, HistInv
    <3>3. QED
      BY <3>1, <3>2
  <2>3. HistInv'
    BY <2>1, <2>2 DEF HistInv
  <2>4. \/ resizePending' \/ deferPending'
        \/ \E n \in 1..(begun + 1) : Shows(lastRows', n, begun + 1, begun + 1)
    <3>1. begun \in Nat /\ begun + 1 # 0 /\ begun + 1 \in {0, begun + 1} /\ size \in Sizes
      BY DEF HistInv
    <3> DEFINE next == begun + 1
    <3>2. \/ resizePending' \/ deferPending'
          \/ \E n \in 1..(IF next = 0 THEN begun ELSE next) :
               Shows(lastRows', n, IF next = 0 THEN begun ELSE next, next)
      BY <2>1, <2>2, <3>1, RedrawShows
    <3>3. QED
      BY <3>1, <3>2
  <2>5. QED
    BY <2>1, <2>3, <2>4 DEF ShownInv, HistInv
<1>2. CASE Repaint
  <2>1. ~closed /\ cur # 0 /\ Redraw(history, cur, FALSE)
        /\ UNCHANGED <<size, history, cur, begun, closed>>
    BY <1>2 DEF Repaint
  <2>2. begun - 1 \in Nat /\ Latest(history, begun - 1) /\ cur = begun - 1 + 1
    BY <2>1 DEF HistInv
  <2>3. \/ resizePending' \/ deferPending'
        \/ \E n \in 1..(begun - 1 + 1) : Shows(lastRows', n, begun - 1 + 1, cur)
    BY <2>1, <2>2, RedrawShows DEF HistInv
  <2>4. QED
    BY <2>1, <2>2, <2>3 DEF ShownInv, HistInv
<1>3. CASE Finalize
  <2>1. ~closed /\ closed' /\ cur # 0 /\ cur' = 0 /\ history' = PushHistory(cur)
        /\ Redraw(PushHistory(cur), 0, TRUE) /\ UNCHANGED <<size, begun>>
    BY <1>3 DEF Finalize
  <2>2. begun - 1 \in Nat /\ Latest(history, begun - 1) /\ cur = begun - 1 + 1
    BY <2>1 DEF HistInv
  <2>3. Latest(PushHistory(cur), begun)
    <3>1. Latest(PushHistory(cur), begun - 1 + 1)
      BY <2>2, PushLatest
    <3>2. QED
      BY <2>2, <3>1 DEF HistInv
  <2>4. HistInv'
    BY <2>1, <2>2, <2>3 DEF HistInv
  <2>5. ASSUME TwoVisible
        PROVE  \/ resizePending' \/ deferPending'
               \/ \E n \in 1..begun : Shows(lastRows', n, begun, 0)
    <3>1. begun > 0 /\ begun \in Nat
      BY <2>2 DEF HistInv
    <3>2. QED
      BY <2>1, <2>3, <2>5, <3>1, RedrawShows DEF HistInv
  <2>6. QED
    BY <2>1, <2>2, <2>4, <2>5 DEF ShownInv, HistInv
<1>4. CASE Resize
  <2>1. UNCHANGED <<begun, cur, closed, history, started, resizePending, deferPending, lastRows>>
        /\ size' \in Sizes
    BY <1>4 DEF Resize, TakesSize
  <2>2. QED
    BY <2>1 DEF HistInv, ShownInv
<1>5. CASE Reflowed \/ SettleTime \/ Done \/ UNCHANGED vars
  <2>1. UNCHANGED <<begun, cur, closed, history, started, resizePending, deferPending, lastRows,
                    size>>
    BY <1>5 DEF Reflowed, SettleTime, Done, vars
  <2>2. QED
    BY <2>1 DEF HistInv, ShownInv
<1>6. QED
  BY <1>1, <1>2, <1>3, <1>4, <1>5 DEF Next

\* What this says of the last frame.
LEMMA ShownIsLatest ==
  ASSUME HistInv, ShownInv, closed => TwoVisible
  PROVE  ShowsLatest
<1>1. SUFFICES ASSUME started, ~resizePending, ~deferPending
               PROVE  ShowsLatest
  BY DEF ShowsLatest
<1>2. PICK n \in 1..begun : Shows(lastRows, n, begun, cur)
  BY <1>1 DEF ShownInv
<1>3. begun > 0 /\ (cur # 0 <=> ~closed)
  BY <1>1 DEF ShownInv, HistInv
<1>4. CASE closed
  <2>1. cur = 0
    BY <1>3, <1>4
  <2>2. QED
    BY <1>2, <1>4, <2>1 DEF ShowsLatest, Shows, HeaderRows
<1>5. CASE ~closed
  <2>1. cur # 0
    BY <1>3, <1>5
  <2>2. QED
    BY <1>2, <1>5, <2>1 DEF ShowsLatest, Shows, HeaderRows
<1>6. QED
  BY <1>4, <1>5

\* Until the end, outside of the settle window, the block shows the latest statuses
\* in order, as many as it has rows for, the live one last; for every number of
\* lines, every size the terminal takes and however many redraws were held back
\* (window.go:119-141, 169-176, 235-262, 510-533).
THEOREM ShowsLatestOpen == Spec => [](~closed => ShowsLatest)
<1>1. HistInv /\ ShownInv => (~closed => ShowsLatest)
  BY ShownIsLatest
<1>2. QED
  BY <1>1, ShownStarts, ShownInductive, PTL DEF Spec

\* And so it does after the end, where it shows the last status as a finished line,
\* if there is room for two lines (window.go:146-162): with one the last frame is
\* blank.
THEOREM ShowsLatestCorrect ==
  ASSUME TwoVisible
  PROVE  Spec => []ShowsLatest
<1>1. HistInv /\ ShownInv => ShowsLatest
  BY ShownIsLatest
<1>2. QED
  BY <1>1, ShownStarts, ShownInductive, PTL DEF Spec

------------------------------------------------------------------------------
(* The window: a paint, and the lines of a frame *)

\* What is known of a terminal that shows lines.
LEMMA DisplaysIs ==
  ASSUME NEW t, NEW L, Displays(t, L)
  PROVE  /\ t \in Terminals /\ t.w \in Widths /\ t.h \in Nat \ {0} /\ t.cur \in Nat /\ t.top \in Nat
         /\ t.top < t.cur /\ t.cur <= t.top + t.h
         /\ L \in Seq(Lines) /\ L # <<>>
BY DEF Displays, Terminals

\* Where a paint begins: at the top of the old lines, or in the blank row that is
\* the whole of them.
Over(fresh, old, back) ==
  \/ /\ started /\ back > 1 /\ back = Len(RowsOfAll(old, fresh.w))
     /\ OnScreen(fresh, back)
  \/ /\ ~started \/ back = 1
     /\ fresh.home /\ Len(RowsOfAll(old, fresh.w)) = 1

\* A paint puts the new lines in the place of the old ones (window.go:301-337).
LEMMA PaintDisplays ==
  ASSUME NEW A \in Seq(Lines), NEW old \in Seq(Lines), old # <<>>,
         lastRows' \in Seq(Lines), lastRows' # <<>>,
         NEW fresh, Displays(fresh, A \o old), NEW back, Over(fresh, old, back),
         lastPhysRows' = Len(RowsOfAll(lastRows', fresh.w)),
         NEW end, Paint(fresh, back, end)
  PROVE  /\ term'.w = fresh.w /\ term'.h = fresh.h
         /\ ~end => /\ Displays(term', A \o lastRows')
                    /\ lastPhysRows' <= term'.h => OnScreen(term', lastPhysRows')
         /\ end => Displays(term', (A \o lastRows') \o <<BlankLine>>) /\ term'.home
<1> DEFINE b == Len(RowsOfAll(old, fresh.w))
           n == Len(RowsOfAll(lastRows', fresh.w))
<1>1. PICK at \in {IF started /\ back > 1 THEN Up(fresh, back - 1) ELSE fresh},
           stale \in {IF started THEN back - lastPhysRows' ELSE 0} :
        \E rows \in {Text(at, lastRows')} : \E drawn \in {Write(at, rows)} :
          \E clean \in {ClearBelow(drawn, stale)} :
            term' = IF end THEN NewLine(clean) ELSE clean
  BY DEF Paint
<1> DEFINE clean == ClearBelow(Write(at, Text(at, lastRows')), stale)
<1>2. term' = IF end THEN NewLine(clean) ELSE clean
  BY <1>1
<1>3. /\ fresh \in Terminals /\ fresh.w \in Widths /\ fresh.h \in Nat \ {0}
      /\ fresh.cur \in Nat /\ fresh.top \in Nat /\ fresh.top < fresh.cur
  BY DisplaysIs
<1>4. b \in Nat \ {0} /\ n \in Nat \ {0} /\ lastPhysRows' = n
  BY <1>3, RowsOfSome
<1> HIDE DEF b, n
<1>5. /\ OnScreen(fresh, b) /\ At(fresh, b, at)
      /\ stale \in Int /\ Stale(stale, b, n)
  <2>1. CASE started /\ back > 1 /\ back = b /\ OnScreen(fresh, back)
    <3>1. at = Up(fresh, b - 1) /\ stale = b - n
      BY <1>1, <1>4, <2>1
    <3>2. At(fresh, b, Up(fresh, b - 1))
      BY <1>3, <1>4, <2>1, UpAt
    <3>3. QED
      BY <1>4, <2>1, <3>1, <3>2 DEF Stale
  <2>2. CASE (~started \/ back = 1) /\ fresh.home /\ b = 1
    <3>1. at = fresh /\ (stale = 1 - n \/ stale = 0)
      BY <1>1, <1>4, <2>2
    <3>2. At(fresh, 1, fresh)
      BY <1>3, <2>2, HomeAt
    <3>3. OnScreen(fresh, 1)
      BY <1>3 DEF OnScreen
    <3>4. QED
      BY <1>4, <2>2, <3>1, <3>2, <3>3 DEF Stale
  <2>3. QED
    BY <2>1, <2>2 DEF Over, b
<1> DEFINE new == lastRows'
<1>6. /\ Displays(clean, A \o new) /\ clean.w = fresh.w /\ clean.h = fresh.h
      /\ \A m \in 0..n : m <= fresh.h => OnScreen(clean, m)
  <2>1. new \in Seq(Lines) /\ new # <<>>
    OBVIOUS
  <2> HIDE DEF new
  <2>2. OnScreen(fresh, Len(RowsOfAll(old, fresh.w))) /\ At(fresh, Len(RowsOfAll(old, fresh.w)), at)
    BY <1>5 DEF b
  <2>3. Stale(stale, Len(RowsOfAll(old, fresh.w)), Len(RowsOfAll(new, fresh.w)))
    BY <1>5 DEF b, n, new
  <2>4. LET c == ClearBelow(Write(at, Text(at, new)), stale)
            m == Len(RowsOfAll(new, fresh.w))
        IN  /\ Displays(c, A \o new) /\ c.w = fresh.w /\ c.h = fresh.h
            /\ \A k \in 0..m : k <= fresh.h => OnScreen(c, k)
    BY <1>5, <2>1, <2>2, <2>3, OverShows
  <2>5. QED
    BY <2>4 DEF n, new
<1> HIDE DEF clean, new
<1>7. CASE ~end
  <2>1. n \in 0..n
    BY <1>4
  <2>2. QED
    BY <1>2, <1>4, <1>6, <1>7, <2>1 DEF new
<1>8. CASE end
  <2>1. term' = NewLine(clean)
    BY <1>2, <1>8
  <2>2. /\ Displays(NewLine(clean), (A \o new) \o <<BlankLine>>)
        /\ NewLine(clean).w = clean.w /\ NewLine(clean).h = clean.h /\ NewLine(clean).home
    BY <1>6, NewLineShows
  <2>3. QED
    BY <1>6, <1>8, <2>1, <2>2 DEF new
<1>9. QED
  BY <1>7, <1>8

\* What the layout says about the cells of a line is a number.
LEMMA RetainedIs ==
  ASSUME NEW w \in Int
  PROVE  Layouts!Retained(w) \in 0..4
<1> DEFINE P(r) == /\ r = 0 \/ Layouts!Needed(r) <= w
                   /\ \A q \in (r + 1)..4 : Layouts!Needed(q) > w
<1>1. \A r \in 0..4 : Layouts!Needed(r) = 47 + 8 * r
  BY DEF Layouts!Fixed, Layouts!Needed, Layouts!MinHost
<1>2. \E r \in 0..4 : P(r)
  <2>1. CASE Layouts!Needed(4) <= w
    BY <1>1, <2>1
  <2>2. CASE Layouts!Needed(4) > w /\ Layouts!Needed(3) <= w
    <3>1. P(3)
      BY <2>2
    <3>2. QED
      BY <3>1
  <2>3. CASE Layouts!Needed(4) > w /\ Layouts!Needed(3) > w /\ Layouts!Needed(2) <= w
    <3>1. P(2)
      BY <2>3
    <3>2. QED
      BY <3>1
  <2>4. CASE /\ Layouts!Needed(4) > w /\ Layouts!Needed(3) > w /\ Layouts!Needed(2) > w
             /\ Layouts!Needed(1) <= w
    <3>1. P(1)
      BY <2>4
    <3>2. QED
      BY <3>1
  <2>5. CASE /\ Layouts!Needed(4) > w /\ Layouts!Needed(3) > w /\ Layouts!Needed(2) > w
             /\ Layouts!Needed(1) > w
    <3>1. P(0)
      BY <2>5
    <3>2. QED
      BY <3>1
  <2>6. QED
    BY <1>1, <2>1, <2>2, <2>3, <2>4, <2>5
<1>3. Layouts!Retained(w) = CHOOSE r \in 0..4 : P(r)
  BY DEF Layouts!Retained
<1>4. QED
  BY <1>2, <1>3

\* The width of HOST, at any width of the terminal.
LEMMA HostWidthIs ==
  ASSUME NEW w \in Int
  PROVE  Layouts!HostWidth(w) \in 15..40
<1>1. Layouts!Retained(w) \in Int
  BY RetainedIs
<1>2. QED
  BY <1>1 DEF Layouts!HostWidth, Layouts!AtMost, Layouts!AtLeast, Layouts!MinHost,
     Layouts!MaxHost, Layouts!HostNeed, Layouts!Fixed

\* The cells of the header.
LEMMA HeaderCellsIs ==
  ASSUME NEW host \in Nat, NEW r \in 0..4
  PROVE  Layouts!HeaderCells(host, r) \in Nat
BY DEF Layouts!HeaderCells, Layouts!BeforeDuration, Layouts!BeforeColumn

\* The cells of a line of status.
LEMMA LineCellsIs ==
  ASSUME NEW host \in Nat, NEW r \in 0..4, NEW status, NEW live \in BOOLEAN,
         NEW dur \in Nat, NEW value \in Nat
  PROVE  Layouts!LineCells(host, r, status, live, dur, value) \in Nat
<1> DEFINE c == Layouts!LastShown(status, r)
<1>1. c \in 0..4
  BY DEF Layouts!LastShown, Layouts!AtMost
<1> HIDE DEF c
<1>2. CASE c > 0
  <2>1. Layouts!LineCells(host, r, status, live, dur, value) = Layouts!BeforeColumn(host, c) + value
    BY <1>1, <1>2 DEF Layouts!LineCells, c
  <2>2. Layouts!BeforeColumn(host, c) \in Nat
    BY <1>1, <1>2 DEF Layouts!BeforeColumn, Layouts!BeforeDuration
  <2>3. QED
    BY <2>1, <2>2
<1>3. CASE c = 0
  BY <1>3 DEF Layouts!LineCells, Layouts!BeforeDuration, c
<1>4. QED
  BY <1>1, <1>2, <1>3

\* The lines of the program.
OwnLines == {l \in Lines : l.tag[1] # "user"}

\* A line with one of the names is a line, and one of the program unless it is the user's.
LEMMA LineTyped ==
  ASSUME NEW name \in {"blank", "user", "header", "live", "line", "mark"}, NEW k \in Int,
         NEW cells \in Nat
  PROVE  /\ TextLine(<<name, k>>, cells) \in Lines
         /\ name # "user" => TextLine(<<name, k>>, cells) \in OwnLines
<1> DEFINE tag == <<name, k>>
<1>1. tag \in Tags /\ tag[1] = name
  BY DEF Tags
<1> HIDE DEF tag
<1>2. TextLine(tag, cells) \in Lines /\ TextLine(tag, cells).tag = tag
  BY <1>1 DEF TextLine, Lines
<1>3. QED
  BY <1>1, <1>2 DEF OwnLines, tag

\* A frame is made of lines of the program, and has two rows or more.
LEMMA FrameOwn ==
  ASSUME NEW l, l.hostWidth \in Nat, l.retained \in 0..4, NEW hist \in Seq(Nat), NEW live \in Nat,
         NEW h \in Nat
  PROVE  /\ Frame(l, hist, live, h) \in Seq(OwnLines)
         /\ Len(Frame(l, hist, live, h)) = HeaderRows + VisibleLines(h)
<1> DEFINE visible == VisibleLines(h)
           shown   == LastN(hist, visible - 1)
           past(k) == StatusLine(l, k, FALSE)
           current == StatusLine(l, live, TRUE)
           row(i)  == CASE i <= Len(shown)                -> past(shown[i])
                        [] i = Len(shown) + 1 /\ live # 0 -> current
                        [] OTHER                          -> BlankLine
           body    == [i \in 1..visible |-> row(i)]
           head    == IF NoHeader THEN <<>> ELSE <<Header(l)>>
<1>1. visible \in Nat \ {0}
  BY WindowAssumption DEF VisibleLines, Most
<1>2. shown \in Seq(Nat) /\ Len(shown) \in Nat
  <2>1. visible - 1 \in Nat
    BY <1>1
  <2>2. QED
    BY <2>1, LastNIs
<1>3. ASSUME NEW k \in Nat, NEW lv \in BOOLEAN
      PROVE  StatusLine(l, k, lv) \in OwnLines
  <2> DEFINE cells == Layouts!LineCells(l.hostWidth, l.retained, Status(k), lv, Duration, Value(k))
  <2>1. Duration \in Nat /\ Value(k) \in Nat
    BY DEF Duration, Value
  <2>2. cells \in Nat
    BY <2>1, LineCellsIs
  <2>3. StatusLine(l, k, lv) = TextLine(<<IF lv THEN "live" ELSE "line", k>>, cells)
    BY DEF StatusLine
  <2> HIDE DEF cells
  <2>4. CASE lv
    BY <2>2, <2>3, <2>4, LineTyped
  <2>5. CASE ~lv
    BY <2>2, <2>3, <2>5, LineTyped
  <2>6. QED
    BY <2>4, <2>5
<1>4. Header(l) \in OwnLines
  <2>1. Layouts!HeaderCells(l.hostWidth, l.retained) \in Nat
    BY HeaderCellsIs
  <2>2. QED
    BY <2>1, LineTyped DEF Header
<1>5. BlankLine \in OwnLines
  BY LineTyped DEF BlankLine
<1>6. Frame(l, hist, live, h) = head \o body
  BY DEF Frame
<1>7. current \in OwnLines /\ \A k \in Nat : past(k) \in OwnLines
  BY <1>3
<1> HIDE DEF shown, visible, past, current
<1>8. \A i \in 1..visible : row(i) \in OwnLines
  <2>1. ASSUME NEW i \in 1..visible
        PROVE  row(i) \in OwnLines
    <3>1. CASE i <= Len(shown)
      <4>1. i \in 1..Len(shown)
        BY <1>1, <1>2, <3>1
      <4>2. shown[i] \in Nat
        BY <1>2, <4>1
      <4>3. past(shown[i]) \in OwnLines
        BY <1>7, <4>2
      <4>4. row(i) = past(shown[i])
        BY <1>1, <1>2, <3>1
      <4>5. QED
        BY <4>3, <4>4
    <3>2. CASE ~(i <= Len(shown)) /\ i = Len(shown) + 1 /\ live # 0
      BY <1>7, <3>2
    <3>3. CASE ~(i <= Len(shown)) /\ ~(i = Len(shown) + 1 /\ live # 0)
      BY <1>5, <3>3
    <3>4. QED
      BY <3>1, <3>2, <3>3
  <2>2. QED
    BY <2>1
<1> HIDE DEF row
<1>9. body \in Seq(OwnLines) /\ Len(body) = visible
  BY <1>1, <1>8
<1>10. head \in Seq(OwnLines) /\ Len(head) = HeaderRows
  <2>1. CASE NoHeader
    BY <2>1, EmptySeq DEF HeaderRows
  <2>2. CASE ~NoHeader
    BY <1>4, <2>2 DEF HeaderRows
  <2>3. QED
    BY <2>1, <2>2
<1> HIDE DEF body, head
<1>11. QED
  BY <1>6, <1>9, <1>10, ConcatProperties DEF visible

------------------------------------------------------------------------------
(* The window: what is on the terminal *)

\* What the rows of the terminal are after the lines from before the program and the
\* frames that restarts have left.
Block ==
  IF ~started THEN <<BlankLine>>
  ELSE IF closed THEN lastRows \o <<BlankLine>> ELSE lastRows

\* A frame that still takes as many rows as when it was drawn is no higher than the
\* terminal.
BlockFits == \A s \in Sizes : Span(lastRows, s[1]) = lastPhysRows => lastPhysRows <= s[2]

\* The inductive invariant of the window: what is on the terminal, from top to bottom; that
\* the display knows the rows of its block as long as it trusts them; that the block is on
\* the screen when it has room there; and that the cursor stands behind text when the
\* terminal is to reflow.
BlockInv ==
  /\ size \in Sizes /\ \E s \in Sizes : term.w = s[1] /\ term.h = s[2]
  /\ \E n \in Above : Displays(term, (UserLines(n) \o frozen) \o Block)
  /\ frozen \in Seq(OwnLines)
  /\ ~started => ~closed /\ ~resizePending /\ term.home
  /\ started => lastRows \in Seq(OwnLines) /\ Len(lastRows) > 1 /\ BlockFits
  /\ started /\ ~resizePending => Span(lastRows, lastWidth) = lastPhysRows
  /\ started /\ ~closed /\ Span(lastRows, term.w) <= term.h
       => OnScreen(term, Span(lastRows, term.w))
  /\ term.w = size[1] => term.h = size[2]
  /\ term.w # size[1] => ~term.home \/ Block[Len(Block)].cells = 0

\* The block has two rows at any height.
TwoRows == \A s \in Sizes : HeaderRows + VisibleLines(s[2]) > 1

\* What a frame takes when it is drawn has room on every terminal on which it takes
\* as much.
FramesFit ==
  \A s, t \in Sizes, hist \in Seq(Nat), live \in Nat :
    LET rows == Frame(Resized(s[1]), hist, live, s[2])
    IN  Span(rows, t[1]) = Span(rows, s[1]) => Span(rows, s[1]) <= t[2]

\* A size of the terminal.
LEMMA SizeTyped ==
  ASSUME NEW s \in Sizes
  PROVE  s[1] \in Widths /\ s[1] \in Int /\ s[2] \in Nat \ {0}
BY DisplayAssumption DEF Widths

\* The rows that were in use when the program started.
LEMMA UserLinesTyped ==
  ASSUME NEW n \in Nat
  PROVE  /\ UserLines(n) \in Seq(Lines) /\ Len(UserLines(n)) = n
         /\ \A k \in 1..n : UserLines(n)[k].tag[1] = "user"
<1>1. ASSUME NEW k \in 1..n
      PROVE  TextLine(<<"user", k>>, 60) \in Lines /\ TextLine(<<"user", k>>, 60).tag[1] = "user"
  <2>1. TextLine(<<"user", k>>, 60) \in Lines
    BY LineTyped
  <2>2. TextLine(<<"user", k>>, 60).tag[1] = "user"
    BY DEF TextLine
  <2>3. QED
    BY <2>1, <2>2
<1> DEFINE line(k) == TextLine(<<"user", k>>, 60)
<1>2. \A k \in 1..n : line(k) \in Lines /\ line(k).tag[1] = "user"
  BY <1>1
<1>3. UserLines(n) = [k \in 1..n |-> line(k)]
  BY DEF UserLines
<1> HIDE DEF line
<1>4. QED
  BY <1>2, <1>3

\* Lines of the program are lines.
LEMMA OwnSeq ==
  ASSUME NEW s \in Seq(OwnLines)
  PROVE  s \in Seq(Lines)
<1>1. OwnLines \subseteq Lines
  BY DEF OwnLines
<1>2. QED
  BY <1>1, SeqMonotonic

\* Lines, one below the other, in three parts.
LEMMA LinesAssociative ==
  \A x, y, z \in Seq(Lines) : (x \o y) \o z = x \o (y \o z)
BY ConcatAssociative

\* Two lines take two rows.
LEMMA TwoLines ==
  ASSUME NEW L \in Seq(Lines), Len(L) > 1, NEW w \in Widths
  PROVE  Len(RowsOfAll(L, w)) > 1
<1>1. L # <<>> /\ Len(L) \in Nat
  BY EmptySeq
<1> DEFINE front == SubSeq(L, 1, Len(L) - 1)
           n == PhysicalRows(L[Len(L)].cells, w)
<1>2. /\ front \in Seq(Lines)
      /\ Len(RowsOfAll(L, w)) = Len(RowsOfAll(front, w)) + n /\ n \in Nat \ {0}
  BY <1>1, LastLine
<1>3. front # <<>>
  <2>1. front[1] = L[1] /\ Len(front) = Len(L) - 1
    BY <1>1
  <2> HIDE DEF front
  <2>2. QED
    BY <1>1, <2>1, EmptySeq
<1> HIDE DEF front, n
<1>4. Len(RowsOfAll(front, w)) \in Nat \ {0}
  BY <1>2, <1>3, RowsOfSome
<1>5. QED
  BY <1>2, <1>4

\* A frame drawn on a terminal that has reflowed.
Drew(end) ==
  /\ term'.w = term.w /\ term'.h = term.h
  /\ frozen' \in Seq(OwnLines)
  /\ \E n \in Above :
       /\ ~end => /\ Displays(term', (UserLines(n) \o frozen') \o lastRows')
                  /\ lastPhysRows' <= term'.h => OnScreen(term', lastPhysRows')
       /\ end => /\ Displays(term', ((UserLines(n) \o frozen') \o lastRows') \o <<BlankLine>>)
                 /\ term'.home

\* Redraw on a terminal that has reflowed: repaint, reclaim or restart leave what is above.
LEMMA DrawDisplays ==
  ASSUME BlockInv, Above \subseteq Nat, ~closed, term.w = size[1],
         lastRows' \in Seq(OwnLines), Len(lastRows') > 1,
         NEW hist, NEW live, NEW end, Draw(hist, live, end)
  PROVE  Drew(end)
<1>1. size \in Sizes /\ size[1] \in Widths /\ size[2] \in Nat \ {0} /\ term.h = size[2]
  BY SizeTyped DEF BlockInv
<1>2. PICK n \in Above : Displays(term, (UserLines(n) \o frozen) \o Block)
  BY DEF BlockInv
<1> DEFINE U == UserLines(n)
           A == U \o frozen
<1>3. U \in Seq(Lines) /\ frozen \in Seq(Lines) /\ frozen \in Seq(OwnLines) /\ A \in Seq(Lines)
  <2>1. U \in Seq(Lines)
    BY UserLinesTyped
  <2>2. frozen \in Seq(OwnLines)
    BY DEF BlockInv
  <2>3. frozen \in Seq(Lines)
    BY <2>2, OwnSeq
  <2> HIDE DEF U
  <2>4. A \in Seq(Lines)
    BY <2>1, <2>3, ConcatProperties
  <2>5. QED
    BY <2>1, <2>2, <2>3, <2>4
<1>4. lastRows' \in Seq(Lines) /\ lastRows' # <<>>
  <2> DEFINE new == lastRows'
  <2>1. new \in Seq(OwnLines) /\ Len(new) > 1
    OBVIOUS
  <2> HIDE DEF new
  <2>2. new \in Seq(Lines) /\ new # <<>>
    BY <2>1, OwnSeq, EmptySeq
  <2>3. QED
    BY <2>2 DEF new
<1>5. lastPhysRows' = Len(RowsOfAll(lastRows', term.w))
  BY DEF Draw, Span
<1>6. Displays(term, A \o Block)
  BY <1>2
<1> HIDE DEF U, A
<1>7. CASE ~started
  <2>1. Block = <<BlankLine>> /\ term.home /\ ~Crossing
    BY <1>7 DEF Block, BlockInv, Crossing, Observed
  <2>2. <<BlankLine>> \in Seq(Lines) /\ <<BlankLine>> # <<>>
        /\ Len(RowsOfAll(<<BlankLine>>, term.w)) = 1
    BY <1>1, BlankIs
  <2>3. Paint(term, lastPhysRows, end) /\ frozen' = frozen
    BY <2>1 DEF Draw
  <2>4. Over(term, <<BlankLine>>, lastPhysRows)
    BY <1>7, <2>1, <2>2 DEF Over
  <2>5. Displays(term, A \o <<BlankLine>>)
    BY <1>6, <2>1
  <2>6. /\ term'.w = term.w /\ term'.h = term.h
        /\ ~end => /\ Displays(term', A \o lastRows')
                   /\ lastPhysRows' <= term'.h => OnScreen(term', lastPhysRows')
        /\ end => Displays(term', (A \o lastRows') \o <<BlankLine>>) /\ term'.home
    BY <1>3, <1>4, <1>5, <2>2, <2>3, <2>4, <2>5, PaintDisplays
  <2>7. QED
    BY <1>3, <2>3, <2>6 DEF Drew, A, U
<1>8. CASE started /\ ~(Crossing /\ ~Reclaimable(lastRows'))
  <2>1. /\ Block = lastRows /\ lastRows \in Seq(OwnLines) /\ Len(lastRows) > 1 /\ BlockFits
        /\ ~resizePending => Span(lastRows, lastWidth) = lastPhysRows
        /\ Span(lastRows, term.w) <= term.h => OnScreen(term, Span(lastRows, term.w))
    BY <1>8 DEF Block, BlockInv
  <2>2. lastRows \in Seq(Lines) /\ lastRows # <<>>
    BY <2>1, OwnSeq, EmptySeq
  <2>3. PICK back : Paint(term, back, end) /\ frozen' = frozen
                    /\ back = Span(lastRows, size[1]) /\ Span(lastRows, size[1]) <= size[2]
    <3>1. CASE ~Crossing
      <4>1. Paint(term, lastPhysRows, end) /\ frozen' = frozen
        BY <3>1 DEF Draw
      <4>2. lastPhysRows = Span(lastRows, size[1])
        BY <1>8, <2>1, <3>1 DEF Crossing, Observed, Moved
      <4>3. lastPhysRows <= size[2]
        BY <1>1, <2>1, <4>2 DEF BlockFits
      <4>4. QED
        BY <4>1, <4>2, <4>3
    <3>2. CASE Crossing
      BY <1>8, <3>2 DEF Draw, Reclaimable
    <3>3. QED
      BY <3>1, <3>2
  <2>4. back = Len(RowsOfAll(lastRows, term.w)) /\ OnScreen(term, back)
    BY <1>1, <2>1, <2>3 DEF Span
  <2>5. back > 1
    BY <1>1, <2>1, <2>2, <2>4, TwoLines
  <2>6. Over(term, lastRows, back)
    BY <1>8, <2>4, <2>5 DEF Over
  <2>7. Displays(term, A \o lastRows)
    BY <1>6, <2>1
  <2>8. /\ term'.w = term.w /\ term'.h = term.h
        /\ ~end => /\ Displays(term', A \o lastRows')
                   /\ lastPhysRows' <= term'.h => OnScreen(term', lastPhysRows')
        /\ end => Displays(term', (A \o lastRows') \o <<BlankLine>>) /\ term'.home
    BY <1>3, <1>4, <1>5, <2>2, <2>3, <2>6, <2>7, PaintDisplays
  <2>9. QED
    BY <1>3, <2>3, <2>8 DEF Drew, A, U
<1>9. CASE started /\ Crossing /\ ~Reclaimable(lastRows')
  <2>1. /\ Block = lastRows /\ lastRows \in Seq(OwnLines)
        /\ lastRows \in Seq(Lines)
    BY <1>9, OwnSeq DEF Block, BlockInv
  <2>2. Paint(NewLine(term), 1, end) /\ frozen' = frozen \o lastRows
    BY <1>9 DEF Draw
  <2>3. Displays(term, A \o lastRows)
    BY <1>6, <2>1
  <2> DEFINE fresh == NewLine(term)
             B == A \o lastRows
  <2>4. /\ Displays(fresh, B \o <<BlankLine>>) /\ fresh.w = term.w /\ fresh.h = term.h
        /\ fresh.home
    BY <2>3, NewLineShows
  <2>5. <<BlankLine>> \in Seq(Lines) /\ <<BlankLine>> # <<>>
        /\ Len(RowsOfAll(<<BlankLine>>, fresh.w)) = 1
    BY <1>1, <2>4, BlankIs
  <2>6. B \in Seq(Lines) /\ frozen' \in Seq(OwnLines) /\ B = U \o frozen'
    <3>1. frozen \o lastRows \in Seq(OwnLines)
      BY <1>3, <2>1, ConcatProperties
    <3>2. A \o lastRows \in Seq(Lines)
      BY <1>3, <2>1, ConcatProperties
    <3>3. (U \o frozen) \o lastRows = U \o (frozen \o lastRows)
      BY <1>3, <2>1, LinesAssociative
    <3>4. QED
      BY <2>2, <3>1, <3>2, <3>3 DEF A
  <2>7. Over(fresh, <<BlankLine>>, 1)
    BY <2>4, <2>5 DEF Over
  <2>8. lastPhysRows' = Len(RowsOfAll(lastRows', fresh.w))
    BY <1>5, <2>4
  <2>9. Paint(fresh, 1, end)
    BY <2>2
  <2> HIDE DEF fresh, B
  <2>10. /\ term'.w = fresh.w /\ term'.h = fresh.h
         /\ ~end => /\ Displays(term', B \o lastRows')
                    /\ lastPhysRows' <= term'.h => OnScreen(term', lastPhysRows')
         /\ end => Displays(term', (B \o lastRows') \o <<BlankLine>>) /\ term'.home
    BY <1>4, <2>4, <2>5, <2>6, <2>7, <2>8, <2>9, PaintDisplays
  <2>11. QED
    BY <2>4, <2>6, <2>10 DEF Drew, U
<1>10. QED
  BY <1>7, <1>8, <1>9

\* What does not change when the terminal does.
Program == <<layout, started, lastPhysRows, lastRows, lastWidth, resizePending, closed, frozen>>

\* What is on the terminal is lines.
LEMMA BlockTyped ==
  ASSUME BlockInv, NEW n \in Nat
  PROVE  /\ UserLines(n) \o frozen \in Seq(Lines)
         /\ Block \in Seq(Lines) /\ Block # <<>>
<1>1. UserLines(n) \in Seq(Lines) /\ frozen \in Seq(Lines)
  BY UserLinesTyped, OwnSeq DEF BlockInv
<1>2. <<BlankLine>> \in Seq(Lines) /\ <<BlankLine>> # <<>>
  BY BlankTyped
<1>3. started => lastRows \in Seq(Lines) /\ lastRows # <<>>
  BY OwnSeq, EmptySeq DEF BlockInv
<1>4. started => lastRows \o <<BlankLine>> \in Seq(Lines) /\ lastRows \o <<BlankLine>> # <<>>
  BY <1>2, <1>3, LinesBehind
<1>5. QED
  BY <1>1, <1>2, <1>3, <1>4, ConcatProperties DEF Block

\* The terminal wraps its rows anew, the cursor being behind its text.
LEMMA RewrapKeeps ==
  ASSUME BlockInv, Above \subseteq Nat, NEW s \in Sizes, Rewrap(s), size' = s,
         UNCHANGED Program, ~term.home \/ term.buf[term.cur].cells = 0
  PROVE  BlockInv'
<1>1. s[1] \in Widths /\ s[2] \in Nat \ {0}
  BY SizeTyped
<1>2. PICK n \in Above : Displays(term, (UserLines(n) \o frozen) \o Block)
  BY DEF BlockInv
<1> DEFINE A == UserLines(n) \o frozen
           B == Block
           L == A \o B
<1>3. A \in Seq(Lines) /\ B \in Seq(Lines) /\ B # <<>>
  BY BlockTyped
<1>4. Displays(term, L)
  BY <1>2
<1>5. UNCHANGED <<Block, started, lastPhysRows, lastRows, lastWidth, resizePending, closed, frozen>>
  BY DEF Program, Block
<1> HIDE DEF A, B
<1>6. L \in Seq(Lines) /\ L # <<>> /\ L[Len(L)] = B[Len(B)]
  BY <1>3, LinesBehind
<1> HIDE DEF L
<1>7. term.buf[term.cur].cells = 0 <=> L[Len(L)].cells = 0
  <2>1. /\ term.w \in Widths /\ term.buf = RowsOfAll(L, term.w) /\ term.cur = Len(term.buf)
    BY <1>4 DEF Displays, Terminals
  <2>2. QED
    BY <1>6, <2>1, RowsOfSome
<1>8. Logical(term) = L /\ CursorLine(term) = Len(L)
  BY <1>4, DisplaysLogical
<1>9. term' = Rewrapped(term, L, Len(L), Starts(term.buf)[Len(L)], s[1], s[2])
  BY <1>8 DEF Rewrap, Logical
<1>10. /\ Displays(term', L) /\ term'.w = s[1] /\ term'.h = s[2] /\ term'.home = term.home
       /\ \A m \in 0..Len(RowsOfAll(L, s[1])) : m <= s[2] => OnScreen(term', m)
  BY <1>1, <1>4, <1>7, <1>9, RewrappedShows
<1>11. Len(RowsOfAll(B, s[1])) \in 0..Len(RowsOfAll(L, s[1]))
  <2>1. /\ RowsOfAll(A \o B, s[1]) = RowsOfAll(A, s[1]) \o RowsOfAll(B, s[1])
        /\ RowsOfAll(A, s[1]) \in Seq(Rows) /\ RowsOfAll(B, s[1]) \in Seq(Rows)
    BY <1>1, <1>3, RowsOfAllConcat
  <2>2. QED
    BY <2>1, ConcatProperties DEF L
<1>12. started /\ ~closed /\ Span(lastRows, s[1]) <= s[2] => OnScreen(term', Span(lastRows, s[1]))
  BY <1>10, <1>11 DEF Block, Span, B
<1>13. \E k \in Above : Displays(term', ((UserLines(k) \o frozen) \o Block)')
  BY <1>5, <1>10 DEF A, B, L
<1>14. BlockFits' = BlockFits
  BY <1>5 DEF BlockFits
<1>15. size'[1] = term'.w /\ size'[2] = term'.h
  BY <1>10
<1>16. ~started => term'.home
  BY <1>10 DEF BlockInv
<1>17. (Span(lastRows, term.w) <= term.h)' => (Span(lastRows, s[1]) <= s[2])
       /\ (OnScreen(term, Span(lastRows, term.w)))' = OnScreen(term', Span(lastRows, s[1]))
  BY <1>5, <1>10
<1>18. QED
  BY <1>5, <1>10, <1>12, <1>13, <1>14, <1>15, <1>16, <1>17 DEF BlockInv

\* The layout of a frame is that of the width it is drawn at.
LEMMA ResizedIs ==
  ASSUME NEW w \in Int
  PROVE  Resized(w).hostWidth \in Nat /\ Resized(w).retained \in 0..4
<1>1. Layouts!HostWidth(w) \in 15..40 /\ Layouts!Retained(w) \in 0..4
  BY HostWidthIs, RetainedIs
<1>2. Resized(w).hostWidth = Layouts!HostWidth(w) /\ Resized(w).retained = Layouts!Retained(w)
  BY DEF Resized
<1> DEFINE h == Layouts!HostWidth(w)
<1>3. h \in 15..40
  BY <1>1
<1> HIDE DEF h
<1>4. h \in Nat
  BY <1>3
<1>5. QED
  BY <1>1, <1>2, <1>4 DEF h

\* A redraw that writes keeps the invariant.
LEMMA DrawKeeps ==
  ASSUME BlockInv, Above \subseteq Nat, TwoRows, FramesFit, ~closed, term.w = size[1],
         NEW hist \in Seq(Nat), NEW live \in Nat, NEW end \in BOOLEAN, Draw(hist, live, end),
         lastWidth' = size[1], size' = size, (closed' <=> end)
  PROVE  BlockInv'
<1>1. size \in Sizes /\ size[1] \in Widths /\ size[1] \in Int /\ size[2] \in Nat \ {0}
      /\ term.h = size[2]
  BY SizeTyped DEF BlockInv
<1>2. /\ lastRows' = Frame(Resized(size[1]), hist, live, size[2])
      /\ lastPhysRows' = Span(lastRows', size[1])
      /\ started' /\ ~resizePending'
  BY DEF Draw
<1>3. lastRows' \in Seq(OwnLines) /\ Len(lastRows') > 1
  <2> DEFINE l == Resized(size[1])
  <2>1. l.hostWidth \in Nat /\ l.retained \in 0..4
    BY <1>1, ResizedIs
  <2>2. lastRows' = Frame(l, hist, live, size[2])
    BY <1>2
  <2> HIDE DEF l
  <2>3. /\ Frame(l, hist, live, size[2]) \in Seq(OwnLines)
        /\ Len(Frame(l, hist, live, size[2])) = HeaderRows + VisibleLines(size[2])
    BY <1>1, <2>1, FrameOwn
  <2>4. QED
    BY <1>1, <2>2, <2>3 DEF TwoRows
<1>4. Drew(end)
  BY <1>3, DrawDisplays
<1>5. \A t \in Sizes : Span(lastRows', t[1]) = lastPhysRows' => lastPhysRows' <= t[2]
  BY <1>1, <1>2 DEF FramesFit
<1>6. BlockFits'
  BY <1>5 DEF BlockFits
<1>7. /\ term'.w = size'[1] /\ term'.h = size'[2] /\ size' \in Sizes
      /\ frozen' \in Seq(OwnLines)
  BY <1>1, <1>4 DEF Drew
<1>8. (closed' <=> end)
  OBVIOUS
<1>9. \E n \in Above : Displays(term', (UserLines(n) \o frozen') \o Block')
  <2>1. PICK n \in Above :
          /\ ~end => Displays(term', (UserLines(n) \o frozen') \o lastRows')
          /\ end => Displays(term', ((UserLines(n) \o frozen') \o lastRows') \o <<BlankLine>>)
    BY <1>4 DEF Drew
  <2>2. CASE ~end
    <3>1. Block' = lastRows'
      BY <1>2, <1>8, <2>2 DEF Block
    <3>2. QED
      BY <2>1, <2>2, <3>1
  <2>3. CASE end
    <3>1. Block' = lastRows' \o <<BlankLine>>
      BY <1>2, <1>8, <2>3 DEF Block
    <3> DEFINE A == UserLines(n) \o frozen'
               R == lastRows'
    <3>2. A \in Seq(Lines) /\ R \in Seq(Lines) /\ <<BlankLine>> \in Seq(Lines)
      <4> DEFINE f == frozen'
                 u == UserLines(n)
      <4>1. f \in Seq(OwnLines) /\ R \in Seq(OwnLines)
        BY <1>3, <1>7
      <4>2. u \in Seq(Lines) /\ <<BlankLine>> \in Seq(Lines)
        <5>1. n \in Nat
          OBVIOUS
        <5>2. u \in Seq(Lines)
          BY <5>1, UserLinesTyped
        <5>3. QED
          BY <5>2, BlankTyped
      <4> HIDE DEF f, u, R
      <4>3. f \in Seq(Lines) /\ R \in Seq(Lines)
        BY <4>1, OwnSeq
      <4>4. u \o f \in Seq(Lines)
        BY <4>2, <4>3, ConcatProperties
      <4>5. QED
        BY <4>2, <4>3, <4>4 DEF f, u
    <3> HIDE DEF A, R
    <3>3. (A \o R) \o <<BlankLine>> = A \o (R \o <<BlankLine>>)
      BY <3>2, LinesAssociative
    <3>4. QED
      BY <2>1, <2>3, <3>1, <3>3 DEF A, R
  <2>4. QED
    BY <2>2, <2>3
<1>10. ~closed' /\ Span(lastRows', term'.w) <= term'.h => OnScreen(term', Span(lastRows', term'.w))
  <2>1. ~end => (lastPhysRows' <= term'.h => OnScreen(term', lastPhysRows'))
    BY <1>4 DEF Drew
  <2>2. Span(lastRows', term'.w) = lastPhysRows'
    BY <1>2, <1>7
  <2>3. QED
    BY <1>8, <2>1, <2>2
<1>11. \E s \in Sizes : term'.w = s[1] /\ term'.h = s[2]
  BY <1>7
<1>12. Span(lastRows', lastWidth') = lastPhysRows'
  BY <1>2
<1>13. QED
  BY <1>2, <1>3, <1>6, <1>7, <1>9, <1>10, <1>11, <1>12 DEF BlockInv

\* A redraw that is held back leaves the terminal and what the program knows of it.
LEMMA HoldKeeps ==
  ASSUME BlockInv, ~closed, Hold, Crossing \/ Deferred, lastWidth' = size[1], UNCHANGED <<size, closed>>
  PROVE  BlockInv'
<1>1. UNCHANGED <<term, started, lastPhysRows, lastRows, frozen>> /\ resizePending' = Crossing
  BY DEF Hold
<1>2. UNCHANGED <<BlockFits, Block>>
  BY <1>1 DEF BlockFits, Block
<1>3. (resizePending' <=> Crossing)
  BY <1>1
<1>4. ~started => ~resizePending'
  BY <1>3 DEF BlockInv, Crossing, Observed
<1>5. started /\ ~resizePending' => Span(lastRows, lastWidth') = lastPhysRows
  BY <1>3 DEF BlockInv, Crossing, Observed, Moved
<1>6. QED
  BY <1>1, <1>2, <1>4, <1>5 DEF BlockInv

\* A redraw, and the last one of a terminal at rest.
LEMMA RedrawKeeps ==
  ASSUME BlockInv, HoldInv, Above \subseteq Nat, TwoRows, FramesFit, ~closed,
         NEW hist \in Seq(Nat), NEW live \in Nat, NEW force \in BOOLEAN, force => ~Reflowing,
         Redraw(hist, live, force), size' = size,
         IF force THEN closed' = TRUE ELSE closed' = closed
  PROVE  BlockInv'
<1>1. lastWidth' = size[1]
  BY DEF Redraw
<1>2. CASE (Crossing \/ Deferred) /\ ~IsSettled(force) /\ Hold
  <2>1. ~force
    BY <1>2 DEF IsSettled
  <2>2. closed' = closed
    BY <2>1
  <2>3. QED
    BY <1>1, <1>2, <2>2, HoldKeeps
<1>3. CASE (Crossing \/ Deferred => IsSettled(force)) /\ Draw(hist, live, force)
  <2>1. ~Reflowing
    <3>1. CASE force
      BY <3>1
    <3>2. CASE ~force /\ Reflowing
      <4>1. started /\ (size[1] # lastWidth \/ Holding)
        BY <3>2 DEF HoldInv
      <4>2. ~IsSettled(force)
        BY <3>2, <4>1 DEF IsSettled, Observed, Holding
      <4>3. Crossing \/ Deferred
        BY <4>1 DEF Crossing, Deferred, Observed, Holding
      <4>4. QED
        BY <1>3, <4>2, <4>3
    <3>3. QED
      BY <3>1, <3>2
  <2>2. (closed' <=> force)
    OBVIOUS
  <2>3. QED
    BY <1>1, <1>3, <2>1, <2>2, DrawKeeps DEF Reflowing
<1>4. QED
  BY <1>1, <1>2, <1>3 DEF Redraw

\* At the start there is what was there before, and a blank row.
LEMMA BlockStarts ==
  ASSUME Above \subseteq Nat, Init
  PROVE  BlockInv
<1>1. /\ size \in Sizes /\ started = FALSE /\ closed = FALSE /\ resizePending = FALSE
      /\ frozen = <<>>
  BY DEF Init
<1>2. size[1] \in Widths /\ size[2] \in Nat \ {0}
  BY <1>1, SizeTyped
<1>3. PICK n \in Above : term = StartTerm(size, n)
  BY DEF Init
<1> DEFINE U == UserLines(n)
           X == RowsOfAll(U, size[1])
           L == U \o <<BlankLine>>
<1>4. U \in Seq(Lines) /\ <<BlankLine>> \in Seq(Lines) /\ <<BlankLine>> # <<>>
      /\ RowsOfAll(<<BlankLine>>, size[1]) = <<BlankRow>> /\ BlankRow \in Rows
  BY <1>2, <1>3, UserLinesTyped, BlankIs
<1> HIDE DEF U
<1>5. /\ RowsOfAll(L, size[1]) = X \o <<BlankRow>> /\ X \in Seq(Rows)
      /\ L \in Seq(Lines) /\ L # <<>>
  <2> DEFINE B == <<BlankLine>>
  <2>1. B \in Seq(Lines) /\ B # <<>> /\ RowsOfAll(B, size[1]) = <<BlankRow>>
    BY <1>4
  <2> HIDE DEF B
  <2>2. RowsOfAll(U \o B, size[1]) = RowsOfAll(U, size[1]) \o RowsOfAll(B, size[1])
        /\ RowsOfAll(U, size[1]) \in Seq(Rows)
    BY <1>2, <1>4, <2>1, RowsOfAllConcat
  <2>3. U \o B \in Seq(Lines) /\ U \o B # <<>>
    BY <1>4, <2>1, LinesBehind
  <2>4. QED
    BY <2>1, <2>2, <2>3 DEF B
<1> DEFINE rows == X \o <<BlankRow>>
<1>6. rows \in Seq(Rows) /\ Len(rows) = Len(X) + 1 /\ Len(X) \in Nat
  BY <1>4, <1>5, ConcatProperties
<1>7. term = [w |-> size[1], h |-> size[2], buf |-> rows, cur |-> Len(rows),
              top |-> IF Len(rows) > size[2] THEN Len(rows) - size[2] ELSE 0, home |-> TRUE]
  BY <1>3 DEF StartTerm, U
<1> HIDE DEF X, rows, L
<1>8. term \in Terminals /\ term.w = size[1] /\ term.h = size[2] /\ term.home
      /\ term.buf = rows /\ term.cur = Len(rows)
      /\ term.top < term.cur /\ term.cur <= term.top + term.h
  BY <1>2, <1>6, <1>7 DEF Terminals
<1>9. Displays(term, L)
  BY <1>5, <1>8 DEF Displays, rows
<1>10. (UserLines(n) \o frozen) \o Block = L
  <2>1. U \o <<>> = U
    BY <1>4, ConcatEmptySeq
  <2>2. Block = <<BlankLine>>
    BY <1>1 DEF Block
  <2>3. QED
    BY <1>1, <2>1, <2>2 DEF L, U
<1>11. <<>> \in Seq(OwnLines)
  OBVIOUS
<1>12. QED
  BY <1>1, <1>8, <1>9, <1>10, <1>11 DEF BlockInv

\* The cells of the row of the cursor, and of the last line of the block.
LEMMA LastCells ==
  ASSUME BlockInv, Above \subseteq Nat
  PROVE  term.buf[term.cur].cells = 0 <=> Block[Len(Block)].cells = 0
<1>1. PICK n \in Above : Displays(term, (UserLines(n) \o frozen) \o Block)
  BY DEF BlockInv
<1> DEFINE A == UserLines(n) \o frozen
           B == Block
           L == A \o B
<1>2. A \in Seq(Lines) /\ B \in Seq(Lines) /\ B # <<>>
  BY BlockTyped
<1>3. Displays(term, L)
  BY <1>1
<1> HIDE DEF A, B
<1>4. L \in Seq(Lines) /\ L # <<>> /\ L[Len(L)] = B[Len(B)]
  BY <1>2, LinesBehind
<1> HIDE DEF L
<1>5. /\ term.w \in Widths /\ term.buf = RowsOfAll(L, term.w) /\ term.cur = Len(term.buf)
  BY <1>3 DEF Displays, Terminals
<1>6. term.buf[term.cur].cells = 0 <=> L[Len(L)].cells = 0
  BY <1>4, <1>5, RowsOfSome
<1>7. QED
  BY <1>4, <1>6 DEF B

\* Every step of the window and of its terminal keeps the invariant.
LEMMA BlockInductive ==
  ASSUME BlockInv, HoldInv, HistInv, Above \subseteq Nat, TwoRows, FramesFit,
         "home" \notin Races, "finalize" \notin Races, [Next]_vars
  PROVE  BlockInv'
<1>1. begun \in Nat /\ history \in Seq(Nat)
  BY DEF HistInv, Latest
<1>2. ASSUME ~closed, cur # 0
      PROVE  begun - 1 \in Nat /\ Latest(history, begun - 1) /\ cur = begun - 1 + 1
             /\ PushHistory(cur) \in Seq(Nat) /\ cur \in Nat
  <2>1. begun - 1 \in Nat /\ Latest(history, begun - 1) /\ cur = begun - 1 + 1
    BY <1>2 DEF HistInv
  <2>2. Latest(PushHistory(cur), begun - 1 + 1)
    BY <2>1, PushLatest
  <2>3. QED
    BY <2>1, <2>2 DEF Latest
<1>3. CASE StatusChange
  <2>1. ~closed /\ Redraw(Finalized, begun + 1, FALSE) /\ UNCHANGED <<size, closed>>
    BY <1>3 DEF StatusChange
  <2>2. Finalized \in Seq(Nat) /\ begun + 1 \in Nat
    BY <1>1, <1>2, <2>1 DEF Finalized
  <2>3. QED
    BY <2>1, <2>2, RedrawKeeps
<1>4. CASE Repaint
  <2>1. ~closed /\ cur # 0 /\ Redraw(history, cur, FALSE) /\ UNCHANGED <<size, closed>>
    BY <1>4 DEF Repaint
  <2>2. QED
    BY <1>1, <1>2, <2>1, RedrawKeeps
<1>5. CASE Finalize
  <2>1. /\ ~closed /\ cur # 0 /\ Redraw(PushHistory(cur), 0, TRUE) /\ size' = size
        /\ closed' = TRUE /\ size = <<term.w, term.h>>
    BY <1>5 DEF Finalize
  <2>2. ~Reflowing
    <3>1. <<term.w, term.h>>[1] = term.w
      OBVIOUS
    <3>2. QED
      BY <2>1, <3>1 DEF Reflowing
  <2>3. QED
    BY <1>2, <2>1, <2>2, RedrawKeeps
<1>6. CASE Resize
  <2>1. PICK s \in Sizes :
          /\ ~term.home \/ term.buf[term.cur].cells = 0
          /\ size' = s
          /\ \/ s[1] = term.w /\ Rewrap(s)
             \/ s[1] # term.w /\ UNCHANGED term
    BY <1>6 DEF Resize, TakesSize
  <2>2. UNCHANGED Program
    BY <1>6 DEF Resize, Program
  <2>3. CASE Rewrap(s)
    BY <2>1, <2>2, <2>3, RewrapKeeps
  <2>4. CASE s[1] # term.w /\ UNCHANGED term
    <3>1. UNCHANGED <<BlockFits, Block, started, lastPhysRows, lastRows, lastWidth, resizePending,
                      closed, frozen>>
      BY <2>2 DEF Program, BlockFits, Block
    <3>2. ~term.home \/ Block[Len(Block)].cells = 0
      BY <2>1, LastCells
    <3>3. QED
      BY <2>1, <2>4, <3>1, <3>2 DEF BlockInv
  <2>5. QED
    BY <2>1, <2>3, <2>4
<1>7. CASE Reflowed
  <2>1. size # <<term.w, term.h>> /\ Rewrap(size) /\ size' = size /\ UNCHANGED Program
    BY <1>7 DEF Reflowed, Program
  <2>2. size \in Sizes /\ size = <<size[1], size[2]>>
    BY DisplayAssumption DEF BlockInv
  <2>3. ~term.home \/ Block[Len(Block)].cells = 0
    BY <2>1, <2>2 DEF BlockInv
  <2>4. ~term.home \/ term.buf[term.cur].cells = 0
    BY <2>3, LastCells
  <2>5. QED
    BY <2>1, <2>2, <2>4, RewrapKeeps
<1>8. CASE SettleTime \/ Done \/ UNCHANGED vars
  <2>1. UNCHANGED <<size, term, started, lastPhysRows, lastRows, lastWidth, closed, frozen>>
        /\ UNCHANGED resizePending
    BY <1>8 DEF SettleTime, Done, vars
  <2>2. UNCHANGED <<BlockFits, Block>>
    BY <2>1 DEF BlockFits, Block
  <2>3. QED
    BY <2>1, <2>2 DEF BlockInv
<1>9. QED
  BY <1>3, <1>4, <1>5, <1>6, <1>7, <1>8 DEF Next

\* Sequences of lines are equal when their lines are.
LEMMA SameLines ==
  ASSUME NEW a \in Seq(Lines), NEW b \in Seq(Lines), Len(a) = Len(b),
         \A i \in 1..Len(a) : a[i] = b[i]
  PROVE  a = b
BY SeqEqual

\* Lines one behind the other: the first ones, and the last ones.
LEMMA FirstAndLast ==
  ASSUME NEW a \in Seq(Lines), NEW b \in Seq(Lines)
  PROVE  /\ a \o b \in Seq(Lines) /\ Len(a \o b) = Len(a) + Len(b)
         /\ Len(a) \in Nat /\ Len(b) \in Nat
         /\ \A i \in 1..Len(a) : (a \o b)[i] = a[i]
         /\ \A i \in 1..Len(b) : (a \o b)[Len(a) + i] = b[i]
         /\ SubSeq(a \o b, 1, Len(a)) = a
         /\ LastN(a \o b, Len(b)) = b
<1> DEFINE c == a \o b
<1>1. /\ c \in Seq(Lines) /\ Len(c) = Len(a) + Len(b) /\ Len(a) \in Nat /\ Len(b) \in Nat
      /\ \A i \in 1..Len(a) : c[i] = a[i]
      /\ \A i \in 1..Len(b) : c[Len(a) + i] = b[i]
  <2>1. c \in Seq(Lines) /\ Len(c) = Len(a) + Len(b)
    BY ConcatProperties
  <2>2. \A i \in 1..(Len(a) + Len(b)) : c[i] = IF i <= Len(a) THEN a[i] ELSE b[i - Len(a)]
    BY ConcatProperties
  <2>3. Len(a) \in Nat /\ Len(b) \in Nat
    OBVIOUS
  <2> HIDE DEF c
  <2>4. \A i \in 1..Len(a) : c[i] = a[i]
    BY <2>2, <2>3
  <2>5. ASSUME NEW i \in 1..Len(b)
        PROVE  c[Len(a) + i] = b[i]
    <3>1. Len(a) + i \in 1..(Len(a) + Len(b)) /\ ~(Len(a) + i <= Len(a)) /\ Len(a) + i - Len(a) = i
      BY <2>3
    <3>2. QED
      BY <2>2, <3>1
  <2>6. QED
    BY <2>1, <2>3, <2>4, <2>5
<1> HIDE DEF c
<1>2. SubSeq(c, 1, Len(a)) = a
  <2>1. \A i \in 1..Len(a) : c[i] \in Lines
    BY <1>1
  <2> DEFINE d == SubSeq(c, 1, Len(a))
  <2>2. d \in Seq(Lines) /\ Len(d) = Len(a) /\ \A i \in 1..Len(a) : d[i] = c[i]
    BY <1>1, <2>1
  <2> HIDE DEF d
  <2>3. d = a
    BY <1>1, <2>2, SameLines
  <2>4. QED
    BY <2>3 DEF d
<1>3. LastN(c, Len(b)) = b
  <2> DEFINE n == Most(Len(b), Len(c))
  <2>1. n = Len(b)
    BY <1>1 DEF Most
  <2>2. /\ LastN(c, Len(b)) \in Seq(Lines) /\ Len(LastN(c, Len(b))) = n
        /\ \A i \in 1..n : LastN(c, Len(b))[i] = c[Len(c) - n + i]
    BY <1>1, LastNIs
  <2> DEFINE d == LastN(c, Len(b))
  <2> HIDE DEF d, n
  <2>3. ASSUME NEW i \in 1..Len(b)
        PROVE  d[i] = b[i]
    <3>1. Len(c) - n + i = Len(a) + i
      BY <1>1, <2>1
    <3>2. QED
      BY <1>1, <2>1, <2>2, <3>1 DEF d
  <2>4. d = b
    BY <1>1, <2>1, <2>2, <2>3, SameLines DEF d
  <2>5. QED
    BY <2>4 DEF d
<1>4. QED
  BY <1>1, <1>2, <1>3 DEF c

\* The rows from before the program are the first ones, and there are no others.
LEMMA UsersCounted ==
  ASSUME NEW n \in Nat, NEW own \in Seq(OwnLines)
  PROVE  LET L == UserLines(n) \o own
         IN  Cardinality({i \in DOMAIN L : L[i].tag[1] = "user"}) = n
<1> DEFINE U == UserLines(n)
           L == U \o own
<1>1. U \in Seq(Lines) /\ Len(U) = n /\ \A k \in 1..n : U[k].tag[1] = "user"
  BY UserLinesTyped
<1>2. own \in Seq(Lines)
  BY OwnSeq
<1> HIDE DEF U
<1>3. /\ L \in Seq(Lines) /\ Len(L) = n + Len(own) /\ Len(own) \in Nat
      /\ \A i \in 1..n : L[i] = U[i]
      /\ \A i \in 1..Len(own) : L[n + i] = own[i]
  BY <1>1, <1>2, FirstAndLast
<1> HIDE DEF L
<1>4. DOMAIN L = 1..(n + Len(own))
  BY <1>3
<1>5. ASSUME NEW i \in DOMAIN L
      PROVE  (L[i].tag[1] = "user" <=> i \in 1..n)
  <2>1. CASE i \in 1..n
    BY <1>1, <1>3, <2>1
  <2>2. CASE i \notin 1..n
    <3>1. i - n \in 1..Len(own) /\ n + (i - n) = i
      BY <1>3, <1>4, <2>2
    <3>2. L[i] = own[i - n]
      BY <1>3, <3>1
    <3>3. own[i - n] \in OwnLines
      BY <3>1
    <3>4. QED
      BY <2>2, <3>2, <3>3 DEF OwnLines
  <2>3. QED
    BY <2>1, <2>2
<1>6. {i \in DOMAIN L : L[i].tag[1] = "user"} = 1..n
  <2>1. 1..n \subseteq DOMAIN L
    BY <1>3, <1>4
  <2>2. QED
    BY <1>5, <2>1
<1>7. Cardinality(1..n) = n
  <2>1. Cardinality(1..n) = IF 1 > n THEN 0 ELSE n - 1 + 1
    BY FS_Interval
  <2>2. QED
    BY <2>1
<1>8. QED
  BY <1>6, <1>7 DEF L, U

\* No line of the block is one from before the program.
LEMMA BlockOwn ==
  ASSUME BlockInv
  PROVE  frozen \in Seq(OwnLines) /\ Block \in Seq(OwnLines)
<1>1. <<BlankLine>> \in Seq(OwnLines)
  <2>1. BlankLine \in OwnLines
    BY LineTyped DEF BlankLine
  <2>2. QED
    BY <2>1
<1>2. frozen \in Seq(OwnLines) /\ (started => lastRows \in Seq(OwnLines))
  BY DEF BlockInv
<1>3. started => lastRows \o <<BlankLine>> \in Seq(OwnLines)
  BY <1>1, <1>2, ConcatProperties
<1>4. QED
  BY <1>1, <1>2, <1>3 DEF Block

\* What is on the terminal, above the block and as the block.
Stacked(n) ==
  LET before == UserLines(n) \o frozen
      now  == Logical(term)
  IN  /\ UserCount = n
      /\ Len(before) <= Len(now) /\ SubSeq(now, 1, Len(before)) = before
      /\ LastN(now, Len(Block)) = Block
      /\ Len(now) = n + Len(frozen) + Len(Block)
      /\ CursorLine(term) = Len(now)

\* A terminal as BlockInv has it, read back.
LEMMA BlockStacked ==
  ASSUME BlockInv, Above \subseteq Nat
  PROVE  \E n \in Above : Stacked(n)
<1>1. PICK n \in Above : Displays(term, (UserLines(n) \o frozen) \o Block)
  BY DEF BlockInv
<1> DEFINE U == UserLines(n)
           before == U \o frozen
           now == before \o Block
<1>2. Logical(term) = now /\ CursorLine(term) = Len(now)
  BY <1>1, DisplaysLogical
<1>3. /\ frozen \in Seq(OwnLines) /\ Block \in Seq(OwnLines)
      /\ frozen \in Seq(Lines) /\ Block \in Seq(Lines)
  BY BlockOwn, OwnSeq
<1>4. U \in Seq(Lines) /\ Len(U) = n /\ n \in Nat
  BY UserLinesTyped
<1>5. UserCount = n
  <2>1. now = U \o (frozen \o Block)
    <3> HIDE DEF U
    <3>1. QED
      BY <1>3, <1>4, LinesAssociative
  <2>2. frozen \o Block \in Seq(OwnLines)
    BY <1>3, ConcatProperties
  <2> DEFINE own == frozen \o Block
  <2> HIDE DEF own
  <2>3. Cardinality({i \in DOMAIN now : now[i].tag[1] = "user"}) = n
    <3>1. own \in Seq(OwnLines) /\ now = UserLines(n) \o own
      BY <2>1, <2>2 DEF own, U
    <3>2. LET L == UserLines(n) \o own
          IN  Cardinality({i \in DOMAIN L : L[i].tag[1] = "user"}) = n
      BY <1>4, <3>1, UsersCounted
    <3> HIDE DEF now, U
    <3>3. QED
      BY <3>1, <3>2
  <2>4. QED
    BY <1>2, <2>3 DEF UserCount
<1> HIDE DEF U
<1>6. /\ before \in Seq(Lines) /\ Len(before) = n + Len(frozen) /\ Len(frozen) \in Nat
  BY <1>3, <1>4, FirstAndLast
<1> HIDE DEF before
<1>7. /\ Len(now) = Len(before) + Len(Block) /\ Len(Block) \in Nat
      /\ SubSeq(now, 1, Len(before)) = before /\ LastN(now, Len(Block)) = Block
  BY <1>3, <1>6, FirstAndLast
<1>8. /\ Len(before) <= Len(now) /\ Len(now) = n + Len(frozen) + Len(Block)
  <2> DEFINE a == Len(before)
             b == Len(Block)
             f == Len(frozen)
  <2>1. a = n + f /\ Len(now) = a + b /\ n \in Nat /\ f \in Nat /\ b \in Nat
    BY <1>4, <1>6, <1>7
  <2> HIDE DEF a, b, f
  <2>2. a <= Len(now) /\ Len(now) = n + f + b
    BY <2>1
  <2>3. QED
    BY <2>2 DEF a, b, f
<1>9. QED
  BY <1>2, <1>5, <1>7, <1>8 DEF Stacked, before, U

\* The invariant says what the two properties say.
LEMMA BlockShows ==
  ASSUME BlockInv, Above \subseteq Nat
  PROVE  AboveUntouched /\ BlockInPlace
<1>1. PICK n \in Above : Stacked(n)
  BY BlockStacked
<1>2. AboveUntouched
  BY <1>1 DEF AboveUntouched, Stacked
<1>3. SUFFICES ASSUME started
               PROVE  BlockInPlace
  BY <1>2 DEF BlockInPlace
<1>4. Block = IF closed THEN lastRows \o <<BlankLine>> ELSE lastRows
  BY <1>3 DEF Block
<1>5. term.cur \in (term.top + 1)..(term.top + term.h)
  <2>1. PICK k \in Above : Displays(term, (UserLines(k) \o frozen) \o Block)
    BY DEF BlockInv
  <2>2. /\ term.cur \in Nat /\ term.top \in Nat /\ term.h \in Nat
        /\ term.top < term.cur /\ term.cur <= term.top + term.h
    BY <2>1 DEF Displays, Terminals
  <2>3. QED
    BY <2>2
<1>6. ASSUME ~closed, ~resizePending, size = <<term.w, term.h>>, size[1] = lastWidth
      PROVE  Span(lastRows, term.w) = lastPhysRows /\ term.cur - lastPhysRows >= term.top
  <2>1. size[1] = term.w /\ size[2] = term.h
    BY <1>6
  <2>2. Span(lastRows, term.w) = lastPhysRows
    BY <1>3, <1>6, <2>1 DEF BlockInv
  <2>3. lastPhysRows <= term.h
    BY <1>3, <2>1, <2>2 DEF BlockInv, BlockFits
  <2>4. OnScreen(term, lastPhysRows)
    BY <1>3, <1>6, <2>2, <2>3 DEF BlockInv
  <2>5. QED
    BY <2>2, <2>4 DEF OnScreen
<1>7. LET now == Logical(term)
      IN  /\ LastN(now, Len(Block)) = Block
          /\ Len(now) = UserCount + Len(frozen) + Len(Block)
          /\ CursorLine(term) = Len(now)
  BY <1>1 DEF Stacked
<1>8. QED
  BY <1>2, <1>4, <1>5, <1>6, <1>7 DEF BlockInPlace

\* The world as the run window has it: a redraw that cleared rows does not meet a resize
\* ("home"; the run window_home shows what happens then), the end does not come in the
\* midst of a reflow ("finalize"), and no width is left and taken up again unseen
\* ("flicker").  The window has two rows at every height, and room where it was drawn.
Undisturbed ==
  /\ "home" \notin Races /\ "finalize" \notin Races /\ "flicker" \notin Races
  /\ Above \subseteq Nat /\ TwoRows /\ FramesFit

\* window.go: "Content above and below the window block is left exactly as it was."  What was
\* on the terminal before the program and what restarts left behind stays there unchanged, in
\* order and whole, above the block (window.go:265-337), for every set of sizes, every number
\* of lines, of statuses and of resizes.
THEOREM AboveUntouchedCorrect ==
  ASSUME Undisturbed
  PROVE  Spec => []AboveUntouched
<1>1. Init => BlockInv /\ HoldInv /\ HistInv /\ ShownInv
  BY BlockStarts, HoldStarts, ShownStarts DEF Undisturbed
<1>2. BlockInv /\ HoldInv /\ HistInv /\ ShownInv /\ [Next]_vars
        => (BlockInv /\ HoldInv /\ HistInv /\ ShownInv)'
  BY BlockInductive, HoldInductive, ShownInductive DEF Undisturbed
<1>3. BlockInv => AboveUntouched
  BY BlockShows DEF Undisturbed
<1>4. QED
  BY <1>1, <1>2, <1>3, PTL DEF Spec

\* The last frame is the end of what is on the terminal and is there once; at rest the
\* program knows how many rows it takes and the whole of it can be walked back over
\* (window.go:301-350), under the same hypotheses.
THEOREM BlockInPlaceCorrect ==
  ASSUME Undisturbed
  PROVE  Spec => []BlockInPlace
<1>1. Init => BlockInv /\ HoldInv /\ HistInv /\ ShownInv
  BY BlockStarts, HoldStarts, ShownStarts DEF Undisturbed
<1>2. BlockInv /\ HoldInv /\ HistInv /\ ShownInv /\ [Next]_vars
        => (BlockInv /\ HoldInv /\ HistInv /\ ShownInv)'
  BY BlockInductive, HoldInductive, ShownInductive DEF Undisturbed
<1>3. BlockInv => BlockInPlace
  BY BlockShows DEF Undisturbed
<1>4. QED
  BY <1>1, <1>2, <1>3, PTL DEF Spec

------------------------------------------------------------------------------
(* The plain display: a mark above the cursor *)

\* Lines written where the cursor is in a blank row.
LEMMA WriteShows ==
  ASSUME NEW A \in Seq(Lines), NEW new \in Seq(Lines), new # <<>>,
         NEW t, Displays(t, A \o <<BlankLine>>), t.home
  PROVE  LET c == Write(t, Text(t, new))
             n == Len(RowsOfAll(new, t.w))
         IN  /\ Displays(c, A \o new) /\ c.w = t.w /\ c.h = t.h
             /\ \A m \in 0..n : m <= t.h => OnScreen(c, m)
             /\ c.home <=> new[Len(new)].cells = 0
<1> DEFINE old == <<BlankLine>>
           n == Len(RowsOfAll(new, t.w))
           k == 1 - n
<1>1. /\ t \in Terminals /\ t.w \in Widths /\ t.cur \in Nat /\ t.top \in Nat /\ t.top < t.cur
  BY DEF Displays, Terminals
<1>2. old \in Seq(Lines) /\ old # <<>> /\ Len(RowsOfAll(old, t.w)) = 1
  <2>1. RowsOfAll(old, t.w) = <<BlankRow>>
    BY <1>1, BlankIs
  <2>2. Len(<<BlankRow>>) = 1
    OBVIOUS
  <2>3. QED
    BY <1>1, <2>1, <2>2, BlankIs
<1>3. n \in Nat \ {0}
  BY <1>1, RowsOfSome
<1>4. Displays(t, A \o old)
  OBVIOUS
<1> HIDE DEF old, n
<1>5. k \in Int /\ Stale(k, 1, n) /\ k <= 0
  BY <1>3 DEF Stale
<1> HIDE DEF k
<1>6. OnScreen(t, 1) /\ At(t, 1, t)
  BY <1>1, HomeAt DEF OnScreen
<1>7. LET c == ClearBelow(Write(t, Text(t, new)), k)
          m == Len(RowsOfAll(new, t.w))
      IN  /\ Displays(c, A \o new) /\ c.w = t.w /\ c.h = t.h
          /\ \A i \in 0..m : i <= t.h => OnScreen(c, i)
          /\ c.home <=> m < Len(RowsOfAll(old, t.w)) \/ new[Len(new)].cells = 0
  <2>1. OnScreen(t, Len(RowsOfAll(old, t.w))) /\ At(t, Len(RowsOfAll(old, t.w)), t)
    BY <1>2, <1>6
  <2>2. Stale(k, Len(RowsOfAll(old, t.w)), Len(RowsOfAll(new, t.w)))
    BY <1>2, <1>5 DEF n
  <2>3. new # <<>> /\ old \in Seq(Lines) /\ old # <<>>
    BY <1>2
  <2>4. QED
    BY <1>4, <1>5, <2>1, <2>2, <2>3, OverShows
<1>8. ClearBelow(Write(t, Text(t, new)), k) = Write(t, Text(t, new))
  BY <1>5, ClearNothing
<1>9. ~(n < 1)
  BY <1>3
<1>10. QED
  BY <1>2, <1>7, <1>8, <1>9 DEF n

\* A line of one row that another takes the place of, from the row below.
Remarked(t, m) == [t EXCEPT !.buf[t.cur - 1] = Row(m.tag, m.cells, FALSE)]

\* A line of one row, and the dash in its place.
LEMMA OneRowOf ==
  ASSUME NEW l \in Lines, NEW w \in Widths, PhysicalRows(l.cells, w) = 1
  PROVE  /\ RowsOf(l, w) \in Seq(Rows) /\ Len(RowsOf(l, w)) = 1
         /\ RowsOf(l, w)[1] = Row(l.tag, l.cells, FALSE)
<1>1. /\ RowsOf(l, w) \in Seq(Rows) /\ Len(RowsOf(l, w)) = 1
      /\ \A i \in 1..1 : RowsOf(l, w)[i] = Row(l.tag, IF i < 1 THEN w ELSE l.cells - (1 - 1) * w, i < 1)
  BY RowsOfIs
<1>2. l.cells \in Nat /\ w \in Nat
  BY DEF Lines, Widths
<1>3. l.cells - (1 - 1) * w = l.cells /\ ~(1 < 1)
  BY <1>2
<1>4. RowsOf(l, w)[1] = Row(l.tag, l.cells, 1 < 1)
  BY <1>1, <1>3
<1>5. (1 < 1) = FALSE
  OBVIOUS
<1>6. QED
  BY <1>1, <1>4, <1>5

\* The rows of lines of which the last but one takes one row and the last is blank.
LEMMA RowsAbove ==
  ASSUME NEW A \in Seq(Lines), NEW l \in Lines, NEW w \in Widths, PhysicalRows(l.cells, w) = 1
  PROVE  LET X == RowsOfAll(A, w)
             R == RowsOfAll((A \o <<l>>) \o <<BlankLine>>, w)
         IN  /\ X \in Seq(Rows) /\ R \in Seq(Rows) /\ Len(X) \in Nat /\ Len(R) = Len(X) + 2
             /\ \A i \in 1..Len(X) : R[i] = X[i]
             /\ R[Len(X) + 1] = Row(l.tag, l.cells, FALSE) /\ R[Len(X) + 2] = BlankRow
             /\ (A \o <<l>>) \o <<BlankLine>> \in Seq(Lines)
             /\ (A \o <<l>>) \o <<BlankLine>> # <<>>
<1> DEFINE L1 == <<l>>
           B1 == <<BlankLine>>
           X == RowsOfAll(A, w)
           Y == RowsOf(l, w)
           Z == <<BlankRow>>
           R == (X \o Y) \o Z
<1>1. L1 \in Seq(Lines) /\ L1 # <<>> /\ RowsOfAll(L1, w) = Y /\ Y \in Seq(Rows) /\ Len(Y) = 1
      /\ Y[1] = Row(l.tag, l.cells, FALSE)
  BY OneLine, OneRowOf
<1>2. B1 \in Seq(Lines) /\ B1 # <<>> /\ RowsOfAll(B1, w) = Z /\ Z \in Seq(Rows) /\ Len(Z) = 1
      /\ Z[1] = BlankRow
  BY BlankIs
<1> HIDE DEF L1, B1, Z, Y
<1>3. A \o L1 \in Seq(Lines) /\ RowsOfAll(A \o L1, w) = X \o Y /\ X \in Seq(Rows)
  <2>1. RowsOfAll(A \o L1, w) = RowsOfAll(A, w) \o RowsOfAll(L1, w) /\ RowsOfAll(A, w) \in Seq(Rows)
    BY <1>1, RowsOfAllConcat
  <2>2. A \o L1 \in Seq(Lines)
    BY <1>1, LinesBehind
  <2>3. QED
    BY <1>1, <2>1, <2>2
<1>4. RowsOfAll((A \o L1) \o B1, w) = R /\ (A \o L1) \o B1 \in Seq(Lines) /\ (A \o L1) \o B1 # <<>>
  <2> DEFINE K == A \o L1
  <2> HIDE DEF K
  <2>1. K \in Seq(Lines) /\ RowsOfAll(K, w) = X \o Y
    BY <1>3 DEF K
  <2>2. RowsOfAll(K \o B1, w) = RowsOfAll(K, w) \o RowsOfAll(B1, w)
    BY <1>2, <2>1, RowsOfAllConcat
  <2>3. K \o B1 \in Seq(Lines) /\ K \o B1 # <<>>
    BY <1>2, <2>1, LinesBehind
  <2>4. QED
    BY <1>2, <2>1, <2>2, <2>3 DEF K
<1> HIDE DEF X
<1> DEFINE V == X \o Y
<1>5. /\ V \in Seq(Rows) /\ Len(V) = Len(X) + 1 /\ Len(X) \in Nat
      /\ \A i \in 1..(Len(X) + Len(Y)) : V[i] = IF i <= Len(X) THEN X[i] ELSE Y[i - Len(X)]
  <2>1. Len(X) \in Nat
    BY <1>3
  <2>2. /\ X \o Y \in Seq(Rows) /\ Len(X \o Y) = Len(X) + Len(Y)
        /\ \A i \in 1..(Len(X) + Len(Y)) : (X \o Y)[i] = IF i <= Len(X) THEN X[i] ELSE Y[i - Len(X)]
    BY <1>1, <1>3, ConcatProperties
  <2>3. QED
    BY <1>1, <2>1, <2>2
<1>6. V[Len(X) + 1] = Y[1] /\ \A i \in 1..Len(X) : V[i] = X[i]
  <2>1. Len(X) + 1 \in 1..(Len(X) + Len(Y)) /\ ~(Len(X) + 1 <= Len(X)) /\ Len(X) + 1 - Len(X) = 1
    BY <1>1, <1>5
  <2>2. V[Len(X) + 1] = Y[1]
    BY <1>5, <2>1
  <2>3. ASSUME NEW i \in 1..Len(X)
        PROVE  V[i] = X[i]
    <3>1. i \in 1..(Len(X) + Len(Y)) /\ i <= Len(X)
      BY <1>1, <1>5
    <3>2. QED
      BY <1>5, <3>1
  <2>4. QED
    BY <2>2, <2>3
<1>7. R = V \o Z
  OBVIOUS
<1> HIDE DEF V, R
<1>8. /\ R \in Seq(Rows) /\ Len(R) = Len(X) + 2
      /\ \A i \in 1..(Len(V) + Len(Z)) : R[i] = IF i <= Len(V) THEN V[i] ELSE Z[i - Len(V)]
  <2>1. /\ V \o Z \in Seq(Rows) /\ Len(V \o Z) = Len(V) + Len(Z)
        /\ \A i \in 1..(Len(V) + Len(Z)) : (V \o Z)[i] = IF i <= Len(V) THEN V[i] ELSE Z[i - Len(V)]
    BY <1>2, <1>5, ConcatProperties
  <2>2. QED
    BY <1>2, <1>5, <1>7, <2>1
<1>9. R[Len(X) + 2] = BlankRow
  <2>1. Len(X) + 2 \in 1..(Len(V) + Len(Z)) /\ ~(Len(X) + 2 <= Len(V)) /\ Len(X) + 2 - Len(V) = 1
    BY <1>2, <1>5
  <2>2. QED
    BY <1>2, <1>8, <2>1
<1>10. ASSUME NEW i \in 1..(Len(X) + 1)
       PROVE  R[i] = V[i]
  <2>1. i \in 1..(Len(V) + Len(Z)) /\ i <= Len(V)
    BY <1>2, <1>5
  <2>2. QED
    BY <1>8, <2>1
<1>11. /\ R[Len(X) + 1] = Row(l.tag, l.cells, FALSE)
       /\ \A i \in 1..Len(X) : R[i] = X[i]
  <2>1. Len(X) + 1 \in 1..(Len(X) + 1) /\ \A i \in 1..Len(X) : i \in 1..(Len(X) + 1)
    BY <1>5
  <2>2. QED
    BY <1>1, <1>6, <1>10, <2>1
<1>12. QED
  BY <1>3, <1>4, <1>5, <1>8, <1>9, <1>11 DEF L1, B1, X

\* resizeMarkAbove (display.go:315-330): a line of one row becomes a dash, the rows above
\* and the blank one below stay.
LEMMA MarkShows ==
  ASSUME NEW A \in Seq(Lines), NEW l \in Lines, NEW m \in Lines, NEW t, Displays(t, A \o <<l>>),
         PhysicalRows(l.cells, t.w) = 1, PhysicalRows(m.cells, t.w) = 1
  PROVE  LET u == Remarked(NewLine(t), m)
         IN  /\ Displays(u, (A \o <<m>>) \o <<BlankLine>>)
             /\ u.w = t.w /\ u.h = t.h /\ u.home
<1> DEFINE v == NewLine(t)
           w == t.w
           X == RowsOfAll(A, w)
           L == (A \o <<l>>) \o <<BlankLine>>
           M == (A \o <<m>>) \o <<BlankLine>>
           R == RowsOfAll(L, w)
           S == RowsOfAll(M, w)
           u == Remarked(v, m)
           r == Row(m.tag, m.cells, FALSE)
<1>1. w \in Widths
  BY DEF Displays, Terminals
<1>2. Displays(v, L) /\ v.w = w /\ v.h = t.h /\ v.home
  BY NewLineShows
<1>3. /\ X \in Seq(Rows) /\ R \in Seq(Rows) /\ Len(X) \in Nat /\ Len(R) = Len(X) + 2
      /\ \A i \in 1..Len(X) : R[i] = X[i]
      /\ R[Len(X) + 2] = BlankRow
  BY <1>1, RowsAbove
<1>4. /\ S \in Seq(Rows) /\ Len(S) = Len(X) + 2
      /\ \A i \in 1..Len(X) : S[i] = X[i]
      /\ S[Len(X) + 1] = r /\ S[Len(X) + 2] = BlankRow
      /\ M \in Seq(Lines) /\ M # <<>>
  BY <1>1, RowsAbove
<1> HIDE DEF v, L, M
<1>5. v \in Terminals /\ v.buf = R /\ v.cur = Len(R) /\ v.top < v.cur /\ v.cur <= v.top + v.h
  BY <1>2 DEF Displays
<1> HIDE DEF X, R, S, w, r
<1>6. v.cur - 1 = Len(X) + 1
  BY <1>3, <1>5
<1>7. u = [v EXCEPT !.buf = [R EXCEPT ![Len(X) + 1] = r]]
  BY <1>5, <1>6 DEF Remarked, r
<1> DEFINE T == [R EXCEPT ![Len(X) + 1] = r]
<1>8. T = S
  <2>1. /\ DOMAIN T = 1..Len(R) /\ \A i \in 1..Len(R) : T[i] = IF i = Len(X) + 1 THEN r ELSE R[i]
    BY <1>3
  <2>2. DOMAIN S = 1..Len(R)
    BY <1>3, <1>4
  <2> HIDE DEF T
  <2>3. ASSUME NEW i \in 1..Len(R)
        PROVE  T[i] = S[i]
    <3>1. CASE i \in 1..Len(X)
      <4>1. i # Len(X) + 1
        BY <1>3, <3>1
      <4>2. QED
        BY <1>3, <1>4, <2>1, <3>1, <4>1
    <3>2. CASE i = Len(X) + 1
      BY <1>4, <2>1, <3>2
    <3>3. CASE i = Len(X) + 2
      <4>1. i # Len(X) + 1
        BY <1>3, <3>3
      <4>2. QED
        BY <1>3, <1>4, <2>1, <3>3, <4>1
    <3>4. QED
      BY <1>3, <3>1, <3>2, <3>3
  <2>4. T = [i \in 1..Len(R) |-> T[i]] /\ S = [i \in 1..Len(R) |-> S[i]]
    <3>1. S = [i \in 1..Len(S) |-> S[i]]
      BY <1>4
    <3>2. T = [i \in DOMAIN T |-> T[i]]
      BY DEF T
    <3>3. QED
      BY <2>1, <2>2, <1>3, <1>4, <3>1, <3>2
  <2>5. QED
    BY <2>3, <2>4
<1> HIDE DEF T
<1>9. u = [v EXCEPT !.buf = S]
  BY <1>7, <1>8 DEF T
<1> HIDE DEF u
<1>10. u \in Terminals /\ u.buf = S /\ u.w = v.w /\ u.h = v.h /\ u.cur = v.cur /\ u.top = v.top
       /\ u.home = v.home
  BY <1>4, <1>5, <1>9 DEF Terminals
<1>11. Displays(u, M)
  BY <1>2, <1>3, <1>4, <1>5, <1>10 DEF Displays, S
<1>12. QED
  BY <1>2, <1>10, <1>11 DEF u, v, w, M

------------------------------------------------------------------------------
(* The plain display: lines, and what is left behind *)

\* A paint of the plain display, on the terminal of the window.
LEMMA PaintIs ==
  ASSUME NEW t, NEW line, NEW phys, NEW below, PaintLine(t, line, phys, below)
  PROVE  LET up    == Up(t, IF phys > 1 THEN phys - 1 ELSE 0)
             clean == ClearBelow(Write(up, Text(up, <<line>>)),
                                 phys - PhysicalRows(line.cells, size[1]))
             next  == NewLine(clean)
         IN  term' = IF below = <<>> THEN clean ELSE Write(next, Text(next, below))
BY DEF PaintLine, Phys

\* A line in place of another one, and one below it.
Takes(line, w, n) == PhysicalRows(line.cells, w) = n

\* Lines above, a line and the column of the cursor.
Painted(t, A, line, home) ==
  /\ Displays(term', A \o <<line>>) /\ term'.w = t.w /\ term'.h = t.h
  /\ \A m \in 0..PhysicalRows(line.cells, t.w) : m <= t.h => OnScreen(term', m)
  /\ (term'.home <=> home = 0)

\* A paint puts a line in the place of the last one, and another one below
\* (display.go:253-273).
LEMMA PlainPaintShows ==
  ASSUME NEW A \in Seq(Lines), NEW old \in Lines, NEW line \in Lines, NEW t, Displays(t, A \o <<old>>),
         t.w = size[1], NEW phys, Takes(old, t.w, phys), OnScreen(t, phys)
  PROVE  /\ PaintLine(t, line, phys, <<>>)
              => Painted(t, A, line, IF PhysicalRows(line.cells, t.w) < phys THEN 0 ELSE line.cells)
         /\ \A x \in Lines : PaintLine(t, line, phys, <<x>>)
              => Painted(t, A \o <<line>>, x, x.cells)
<1> DEFINE n == PhysicalRows(line.cells, t.w)
           up    == Up(t, IF phys > 1 THEN phys - 1 ELSE 0)
           O == <<old>>
           N == <<line>>
           k == phys - n
           clean == ClearBelow(Write(up, Text(up, N)), k)
<1>1. t \in Terminals /\ t.w \in Widths
  BY DEF Displays, Terminals
<1>2. /\ O \in Seq(Lines) /\ O # <<>> /\ Len(RowsOfAll(O, t.w)) = phys
      /\ N \in Seq(Lines) /\ N # <<>> /\ Len(RowsOfAll(N, t.w)) = n
      /\ Len(N) = 1 /\ N[Len(N)] = line
  BY <1>1, OneLine DEF Takes
<1>3. phys \in Nat \ {0} /\ n \in Nat \ {0}
  BY <1>1, PhysicalRowsIs DEF Lines, Takes
<1>4. At(t, phys, up)
  <2>1. (IF phys > 1 THEN phys - 1 ELSE 0) = phys - 1
    BY <1>3
  <2>2. QED
    BY <1>1, <1>3, <2>1, UpAt
<1>5. Displays(t, A \o O)
  OBVIOUS
<1> HIDE DEF n, up, O, N
<1>6. k \in Int /\ Stale(k, phys, n)
  BY <1>3 DEF Stale
<1> HIDE DEF k
<1>7. /\ Displays(clean, A \o N) /\ clean.w = t.w /\ clean.h = t.h
      /\ \A m \in 0..n : m <= t.h => OnScreen(clean, m)
      /\ clean.home <=> n < phys \/ line.cells = 0
  <2>1. OnScreen(t, Len(RowsOfAll(O, t.w))) /\ At(t, Len(RowsOfAll(O, t.w)), up)
    BY <1>2, <1>4
  <2>2. Stale(k, Len(RowsOfAll(O, t.w)), Len(RowsOfAll(N, t.w)))
    BY <1>2, <1>6
  <2>3. LET c == ClearBelow(Write(up, Text(up, N)), k)
            i == Len(RowsOfAll(N, t.w))
        IN  /\ Displays(c, A \o N) /\ c.w = t.w /\ c.h = t.h
            /\ \A m \in 0..i : m <= t.h => OnScreen(c, m)
            /\ c.home <=> i < Len(RowsOfAll(O, t.w)) \/ N[Len(N)].cells = 0
    BY <1>2, <1>5, <1>6, <2>1, <2>2, OverShows
  <2>4. QED
    BY <1>2, <2>3
<1>8. ASSUME NEW below, PaintLine(t, line, phys, below)
      PROVE  term' = IF below = <<>> THEN clean
                     ELSE Write(NewLine(clean), Text(NewLine(clean), below))
  BY <1>8, PaintIs DEF clean, up, N, k, n
<1> HIDE DEF clean
<1>9. ASSUME PaintLine(t, line, phys, <<>>)
      PROVE  term' = clean
  BY <1>8, <1>9
<1>10. ASSUME NEW x \in Lines, PaintLine(t, line, phys, <<x>>)
       PROVE  /\ Displays(term', (A \o N) \o <<x>>) /\ term'.w = t.w /\ term'.h = t.h
              /\ \A m \in 0..PhysicalRows(x.cells, t.w) : m <= t.h => OnScreen(term', m)
              /\ term'.home <=> x.cells = 0
  <2> DEFINE next == NewLine(clean)
             X == <<x>>
             B == A \o N
  <2>1. X \in Seq(Lines) /\ X # <<>> /\ Len(RowsOfAll(X, t.w)) = PhysicalRows(x.cells, t.w)
        /\ X[Len(X)] = x
    BY <1>1, OneLine
  <2>2. Displays(next, B \o <<BlankLine>>) /\ next.w = t.w /\ next.h = t.h /\ next.home
    BY <1>7, NewLineShows
  <2>3. B \in Seq(Lines)
    BY <1>2, ConcatProperties
  <2> HIDE DEF X
  <2>4. term' = Write(next, Text(next, X))
    BY <1>8, <1>10, <2>1 DEF X
  <2> HIDE DEF next, B
  <2>5. LET c == Write(next, Text(next, X))
            i == Len(RowsOfAll(X, next.w))
        IN  /\ Displays(c, B \o X) /\ c.w = next.w /\ c.h = next.h
            /\ \A m \in 0..i : m <= next.h => OnScreen(c, m)
            /\ c.home <=> X[Len(X)].cells = 0
    BY <2>1, <2>2, <2>3, WriteShows
  <2>6. QED
    BY <2>1, <2>2, <2>4, <2>5 DEF X, B
<1>11. ASSUME PaintLine(t, line, phys, <<>>)
       PROVE  Painted(t, A, line, IF PhysicalRows(line.cells, t.w) < phys THEN 0 ELSE line.cells)
  BY <1>7, <1>9, <1>11 DEF n, N, Painted
<1>12. ASSUME NEW x \in Lines, PaintLine(t, line, phys, <<x>>)
       PROVE  Painted(t, A \o <<line>>, x, x.cells)
  BY <1>10, <1>12 DEF N, Painted
<1>13. QED
  BY <1>11, <1>12

\* The cells of a status in the layout of the start.
LEMMA PlainCellsIs ==
  ASSUME NEW k, NEW live \in BOOLEAN
  PROVE  Cells(k, live) \in Nat
<1> DEFINE st == Status(k)
           c == FullLayout!LastShown(st, 4)
           v == Value(k)
           h == FullLayout!HostNeed
<1>1. h \in Nat
  BY DEF FullLayout!HostNeed, FullLayout!AtMost, FullLayout!AtLeast,
     FullLayout!MinHost, FullLayout!MaxHost
<1>2. c \in 0..4
  BY DEF FullLayout!LastShown, FullLayout!AtMost
<1>3. v \in Nat /\ Duration = 11
  BY DEF Value, Duration
<1>4. Cells(k, live)
        = CASE c > 0 -> FullLayout!BeforeColumn(h, c) + v
            [] c = 0 /\ live  -> FullLayout!BeforeDuration(h) + 14
            [] c = 0 /\ ~live -> FullLayout!BeforeDuration(h) + Duration
  BY DEF Cells, FullLayout!LineCells
<1> HIDE DEF c, v, h, st
<1>5. FullLayout!BeforeColumn(h, c) \in Int /\ FullLayout!BeforeDuration(h) \in Nat
      /\ (c > 0 => FullLayout!BeforeColumn(h, c) \in Nat)
  BY <1>1, <1>2 DEF FullLayout!BeforeColumn, FullLayout!BeforeDuration
<1>6. CASE c > 0
  BY <1>2, <1>3, <1>4, <1>5, <1>6
<1>7. CASE c = 0 /\ live
  BY <1>2, <1>3, <1>4, <1>5, <1>7
<1>8. CASE c = 0 /\ ~live
  BY <1>2, <1>3, <1>4, <1>5, <1>8
<1>9. QED
  BY <1>2, <1>6, <1>7, <1>8

\* A line with a tag and some cells is a line.
LEMMA TextTyped ==
  ASSUME NEW tag \in Tags, NEW cells \in Nat
  PROVE  TextLine(tag, cells) \in Lines /\ TextLine(tag, cells).cells = cells
BY DEF TextLine, Lines

\* The lines of the plain display; the dash takes one row at every width.
LEMMA PlainLines ==
  ASSUME NEW k \in Nat
  PROVE  /\ Live(k) \in Lines /\ Final(k) \in Lines
         /\ HeaderLine \in Lines /\ Mark \in Lines
         /\ \A w \in Widths : PhysicalRows(Mark.cells, w) = 1
         /\ Headers \in Seq(Lines)
<1>1. Live(k) \in Lines
  <2>1. <<"live", k>> \in Tags
    BY DEF Tags
  <2>2. Live(k) = TextLine(<<"live", k>>, Cells(k, TRUE))
    BY DEF Live
  <2>3. QED
    BY <2>1, <2>2, PlainCellsIs, TextTyped
<1>2. Final(k) \in Lines
  <2>1. <<"line", k>> \in Tags
    BY DEF Tags
  <2>2. Final(k) = TextLine(<<"line", k>>, Cells(k, FALSE))
    BY DEF Final
  <2>3. QED
    BY <2>1, <2>2, PlainCellsIs, TextTyped
<1>3. HeaderLine \in Lines
  <2> DEFINE c == FullLayout!HeaderCells(FullLayout!HostNeed, 4)
  <2>1. FullLayout!HostNeed \in Nat
    BY DEF FullLayout!HostNeed, FullLayout!AtMost, FullLayout!AtLeast,
       FullLayout!MinHost, FullLayout!MaxHost
  <2>2. c \in Nat
    BY <2>1 DEF FullLayout!HeaderCells, FullLayout!BeforeColumn, FullLayout!BeforeDuration
  <2>3. <<"header", 0>> \in Tags
    BY DEF Tags
  <2>4. HeaderLine = TextLine(<<"header", 0>>, c)
    BY DEF HeaderLine
  <2>5. QED
    BY <2>2, <2>3, <2>4, TextTyped
<1>4. Mark \in Lines /\ Mark.cells = 1
  <2>1. <<"mark", 0>> \in Tags
    BY DEF Tags
  <2>2. Mark = TextLine(<<"mark", 0>>, 1)
    BY DEF Mark
  <2>3. QED
    BY <2>1, <2>2, TextTyped
<1>5. \A w \in Widths : PhysicalRows(Mark.cells, w) = 1
  BY <1>4 DEF PhysicalRows, Widths
<1>6. Headers \in Seq(Lines)
  <2>1. CASE NoHeader
    BY <2>1, EmptySeq DEF Headers
  <2>2. CASE ~NoHeader
    BY <1>3, <2>2 DEF Headers
  <2>3. QED
    BY <2>1, <2>2
<1>7. QED
  BY <1>1, <1>2, <1>3, <1>4, <1>5, <1>6

\* The line the cursor is in.
LastShown == IF mode = "live" /\ cur # 0 THEN Live(cur) ELSE BlankLine

\* The rows of the live line at width w.
LiveRows(w) == PhysicalRows(Live(cur).cells, w)

\* What the display knows of its live line: its rows, as long as no resize is pending; that
\* all of them are on the screen; that it looks at another width or holds back while the
\* terminal reflows; and that the line is as high as its finished form when it restarts.
LiveInv ==
  /\ lastWidth \in Nat \ {0}
  /\ OnScreen(term, LiveRows(term.w))
  /\ ~resizePending => lastPhysRows = LiveRows(lastWidth)
  /\ term.w # size[1] => size[1] # lastWidth \/ (resizePending /\ ~settled)
  /\ Pending => LiveRows(size[1]) = PhysicalRows(Final(cur).cells, size[1])

\* How many lines are left behind without live mode.
Counted ==
  /\ mode = "lines" => \E n \in Above :
       Len(kept) = n + (IF begun = 0 THEN 0 ELSE Len(Headers) + begun)
                     - (IF cur = 0 THEN 0 ELSE 1)
  /\ mode = "quiet" => Len(kept) \in Above /\ cur = 0

\* The inductive invariant of the plain display: the terminal shows what was left behind and
\* the live line, and the display knows where that one is.
PlainInv ==
  /\ mode \in {"live", "lines", "quiet"}
  /\ size \in Sizes /\ \E s \in Sizes : term.w = s[1] /\ term.h = s[2]
  /\ term.w = size[1] => term.h = size[2]
  /\ kept \in Seq(Lines) /\ Displays(term, kept \o <<LastShown>>)
  /\ (term.home <=> LastShown.cells = 0)
  /\ begun \in Nat /\ cur \in Nat /\ (cur # 0 => cur = begun)
  /\ mode = "live" /\ cur = 0 /\ ~closed => term.w = size[1] /\ ~resizePending
  /\ mode = "live" /\ cur # 0 => LiveInv
  /\ Counted

\* The live line has room on every terminal.
LinesFit == \A s \in Sizes : s[2] > 1 /\ \A k \in Nat : PhysicalRows(Live(k).cells, s[1]) <= s[2]

\* A write that leaves last behind what it keeps.
Replaced(last) ==
  /\ term'.w = term.w /\ term'.h = term.h
  /\ kept' \in Seq(Lines) /\ Displays(term', kept' \o <<last>>)
  /\ (term'.home <=> last.cells = 0)
  /\ \A m \in 0..PhysicalRows(last.cells, term.w) : m <= term.h => OnScreen(term', m)

\* resizeRestart and its mark (display.go:302-330): a blank row below what is left behind.
LEMMA RestartedShows ==
  ASSUME PlainInv, term.h > 1, mode = "live", cur # 0, term.w = size[1], Pending,
         NEW line \in Lines, PhysicalRows(line.cells, size[1]) = LiveRows(size[1])
  PROVE  LET t == Restarted(term, line)
         IN  /\ Left(line) \in Seq(Lines)
             /\ Displays(t, (kept \o Left(line)) \o <<BlankLine>>)
             /\ t.w = term.w /\ t.h = term.h /\ t.home
<1>1. Live(cur) \in Lines /\ Mark \in Lines /\ kept \in Seq(Lines)
      /\ size[1] \in Widths /\ Displays(term, kept \o <<Live(cur)>>)
  BY PlainLines, SizeTyped DEF PlainInv, LastShown
<1>2. CASE Marked(line)
  <2>1. Restarted(term, line) = Remarked(NewLine(term), Mark) /\ Left(line) = <<Mark>>
    <3>1. Restarted(term, line) = MarkAbove(NewLine(term))
          /\ Left(line) = <<Mark>>
      BY <1>2 DEF Restarted, Left
    <3> DEFINE t == NewLine(term)
    <3>2. NewLine(term) = t
      OBVIOUS
    <3>3. Up(t, 1).cur = t.cur - 1
      <4>1. /\ term.cur \in Nat /\ term.top \in Nat /\ term.h \in Nat /\ term.top < term.cur
            /\ term \in Terminals
        BY <1>1 DEF Displays, Terminals
      <4>2. t.cur = term.cur + 1 /\ t.top = Larger(term.top, term.cur + 1 - term.h)
        BY <4>1 DEF NewLine, Terminals
      <4>3. Up(t, 1).cur = Larger(t.cur - 1, t.top + 1)
        BY <4>1 DEF Up, NewLine, Terminals
      <4>4. QED
        BY <4>1, <4>2, <4>3 DEF Larger
    <3> HIDE DEF t
    <3>4. MarkAbove(t) = Remarked(t, Mark)
      BY <3>3 DEF MarkAbove, Remarked
    <3>5. QED
      BY <3>1, <3>2, <3>4 DEF t
  <2>2. LiveRows(term.w) = 1
    BY <1>2 DEF Marked, OneRow
  <2>3. PhysicalRows(Mark.cells, term.w) = 1 /\ <<Mark>> \in Seq(Lines)
    BY <1>1, PlainLines
  <2> DEFINE l == Live(cur)
             m == Mark
  <2>4. /\ l \in Lines /\ m \in Lines /\ Displays(term, kept \o <<l>>)
        /\ PhysicalRows(l.cells, term.w) = 1 /\ PhysicalRows(m.cells, term.w) = 1
    BY <1>1, <2>2, <2>3 DEF LiveRows
  <2> HIDE DEF l, m
  <2>5. LET u == Remarked(NewLine(term), m)
        IN  /\ Displays(u, (kept \o <<m>>) \o <<BlankLine>>)
            /\ u.w = term.w /\ u.h = term.h /\ u.home
    BY <1>1, <2>4, MarkShows
  <2>6. QED
    BY <2>1, <2>3, <2>5 DEF m
<1>3. CASE ~Marked(line)
  <2>1. Restarted(term, line) = NewLine(term) /\ Left(line) = <<Live(cur)>>
    BY <1>3 DEF Restarted, Left
  <2> DEFINE l == Live(cur)
  <2>2. l \in Lines /\ Displays(term, kept \o <<l>>)
    BY <1>1
  <2> HIDE DEF l
  <2>3. Displays(NewLine(term), (kept \o <<l>>) \o <<BlankLine>>) /\ <<l>> \in Seq(Lines)
        /\ NewLine(term).w = term.w /\ NewLine(term).h = term.h /\ NewLine(term).home
    BY <2>2, NewLineShows
  <2>4. QED
    BY <2>1, <2>3 DEF l
<1>4. QED
  BY <1>2, <1>3

\* What Replace writes: the line itself, or the line and another one below it.
LEMMA ReplaceShows ==
  ASSUME PlainInv, term.h > 1, mode = "live", cur # 0, term.w = size[1], NEW line \in Lines,
         Pending => PhysicalRows(line.cells, size[1]) = LiveRows(size[1])
  PROVE  /\ line = Live(cur) /\ Replace(line, <<>>, <<>>) => Replaced(line)
         /\ \A x \in Lines : Replace(line, <<x>>, <<line>>) => Replaced(x)
<1> DEFINE l == Live(cur)
           n == PhysicalRows(line.cells, term.w)
<1>1. l \in Lines /\ kept \in Seq(Lines) /\ size[1] \in Widths /\ Displays(term, kept \o <<l>>)
  BY PlainLines, SizeTyped DEF PlainInv, LastShown
<1>2. n \in Nat \ {0} /\ LiveInv /\ lastWidth \in Nat \ {0}
  BY <1>1, PhysicalRowsIs DEF PlainInv, LiveInv, Lines
<1> HIDE DEF n
<1>3. CASE Pending
  <2> DEFINE t == Restarted(term, line)
             L == Left(line)
             A == kept \o L
  <2>1. /\ L \in Seq(Lines) /\ Displays(t, A \o <<BlankLine>>)
        /\ t.w = term.w /\ t.h = term.h /\ t.home
    BY <1>3, RestartedShows
  <2>2. /\ A \in Seq(Lines) /\ BlankLine \in Lines /\ PhysicalRows(BlankLine.cells, t.w) = 1
        /\ OnScreen(t, 1)
    <3>1. PhysicalRows(BlankLine.cells, t.w) = 1
      BY <1>1, <2>1, BlankTyped, BlankCells DEF PhysicalRows, Widths
    <3>2. OnScreen(t, 1)
      BY <2>1 DEF Displays, Terminals, OnScreen
    <3>3. A \in Seq(Lines)
      BY <1>1, <2>1, ConcatProperties
    <3>4. QED
      BY <3>1, <3>2, <3>3, BlankTyped
  <2>3. ASSUME NEW below, NEW fin, Replace(line, below, fin)
        PROVE  PaintLine(t, line, 1, below) /\ kept' = A \o fin
    BY <1>3, <2>3 DEF Replace
  <2> HIDE DEF t, A, l
  <2>4. /\ PaintLine(t, line, 1, <<>>)
             => Painted(t, A, line, IF PhysicalRows(line.cells, t.w) < 1 THEN 0 ELSE line.cells)
        /\ \A x \in Lines : PaintLine(t, line, 1, <<x>>)
             => Painted(t, A \o <<line>>, x, x.cells)
    <3>1. t.w = size[1] /\ Takes(BlankLine, t.w, 1)
      BY <2>1, <2>2 DEF Takes
    <3>2. QED
      BY <2>1, <2>2, <3>1, PlainPaintShows
  <2>5. ASSUME Replace(line, <<>>, <<>>)
        PROVE  Replaced(line)
    <3>1. PaintLine(t, line, 1, <<>>) /\ kept' = A
      BY <2>2, <2>3, <2>5, ConcatEmptySeq
    <3>2. ~(PhysicalRows(line.cells, t.w) < 1)
      BY <1>2, <2>1 DEF n
    <3>3. QED
      BY <2>1, <2>2, <2>4, <3>1, <3>2 DEF Replaced, Painted
  <2>6. ASSUME NEW x \in Lines, Replace(line, <<x>>, <<line>>)
        PROVE  Replaced(x)
    <3>1. PaintLine(t, line, 1, <<x>>) /\ kept' = A \o <<line>>
      BY <2>3, <2>6
    <3>2. kept' \in Seq(Lines)
      BY <2>2, <3>1, LinesBehind
    <3>3. QED
      BY <2>1, <2>4, <3>1, <3>2 DEF Replaced, Painted
  <2>7. QED
    BY <2>5, <2>6
<1>4. CASE ~Pending
  <2>1. lastWidth = size[1] /\ ~resizePending /\ lastPhysRows = PhysicalRows(l.cells, term.w)
        /\ OnScreen(term, lastPhysRows)
    BY <1>2, <1>4 DEF Pending, NewWidth, LiveInv, LiveRows
  <2>2. ASSUME NEW below, NEW fin, Replace(line, below, fin)
        PROVE  PaintLine(term, line, lastPhysRows, below) /\ kept' = kept \o fin
    BY <1>4, <2>2 DEF Replace
  <2> DEFINE b == lastPhysRows
  <2>3. /\ Displays(term, kept \o <<l>>) /\ b = PhysicalRows(l.cells, term.w) /\ OnScreen(term, b)
    BY <1>1, <2>1
  <2> HIDE DEF l, b
  <2>4. /\ PaintLine(term, line, b, <<>>)
             => Painted(term, kept, line, IF PhysicalRows(line.cells, term.w) < b THEN 0 ELSE line.cells)
        /\ \A x \in Lines : PaintLine(term, line, b, <<x>>)
             => Painted(term, kept \o <<line>>, x, x.cells)
    <3>1. Takes(l, term.w, b)
      BY <2>3 DEF Takes
    <3>2. l \in Lines
      BY <1>1 DEF l
    <3>3. QED
      BY <1>1, <2>3, <3>1, <3>2, PlainPaintShows
  <2>5. ASSUME line = Live(cur), Replace(line, <<>>, <<>>)
        PROVE  Replaced(line)
    <3>1. PaintLine(term, line, b, <<>>) /\ kept' = kept
      BY <1>1, <2>2, <2>5, ConcatEmptySeq DEF b
    <3>2. ~(PhysicalRows(line.cells, term.w) < b)
      BY <1>2, <2>3, <2>5 DEF n, l
    <3>3. QED
      BY <1>1, <2>4, <3>1, <3>2 DEF Replaced, Painted
  <2>6. ASSUME NEW x \in Lines, Replace(line, <<x>>, <<line>>)
        PROVE  Replaced(x)
    <3>1. PaintLine(term, line, b, <<x>>) /\ kept' = kept \o <<line>>
      BY <2>2, <2>6 DEF b
    <3>2. kept' \in Seq(Lines)
      BY <1>1, <3>1, LinesBehind
    <3>3. QED
      BY <2>4, <3>1, <3>2 DEF Replaced, Painted
  <2>7. QED
    BY <2>5, <2>6
<1>5. QED
  BY <1>3, <1>4

------------------------------------------------------------------------------
(* The plain display: the calls of the run loop and the terminal *)

\* The world as the run plain has it: no race of the terminal is at work ("change",
\* "flicker", "straddle", "raw"), and every terminal has room
\* for a row above the cursor and for the live line.
PlainCalm ==
  /\ {"change", "flicker", "straddle", "raw"} \cap Races = {}
  /\ Above \subseteq Nat /\ LinesFit

\* A terminal of the calm world has two rows or more.
LEMMA HighEnough ==
  ASSUME PlainInv, PlainCalm
  PROVE  term.h > 1
BY DEF PlainInv, PlainCalm, LinesFit

\* The live line has just been written at the width the display reads.
JustWritten ==
  /\ lastWidth' = size[1] /\ size' = size
  /\ lastPhysRows' = PhysicalRows(Live(cur').cells, size[1])
  /\ resizePending' = FALSE

\* The live line takes at least one row and has room.
LEMMA LiveFits ==
  ASSUME PlainCalm, NEW k \in Nat, NEW w, NEW h, \E s \in Sizes : w = s[1] /\ h = s[2]
  PROVE  /\ PhysicalRows(Live(k).cells, w) \in Nat \ {0}
         /\ PhysicalRows(Live(k).cells, w) <= h
<1>1. PICK s \in Sizes : w = s[1] /\ h = s[2]
  OBVIOUS
<1>2. w \in Widths
  BY <1>1, SizeTyped DEF PlainCalm
<1>3. Live(k).cells \in Nat
  BY PlainLines DEF Lines
<1>4. QED
  BY <1>1, <1>2, <1>3, PhysicalRowsIs DEF PlainCalm, LinesFit

\* A live line just written satisfies the invariant.
LEMMA WrittenLive ==
  ASSUME PlainInv, PlainCalm, mode = "live", mode' = mode, term.w = size[1],
         begun' \in Nat \ {0}, cur' = begun', JustWritten, Replaced(Live(cur'))
  PROVE  PlainInv'
<1>1. /\ size \in Sizes /\ \E s \in Sizes : term.w = s[1] /\ term.h = s[2]
      /\ term.h = size[2] /\ size[1] \in Widths
  BY SizeTyped DEF PlainInv, PlainCalm
<1>2. LastShown' = Live(cur')
  BY DEF LastShown
<1>3. /\ term'.w = term.w /\ term'.h = term.h
      /\ kept' \in Seq(Lines) /\ Displays(term', kept' \o <<LastShown'>>)
      /\ (term'.home <=> LastShown'.cells = 0)
      /\ \A m \in 0..PhysicalRows(Live(cur').cells, term.w) : m <= term.h => OnScreen(term', m)
  BY <1>2 DEF Replaced
<1>4. PhysicalRows(Live(cur').cells, term.w) \in Nat
      /\ PhysicalRows(Live(cur').cells, term.w) <= term.h
  BY <1>1, LiveFits
<1>5. OnScreen(term', LiveRows(term.w)')
  BY <1>3, <1>4 DEF LiveRows
<1>6. LiveInv'
  <2>1. lastWidth' \in Nat \ {0}
    BY <1>1 DEF JustWritten, Widths
  <2>2. OnScreen(term, LiveRows(term.w))'
    BY <1>3, <1>5
  <2>3. lastPhysRows' = LiveRows(lastWidth)'
    BY DEF JustWritten, LiveRows
  <2>4. term'.w = size'[1]
    BY <1>3 DEF JustWritten
  <2>5. ~Pending'
    BY DEF JustWritten, Pending, NewWidth
  <2>6. QED
    BY <2>1, <2>2, <2>3, <2>4, <2>5 DEF LiveInv
<1>7. Counted'
  BY DEF Counted
<1>8. QED
  BY <1>1, <1>3, <1>6, <1>7 DEF PlainInv, JustWritten

\* The first event (display.go:87-121).
LEMMA FirstStatusKeeps ==
  ASSUME PlainInv, PlainCalm, FirstStatus
  PROVE  PlainInv'
<1> DEFINE l == Live(1)
           H == Headers
           N == <<l>>
           new == H \o N
<1>1. /\ mode = "live" /\ ~closed /\ begun = 0 /\ kept' = kept \o H
      /\ term' = Write(term, Text(term, new))
      /\ begun' = 1 /\ cur' = 1 /\ lastPhysRows' = Phys(l) /\ lastWidth' = size[1]
      /\ mode' = mode /\ size' = size /\ resizePending' = resizePending
  BY DEF FirstStatus
<1>2. cur = 0 /\ term.w = size[1] /\ ~resizePending /\ kept \in Seq(Lines)
      /\ Displays(term, kept \o <<BlankLine>>) /\ term.home
  BY <1>1, BlankCells DEF PlainInv, LastShown
<1>3. term' = Write(term, Text(term, new))
  BY <1>1
<1>4. l \in Lines /\ H \in Seq(Lines) /\ size[1] \in Widths
  BY PlainLines, SizeTyped DEF PlainInv, PlainCalm
<1>5. N \in Seq(Lines) /\ N # <<>> /\ Len(RowsOfAll(N, term.w)) = PhysicalRows(l.cells, term.w)
      /\ Len(N) = 1 /\ N[1] = l
  BY <1>2, <1>4, OneLine
<1> HIDE DEF l, H, N
<1>6. /\ new \in Seq(Lines) /\ new # <<>> /\ new[Len(new)] = N[Len(N)]
      /\ RowsOfAll(new, term.w) = RowsOfAll(H, term.w) \o RowsOfAll(N, term.w)
      /\ RowsOfAll(H, term.w) \in Seq(Rows) /\ RowsOfAll(N, term.w) \in Seq(Rows)
  <2>1. new \in Seq(Lines) /\ new # <<>> /\ new[Len(new)] = N[Len(N)]
    BY <1>4, <1>5, LinesBehind
  <2>2. H \in Seq(Lines) /\ N \in Seq(Lines) /\ term.w \in Widths
    BY <1>2, <1>4, <1>5
  <2>3. QED
    BY <2>1, <2>2, RowsOfAllConcat
<1>7. kept \o new = (kept \o H) \o N
  BY <1>2, <1>4, <1>5, LinesAssociative
<1>8. kept \o H \in Seq(Lines)
  BY <1>2, <1>4, ConcatProperties
<1> HIDE DEF new
<1>9. LET c == Write(term, Text(term, new))
          n == Len(RowsOfAll(new, term.w))
      IN  /\ Displays(c, kept \o new) /\ c.w = term.w /\ c.h = term.h
          /\ \A m \in 0..n : m <= term.h => OnScreen(c, m)
          /\ c.home <=> new[Len(new)].cells = 0
  BY <1>2, <1>6, WriteShows
<1>10. 0..PhysicalRows(l.cells, term.w) \subseteq 0..Len(RowsOfAll(new, term.w))
  <2> DEFINE X == RowsOfAll(H, term.w)
             Y == RowsOfAll(N, term.w)
  <2>1. Len(X \o Y) = Len(X) + Len(Y) /\ Len(X) \in Nat /\ Len(Y) \in Nat
    BY <1>6, ConcatProperties
  <2>2. RowsOfAll(new, term.w) = X \o Y /\ Len(Y) = PhysicalRows(l.cells, term.w)
    BY <1>5, <1>6
  <2> HIDE DEF X, Y
  <2>3. QED
    BY <2>1, <2>2
<1>11. Replaced(l)
  <2>1. Displays(term', kept' \o N) /\ term'.w = term.w /\ term'.h = term.h
    BY <1>1, <1>3, <1>7, <1>9
  <2>2. \A m \in 0..PhysicalRows(l.cells, term.w) : m <= term.h => OnScreen(term', m)
    BY <1>3, <1>9, <1>10
  <2>3. (term'.home <=> l.cells = 0)
    BY <1>3, <1>5, <1>6, <1>9
  <2>4. QED
    BY <1>1, <1>8, <2>1, <2>2, <2>3 DEF Replaced, N
<1>12. JustWritten
  BY <1>1, <1>2 DEF JustWritten, Phys, l
<1>13. Replaced(Live(cur'))
  BY <1>1, <1>11 DEF l
<1>14. QED
  BY <1>1, <1>2, <1>12, <1>13, WrittenLive

\* At rest, the width the display reads is that of the terminal.
LEMMA AtRest ==
  ASSUME size = <<term.w, term.h>>
  PROVE  term.w = size[1]
<1>1. <<term.w, term.h>>[1] = term.w
  OBVIOUS
<1>2. QED
  BY <1>1

\* A change of status (display.go:99-154).
LEMMA StatusChangeKeeps ==
  ASSUME PlainInv, PlainCalm, PlainStatusChange
  PROVE  PlainInv'
<1>1. /\ mode = "live" /\ ~closed /\ cur # 0
      /\ size = <<term.w, term.h>>
      /\ Replace(Final(cur), <<Live(begun + 1)>>, <<Final(cur)>>)
      /\ begun' = begun + 1 /\ cur' = begun + 1
      /\ lastPhysRows' = Phys(Live(begun + 1)) /\ lastWidth' = size[1]
      /\ resizePending' = FALSE /\ mode' = mode /\ size' = size
  BY DEF PlainStatusChange, PlainCalm
<1>2. begun \in Nat /\ cur \in Nat /\ term.w = size[1] /\ LiveInv
  BY <1>1, AtRest DEF PlainInv, PlainCalm
<1> DEFINE f == Final(cur)
           l == Live(begun + 1)
<1>3. f \in Lines /\ l \in Lines
  BY <1>2, PlainLines
<1>4. Pending => PhysicalRows(f.cells, size[1]) = LiveRows(size[1])
  BY <1>2 DEF LiveInv
<1>5. Replace(f, <<l>>, <<f>>)
  BY <1>1
<1> HIDE DEF f, l
<1>6. Replaced(l)
  BY <1>1, <1>2, <1>3, <1>4, <1>5, HighEnough, ReplaceShows
<1>7. JustWritten /\ Replaced(Live(cur'))
  BY <1>1, <1>6 DEF JustWritten, Phys, l
<1>8. begun' \in Nat \ {0} /\ cur' = begun'
  BY <1>1, <1>2
<1>9. QED
  BY <1>1, <1>2, <1>7, <1>8, WrittenLive

\* The end (display.go:156-167).
LEMMA FinalizeKeeps ==
  ASSUME PlainInv, PlainCalm, PlainFinalize
  PROVE  PlainInv'
<1>1. /\ mode = "live" /\ ~closed /\ cur # 0
      /\ size = <<term.w, term.h>>
      /\ Replace(Final(cur), <<BlankLine>>, <<Final(cur)>>)
      /\ closed' = TRUE /\ cur' = 0 /\ begun' = begun
      /\ mode' = mode /\ size' = size
  BY DEF PlainFinalize, PlainCalm
<1>2. begun \in Nat /\ cur \in Nat /\ term.w = size[1] /\ LiveInv /\ size \in Sizes
      /\ (\E s \in Sizes : term.w = s[1] /\ term.h = s[2]) /\ term.h = size[2]
  BY <1>1, AtRest DEF PlainInv, PlainCalm
<1> DEFINE f == Final(cur)
<1>3. f \in Lines /\ BlankLine \in Lines
  BY <1>2, PlainLines, BlankTyped
<1>4. Pending => PhysicalRows(f.cells, size[1]) = LiveRows(size[1])
  BY <1>2 DEF LiveInv
<1>5. Replace(f, <<BlankLine>>, <<f>>)
  BY <1>1
<1> HIDE DEF f
<1>6. Replaced(BlankLine)
  BY <1>1, <1>2, <1>3, <1>4, <1>5, HighEnough, ReplaceShows
<1>7. LastShown' = BlankLine
  BY <1>1 DEF LastShown
<1>8. /\ term'.w = term.w /\ term'.h = term.h
      /\ kept' \in Seq(Lines) /\ Displays(term', kept' \o <<LastShown'>>)
      /\ (term'.home <=> LastShown'.cells = 0)
  BY <1>6, <1>7 DEF Replaced
<1>9. Counted'
  BY <1>1 DEF Counted
<1>10. QED
  BY <1>1, <1>2, <1>8, <1>9 DEF PlainInv

\* A tick or a probe that changes nothing (display.go:111-140): held back, or written.
LEMMA RepaintKeeps ==
  ASSUME PlainInv, PlainCalm, PlainRepaint
  PROVE  PlainInv'
<1>1. /\ mode = "live" /\ cur # 0 /\ lastWidth' = size[1]
      /\ UNCHANGED <<mode, size, cur, begun, closed>>
  BY DEF PlainRepaint
<1>2. begun \in Nat /\ cur \in Nat /\ cur = begun /\ LiveInv /\ size[1] \in Nat \ {0}
      /\ lastWidth # 0
  BY <1>1, SizeTyped DEF PlainInv, PlainCalm, Widths, LiveInv
<1>3. CASE /\ Holds
           /\ resizePending' = TRUE /\ settled' = PlainSettled
           /\ UNCHANGED <<term, lastPhysRows, kept>>
  <2>1. Pending /\ ~settled'
    BY <1>3 DEF Holds
  <2>2. LiveRows(size[1]) = PhysicalRows(Final(cur).cells, size[1])
    BY <1>2, <2>1 DEF LiveInv
  <2>3. LiveInv'
    <3>1. (OnScreen(term, LiveRows(term.w)))' = OnScreen(term, LiveRows(term.w))
      BY <1>1, <1>3 DEF LiveRows
    <3>2. LiveRows(size[1])' = PhysicalRows(Final(cur).cells, size[1])'
      BY <1>1, <2>2 DEF LiveRows
    <3>3. QED
      BY <1>1, <1>2, <1>3, <2>1, <3>1, <3>2 DEF LiveInv
  <2>4. UNCHANGED <<LastShown, Counted>>
    BY <1>1, <1>3 DEF LastShown, Counted
  <2>5. QED
    BY <1>1, <1>3, <2>3, <2>4 DEF PlainInv
<1>4. CASE /\ ~Holds
           /\ Replace(Live(cur), <<>>, <<>>)
           /\ lastPhysRows' = Phys(Live(cur))
           /\ resizePending' = FALSE
  <2>1. term.w = size[1]
    BY <1>2, <1>4 DEF LiveInv, Holds, PlainSettled, Pending, NewWidth
  <2> DEFINE l == Live(cur)
  <2>2. l \in Lines /\ PhysicalRows(l.cells, size[1]) = LiveRows(size[1])
        /\ l = Live(cur) /\ Replace(l, <<>>, <<>>)
    BY <1>2, <1>4, PlainLines DEF LiveRows
  <2> HIDE DEF l
  <2>3. Replaced(l)
    BY <1>1, <1>2, <2>1, <2>2, HighEnough, ReplaceShows
  <2>4. JustWritten /\ Replaced(Live(cur'))
    BY <1>1, <1>4, <2>2, <2>3 DEF JustWritten, Phys
  <2>5. begun' \in Nat \ {0} /\ cur' = begun' /\ mode' = mode
    BY <1>1, <1>2
  <2>6. QED
    BY <1>1, <2>1, <2>4, <2>5, WrittenLive
<1>5. QED
  BY <1>3, <1>4 DEF PlainRepaint

\* Lines printed below the others, and the line feed.
LEMMA PutShows ==
  ASSUME PlainInv, PlainCalm, mode = "lines", NEW lines \in Seq(Lines), Put(lines)
  PROVE  /\ term'.w = term.w /\ term'.h = term.h /\ term'.home
         /\ kept' \in Seq(Lines) /\ Len(kept') = Len(kept) + Len(lines)
         /\ Displays(term', kept' \o <<BlankLine>>)
<1>1. /\ kept \in Seq(Lines) /\ Displays(term, kept \o <<BlankLine>>) /\ term.home
      /\ kept' = kept \o lines
      /\ term' = IF lines = <<>> THEN term
                 ELSE Write(term, Text(term, lines \o <<LineFeed(Last(lines))>>))
  BY BlankCells DEF PlainInv, LastShown, Put
<1>2. kept' \in Seq(Lines) /\ Len(kept') = Len(kept) + Len(lines)
  BY <1>1, ConcatProperties
<1>3. CASE lines = <<>>
  <2>1. kept' = kept
    BY <1>1, <1>3, ConcatEmptySeq
  <2>2. QED
    BY <1>1, <1>2, <1>3, <2>1
<1>4. CASE lines # <<>>
  <2> DEFINE B == <<BlankLine>>
             new == lines \o B
  <2>1. LineFeed(Last(lines)) = BlankLine
    BY DEF LineFeed, PlainCalm
  <2>2. term' = Write(term, Text(term, new))
    BY <1>1, <1>4, <2>1
  <2>3. B \in Seq(Lines) /\ B # <<>> /\ B[Len(B)] = BlankLine
    BY BlankTyped
  <2>4. Displays(term, kept \o <<BlankLine>>)
    BY <1>1
  <2> HIDE DEF B
  <2>5. new \in Seq(Lines) /\ new # <<>> /\ new[Len(new)] = BlankLine
    BY <2>3, LinesBehind
  <2>6. kept \o new = (kept \o lines) \o B
    BY <1>1, <2>3, LinesAssociative
  <2> HIDE DEF new
  <2>7. LET c == Write(term, Text(term, new))
            n == Len(RowsOfAll(new, term.w))
        IN  /\ Displays(c, kept \o new) /\ c.w = term.w /\ c.h = term.h
            /\ \A m \in 0..n : m <= term.h => OnScreen(c, m)
            /\ c.home <=> new[Len(new)].cells = 0
    BY <1>1, <2>4, <2>5, WriteShows
  <2>8. QED
    BY <1>1, <1>2, <2>2, <2>5, <2>6, <2>7, BlankCells DEF B
<1>5. QED
  BY <1>3, <1>4

\* A call without live mode that prints lines.
LEMMA LinesKeep ==
  ASSUME PlainInv, PlainCalm, mode = "lines", mode' = mode, NEW lines \in Seq(Lines), Put(lines),
         size' = size, begun' \in Nat, cur' \in Nat, cur' # 0 => cur' = begun', Counted'
  PROVE  PlainInv'
<1>1. LastShown' = BlankLine
  BY DEF LastShown
<1>2. /\ term'.w = term.w /\ term'.h = term.h /\ term'.home
      /\ kept' \in Seq(Lines) /\ Displays(term', kept' \o <<LastShown'>>)
  BY <1>1, PutShows
<1>3. (term'.home <=> LastShown'.cells = 0)
  BY <1>1, <1>2, BlankCells
<1>4. QED
  BY <1>2, <1>3 DEF PlainInv

\* The calls without live mode (display.go:341-345).
LEMMA LinesActions ==
  ASSUME PlainInv, PlainCalm, LinesFirst \/ LinesChange \/ LinesFinalize
  PROVE  PlainInv'
<1>1. /\ mode = "lines" /\ mode' = mode /\ size' = size
  BY DEF LinesFirst, LinesChange, LinesFinalize
<1>2. /\ begun \in Nat /\ cur \in Nat /\ (cur # 0 => cur = begun) /\ kept \in Seq(Lines)
      /\ Headers \in Seq(Lines) /\ Final(cur) \in Lines
  BY PlainLines DEF PlainInv
<1>3. PICK n \in Above :
        Len(kept) = n + (IF begun = 0 THEN 0 ELSE Len(Headers) + begun)
                      - (IF cur = 0 THEN 0 ELSE 1)
  BY <1>1 DEF PlainInv, Counted
<1>4. n \in Nat /\ Len(Headers) \in Nat
  BY <1>2 DEF PlainCalm
<1> DEFINE H == Len(Headers)
           F == <<Final(cur)>>
<1>5. F \in Seq(Lines) /\ Len(F) = 1
  BY <1>2
<1>6. CASE LinesFirst
  <2>1. begun = 0 /\ begun' = 1 /\ cur' = 1 /\ Put(Headers)
    BY <1>6 DEF LinesFirst
  <2>2. Len(kept') = Len(kept) + H
    BY <1>1, <1>2, <2>1, PutShows
  <2>3. Len(kept') = n + (IF begun' = 0 THEN 0 ELSE H + begun') - (IF cur' = 0 THEN 0 ELSE 1)
    BY <1>2, <1>3, <1>4, <2>1, <2>2
  <2>4. Counted'
    BY <1>1, <2>3 DEF Counted, Headers
  <2>5. QED
    BY <1>1, <1>2, <2>1, <2>4, LinesKeep
<1> HIDE DEF F
<1>7. CASE LinesChange
  <2>1. cur # 0 /\ begun' = begun + 1 /\ cur' = begun + 1 /\ Put(F)
    BY <1>7 DEF LinesChange, F
  <2>2. Len(kept') = Len(kept) + 1
    BY <1>1, <1>5, <2>1, PutShows
  <2>3. Len(kept') = n + (IF begun' = 0 THEN 0 ELSE H + begun') - (IF cur' = 0 THEN 0 ELSE 1)
    BY <1>2, <1>3, <1>4, <2>1, <2>2
  <2>4. Counted'
    BY <1>1, <2>3 DEF Counted, Headers
  <2>5. QED
    BY <1>1, <1>2, <1>5, <2>1, <2>4, LinesKeep
<1>8. CASE LinesFinalize
  <2>1. cur # 0 /\ begun' = begun /\ cur' = 0 /\ Put(F)
    BY <1>8 DEF LinesFinalize, F
  <2>2. Len(kept') = Len(kept) + 1
    BY <1>1, <1>5, <2>1, PutShows
  <2>3. Len(kept') = n + (IF begun' = 0 THEN 0 ELSE H + begun') - (IF cur' = 0 THEN 0 ELSE 1)
    BY <1>2, <1>3, <1>4, <2>1, <2>2
  <2>4. Counted'
    BY <1>1, <2>3 DEF Counted, Headers
  <2>5. QED
    BY <1>1, <1>2, <1>5, <2>1, <2>4, LinesKeep
<1>9. QED
  BY <1>6, <1>7, <1>8

\* The terminal wraps its rows anew.
LEMMA PlainRewrapShows ==
  ASSUME PlainInv, PlainCalm, NEW s \in Sizes, Rewrap(s)
  PROVE  /\ Displays(term', kept \o <<LastShown>>) /\ term'.w = s[1] /\ term'.h = s[2]
         /\ term'.home = term.home
         /\ mode = "live" /\ cur # 0 => OnScreen(term', LiveRows(s[1]))
<1> DEFINE l == LastShown
           N == <<l>>
           L == kept \o N
<1>1. /\ s[1] \in Widths /\ s[2] \in Nat \ {0}
      /\ kept \in Seq(Lines) /\ Displays(term, L) /\ (term.home <=> l.cells = 0)
  BY SizeTyped DEF PlainInv, PlainCalm
<1>2. l \in Lines
  BY PlainLines, BlankTyped DEF LastShown, PlainInv
<1> HIDE DEF l
<1>3. N \in Seq(Lines) /\ N # <<>> /\ N[Len(N)] = l
      /\ Len(RowsOfAll(N, s[1])) = PhysicalRows(l.cells, s[1])
  BY <1>1, <1>2, OneLine
<1> HIDE DEF N
<1>4. L \in Seq(Lines) /\ L # <<>> /\ L[Len(L)] = l
      /\ RowsOfAll(L, s[1]) = RowsOfAll(kept, s[1]) \o RowsOfAll(N, s[1])
      /\ RowsOfAll(kept, s[1]) \in Seq(Rows) /\ RowsOfAll(N, s[1]) \in Seq(Rows)
  <2>1. L \in Seq(Lines) /\ L # <<>> /\ L[Len(L)] = l
    BY <1>1, <1>3, LinesBehind
  <2>2. QED
    BY <1>1, <1>3, <2>1, RowsOfAllConcat
<1>5. PhysicalRows(l.cells, s[1]) \in 0..Len(RowsOfAll(L, s[1]))
  <2> DEFINE X == RowsOfAll(kept, s[1])
             Y == RowsOfAll(N, s[1])
  <2>1. Len(X \o Y) = Len(X) + Len(Y) /\ Len(X) \in Nat /\ Len(Y) \in Nat
    BY <1>4, ConcatProperties
  <2>2. RowsOfAll(L, s[1]) = X \o Y /\ Len(Y) = PhysicalRows(l.cells, s[1])
    BY <1>3, <1>4
  <2> HIDE DEF X, Y
  <2>3. QED
    BY <2>1, <2>2
<1> HIDE DEF L
<1>6. Logical(term) = L /\ CursorLine(term) = Len(L)
  BY <1>1, DisplaysLogical
<1>7. term' = Rewrapped(term, L, Len(L), Starts(term.buf)[Len(L)], s[1], s[2])
  <2>1. PICK starts \in {Starts(term.buf)}, n \in {CursorLine(term)} :
          \E lines \in {LinesAt(term, starts)} :
            term' = Rewrapped(term, lines, n, starts[n], s[1], s[2])
    BY DEF Rewrap
  <2>2. starts = Starts(term.buf) /\ n = Len(L)
    BY <1>6, <2>1
  <2>3. LinesAt(term, starts) = L
    BY <1>6, <2>2 DEF Logical
  <2>4. QED
    BY <2>1, <2>2, <2>3
<1>8. ~term.home \/ L[Len(L)].cells = 0
  BY <1>1, <1>4
<1>9. LET u == Rewrapped(term, L, Len(L), Starts(term.buf)[Len(L)], s[1], s[2])
      IN  /\ Displays(u, L) /\ u.w = s[1] /\ u.h = s[2] /\ u.home = term.home
          /\ \A m \in 0..Len(RowsOfAll(L, s[1])) : m <= s[2] => OnScreen(u, m)
  BY <1>1, <1>8, RewrappedShows
<1>10. ASSUME mode = "live", cur # 0
       PROVE  OnScreen(term', LiveRows(s[1]))
  <2>1. l = Live(cur) /\ cur \in Nat
    BY <1>10 DEF l, LastShown, PlainInv
  <2>2. PhysicalRows(l.cells, s[1]) <= s[2]
    BY <2>1 DEF PlainCalm, LinesFit
  <2>3. QED
    BY <1>5, <1>7, <1>9, <2>1, <2>2 DEF LiveRows
<1>11. QED
  BY <1>7, <1>9, <1>10 DEF L, N, l

\* A resize, which takes effect at once when only the height changes,
LEMMA ResizeKeeps ==
  ASSUME PlainInv, PlainCalm, PlainResize
  PROVE  PlainInv'
<1>1. PICK s \in Sizes :
        /\ s[1] = size[1] \/ s[1] # lastWidth
        /\ cur = 0 \/ PhysicalRows(Live(cur).cells, s[1])
                        = PhysicalRows(Final(cur).cells, s[1])
        /\ size' = s
        /\ \/ s[1] = term.w /\ Rewrap(s)
           \/ s[1] # term.w /\ UNCHANGED term
  BY DEF PlainResize, PlainCalm, TakesSize
<1>2. UNCHANGED <<mode, cur, lastPhysRows, lastWidth, resizePending, settled, begun, closed, kept>>
      /\ (cur # 0 \/ mode = "quiet")
  BY DEF PlainResize
<1>3. UNCHANGED <<LastShown, Counted>>
  BY <1>2 DEF LastShown, Counted
<1>4. cur # 0 => LiveRows(s[1]) = PhysicalRows(Final(cur).cells, s[1])
  BY <1>1 DEF LiveRows
<1>5. \A w : LiveRows(w)' = LiveRows(w)
  BY <1>2 DEF LiveRows
<1>6. CASE s[1] = term.w /\ Rewrap(s)
  <2>1. /\ Displays(term', kept \o <<LastShown>>) /\ term'.w = s[1] /\ term'.h = s[2]
        /\ term'.home = term.home
        /\ mode = "live" /\ cur # 0 => OnScreen(term', LiveRows(s[1]))
    BY <1>6, PlainRewrapShows
  <2>2. mode = "live" /\ cur # 0 => LiveInv'
    <3>1. SUFFICES ASSUME mode = "live", cur # 0 PROVE LiveInv'
      OBVIOUS
    <3>2. LiveInv
      BY <3>1 DEF PlainInv
    <3>3. (OnScreen(term, LiveRows(term.w)))' = OnScreen(term', LiveRows(s[1]))
      BY <2>1, <1>2 DEF LiveRows
    <3>4. (LiveRows(lastWidth))' = LiveRows(lastWidth)
      BY <1>2 DEF LiveRows
    <3>5. (LiveRows(size[1]) = PhysicalRows(Final(cur).cells, size[1]))'
      BY <1>1, <1>2, <1>4, <3>1 DEF LiveRows
    <3>6. QED
      BY <1>1, <1>2, <2>1, <3>1, <3>2, <3>3, <3>4, <3>5 DEF LiveInv
  <2>3. QED
    BY <1>1, <1>2, <1>3, <2>1, <2>2 DEF PlainInv
<1>7. CASE s[1] # term.w /\ UNCHANGED term
  <2>1. mode = "live" /\ cur # 0 => LiveInv'
    <3>1. SUFFICES ASSUME mode = "live", cur # 0 PROVE LiveInv'
      OBVIOUS
    <3>2. LiveInv
      BY <3>1 DEF PlainInv
    <3>3. (OnScreen(term, LiveRows(term.w)))' = OnScreen(term, LiveRows(term.w))
      BY <1>2, <1>7 DEF LiveRows
    <3>4. (LiveRows(lastWidth))' = LiveRows(lastWidth)
      BY <1>2 DEF LiveRows
    <3>5. (LiveRows(size[1]) = PhysicalRows(Final(cur).cells, size[1]))'
      BY <1>1, <1>2, <1>4, <3>1 DEF LiveRows
    <3>6. (term.w # size[1] => size[1] # lastWidth \/ (resizePending /\ ~settled))'
      <4>1. CASE s[1] = size[1]
        BY <1>1, <1>2, <1>7, <3>2, <4>1 DEF LiveInv
      <4>2. CASE s[1] # lastWidth
        BY <1>1, <1>2, <4>2
      <4>3. QED
        BY <1>1, <4>1, <4>2
    <3>7. QED
      BY <1>2, <3>2, <3>3, <3>4, <3>5, <3>6 DEF LiveInv
  <2>2. QED
    BY <1>1, <1>2, <1>3, <1>7, <2>1 DEF PlainInv
<1>8. QED
  BY <1>1, <1>6, <1>7

\* or once the terminal has reflowed.
LEMMA ReflowedKeeps ==
  ASSUME PlainInv, PlainCalm, PlainReflowed
  PROVE  PlainInv'
<1>1. /\ Rewrap(size) /\ size \in Sizes
      /\ UNCHANGED <<mode, size, cur, lastPhysRows, lastWidth, resizePending, settled, begun, closed, kept>>
  BY DEF PlainReflowed, PlainInv
<1>2. /\ Displays(term', kept \o <<LastShown>>) /\ term'.w = size[1] /\ term'.h = size[2]
      /\ term'.home = term.home
      /\ mode = "live" /\ cur # 0 => OnScreen(term', LiveRows(size[1]))
  BY <1>1, PlainRewrapShows
<1>3. UNCHANGED <<LastShown, Counted>>
  BY <1>1 DEF LastShown, Counted
<1>4. mode = "live" /\ cur # 0 => LiveInv'
  <2>1. SUFFICES ASSUME mode = "live", cur # 0 PROVE LiveInv'
    OBVIOUS
  <2>2. LiveInv
    BY <2>1 DEF PlainInv
  <2>3. (OnScreen(term, LiveRows(term.w)))' = OnScreen(term', LiveRows(size[1]))
    BY <1>1, <1>2 DEF LiveRows
  <2>4. (LiveRows(lastWidth))' = LiveRows(lastWidth)
    BY <1>1 DEF LiveRows
  <2>5. (Pending => LiveRows(size[1]) = PhysicalRows(Final(cur).cells, size[1]))'
        <=> (Pending => LiveRows(size[1]) = PhysicalRows(Final(cur).cells, size[1]))
    BY <1>1 DEF LiveRows, Pending, NewWidth
  <2>6. QED
    BY <1>1, <1>2, <2>1, <2>2, <2>3, <2>4, <2>5 DEF LiveInv
<1>5. QED
  BY <1>1, <1>2, <1>3, <1>4 DEF PlainInv

\* Time, a quiet display, and the end.
LEMMA OthersKeep ==
  ASSUME PlainInv, PlainCalm, PlainSettleTime \/ Quiet \/ PlainDone \/ UNCHANGED plainVars
  PROVE  PlainInv'
<1>1. UNCHANGED <<mode, size, term, cur, lastPhysRows, lastWidth, resizePending, kept>>
  BY DEF PlainSettleTime, Quiet, PlainDone, plainVars
<1>2. CASE PlainSettleTime
  <2>1. UNCHANGED <<begun, closed>> /\ (term.w = size[1] \/ size[1] # lastWidth)
    BY <1>2 DEF PlainSettleTime
  <2>2. UNCHANGED <<LastShown, Counted>>
    BY <1>1, <2>1 DEF LastShown, Counted
  <2>3. LiveInv => LiveInv'
    BY <1>1, <2>1 DEF LiveInv, LiveRows, Pending, NewWidth
  <2>4. QED
    BY <1>1, <2>1, <2>2, <2>3 DEF PlainInv
<1>3. CASE Quiet
  <2>1. mode = "quiet" /\ begun' \in Nat /\ cur = 0
    BY <1>3 DEF Quiet, PlainInv, Counted
  <2>2. UNCHANGED LastShown /\ Counted'
    BY <1>1, <2>1 DEF LastShown, Counted, PlainInv
  <2>3. QED
    BY <1>1, <2>1, <2>2 DEF PlainInv
<1>4. CASE PlainDone \/ UNCHANGED plainVars
  <2>1. UNCHANGED <<begun, closed, settled>>
    BY <1>4 DEF PlainDone, plainVars
  <2>2. UNCHANGED <<LastShown, Counted>>
    BY <1>1, <2>1 DEF LastShown, Counted
  <2>3. LiveInv => LiveInv'
    BY <1>1, <2>1 DEF LiveInv, LiveRows, Pending, NewWidth
  <2>4. QED
    BY <1>1, <2>1, <2>2, <2>3 DEF PlainInv
<1>5. QED
  BY <1>2, <1>3, <1>4

\* Every step keeps the invariant.
LEMMA PlainInductive ==
  ASSUME PlainInv, PlainCalm, [PlainNext]_(plainVars)
  PROVE  PlainInv'
BY FirstStatusKeeps, StatusChangeKeeps, RepaintKeeps, FinalizeKeeps, LinesActions, ResizeKeeps,
   ReflowedKeeps, OthersKeep DEF PlainNext

------------------------------------------------------------------------------
(* The plain display: what is on the screen *)

\* At the start there is this and a blank row.
LEMMA PlainStarts ==
  ASSUME PlainCalm, PlainInit
  PROVE  PlainInv
<1>1. /\ mode \in {"live", "lines", "quiet"} /\ size \in Sizes
      /\ closed = FALSE /\ resizePending = FALSE /\ cur = 0 /\ begun = 0
  BY DEF PlainInit
<1>2. size[1] \in Widths /\ size[2] \in Nat \ {0}
  BY <1>1, SizeTyped DEF PlainCalm
<1>3. PICK n \in Above : kept = UserLines(n) /\ term = StartTerm(size, n)
  BY DEF PlainInit
<1>4. n \in Nat /\ kept \in Seq(Lines) /\ Len(kept) = n
  BY <1>3, UserLinesTyped DEF PlainCalm
<1> DEFINE X == RowsOfAll(kept, size[1])
           L == kept \o <<BlankLine>>
           rows == X \o <<BlankRow>>
<1>5. /\ RowsOfAll(L, size[1]) = rows /\ X \in Seq(Rows)
      /\ L \in Seq(Lines) /\ L # <<>> /\ BlankRow \in Rows /\ BlankLine.cells = 0
  <2> DEFINE B == <<BlankLine>>
  <2>1. B \in Seq(Lines) /\ B # <<>> /\ RowsOfAll(B, size[1]) = <<BlankRow>> /\ BlankRow \in Rows
        /\ BlankLine.cells = 0
    BY <1>2, BlankIs, BlankCells
  <2> HIDE DEF B
  <2>2. RowsOfAll(kept \o B, size[1]) = RowsOfAll(kept, size[1]) \o RowsOfAll(B, size[1])
        /\ RowsOfAll(kept, size[1]) \in Seq(Rows)
    BY <1>2, <1>4, <2>1, RowsOfAllConcat
  <2>3. kept \o B \in Seq(Lines) /\ kept \o B # <<>>
    BY <1>4, <2>1, LinesBehind
  <2>4. QED
    BY <2>1, <2>2, <2>3 DEF B
<1>6. rows \in Seq(Rows) /\ Len(rows) = Len(X) + 1 /\ Len(X) \in Nat
  BY <1>5, ConcatProperties
<1>7. term = [w |-> size[1], h |-> size[2], buf |-> rows, cur |-> Len(rows),
              top |-> IF Len(rows) > size[2] THEN Len(rows) - size[2] ELSE 0, home |-> TRUE]
  BY <1>3 DEF StartTerm
<1> HIDE DEF X, rows, L
<1>9. term \in Terminals /\ term.w = size[1] /\ term.h = size[2] /\ term.home
      /\ term.buf = rows /\ term.cur = Len(rows)
      /\ term.top < term.cur /\ term.cur <= term.top + term.h
  BY <1>2, <1>6, <1>7 DEF Terminals
<1>10. Displays(term, L)
  BY <1>5, <1>9 DEF Displays
<1>11. LastShown = BlankLine
  BY <1>1 DEF LastShown
<1>12. Counted
  BY <1>1, <1>3, <1>4 DEF Counted
<1>13. QED
  BY <1>1, <1>4, <1>5, <1>9, <1>10, <1>11, <1>12 DEF PlainInv, L

\* The invariant says what ScreenExact says.
LEMMA PlainShows ==
  ASSUME PlainInv
  PROVE  ScreenExact
<1> DEFINE B == <<LastShown>>
           L == kept \o B
<1>1. kept \in Seq(Lines) /\ Displays(term, L)
  BY DEF PlainInv
<1>2. Len(L) = Len(kept) + 1
  <2>1. Live(cur) \in Lines /\ BlankLine \in Lines
    BY PlainLines, BlankTyped DEF PlainInv
  <2>2. LastShown \in Lines
    BY <2>1 DEF LastShown
  <2>3. B \in Seq(Lines) /\ B # <<>> /\ Len(B) = 1
    BY <2>2
  <2> HIDE DEF B
  <2>4. QED
    BY <1>1, <2>3, LinesBehind
<1> HIDE DEF L
<1>3. Logical(term) = L /\ CursorLine(term) = Len(kept) + 1
  BY <1>1, <1>2, DisplaysLogical
<1>4. term.cur \in (term.top + 1)..(term.top + term.h)
  BY <1>1 DEF Displays, Terminals
<1>5. L = kept \o <<IF mode = "live" /\ cur # 0 THEN Live(cur) ELSE BlankLine>>
  BY DEF L, LastShown
<1>6. mode = "lines" =>
        Len(kept) \in {n + (IF begun = 0 THEN 0 ELSE Len(Headers) + begun)
                         - (IF cur = 0 THEN 0 ELSE 1) : n \in Above}
  BY DEF PlainInv, Counted
<1>7. mode = "quiet" => Len(kept) \in Above
  BY DEF PlainInv, Counted
<1>8. QED
  BY <1>3, <1>4, <1>5, <1>6, <1>7 DEF ScreenExact

\* display.go:30-31: the display "walks back to the true start before rewriting, and clears
\* rows the line no longer uses".  In every mode, for every set of sizes and any number of
\* statuses, redraws and resizes, the screen holds exactly what the display has left behind
\* and the live line, in order, and the cursor is behind them.
THEOREM ScreenExactCorrect ==
  ASSUME PlainCalm
  PROVE  PlainSpec => []ScreenExact
<1>1. PlainInit => PlainInv
  BY PlainStarts
<1>2. PlainInv /\ [PlainNext]_(plainVars) => PlainInv'
  BY PlainInductive
<1>3. PlainInv => ScreenExact
  BY PlainShows
<1>4. QED
  BY <1>1, <1>2, <1>3, PTL DEF PlainSpec
==============================================================================
