---------------------------- MODULE LogFileProofs ----------------------------
(***************************************************************************)
(* Proofs about the file of the status log, for any set of processes and any *)
(* number of entries, starts, faults and crashes: what Log has acknowledged   *)
(* stays.                                                                    *)
(***************************************************************************)
EXTENDS LogFile, FiniteSetTheorems, SequenceTheorems, TLAPS

------------------------------------------------------------------------------
(* The invariant *)

Entry(p, n) == <<p, n>>

PieceType == [entry : {<<>>} \cup (Procs \X Nat), end : BOOLEAN, safe : BOOLEAN]

\* Places, of any file.
PlacesIn(f, e) == {i \in 1..Len(f) : f[i].entry = e}

\* Two pieces of an entry are in the file.
Complete(f, e) == \E i, j \in 1..Len(f) : i < j /\ PlacesIn(f, e) = {i, j}

\* Every piece in the file is a hole or of an entry that was begun.
FileOK ==
  /\ file \in Seq(PieceType)
  /\ logged \in [Procs -> Nat]
  /\ \A i \in 1..Len(file) :
       file[i].entry = <<>> \/ \E p \in Procs : \E n \in 0..logged[p] : file[i].entry = Entry(p, n)

\* What a process has written of the entry it is at: as much as it does not still have
\* to write.
Progress(f, at, todo, e) ==
  /\ at = "writing" =>
       \/ todo = Line(e) /\ PlacesIn(f, e) = {}
       \/ todo = Tail(Line(e)) /\ \E i \in 1..Len(f) : PlacesIn(f, e) = {i}
  /\ at = "syncing" => Complete(f, e)

WritingOK ==
  /\ pc \in [Procs -> {"off", "open", "writing", "syncing"}]
  /\ rest \in [Procs -> Seq(PieceType)]
  /\ \A p \in Procs : Progress(file, pc[p], rest[p], Entry(p, logged[p]))

\* An entry that its process has done with.
Past(e) == \E p \in Procs : \E n \in 0..logged[p] :
             e = Entry(p, n) /\ (pc[p] \in {"writing", "syncing"} => n < logged[p])

\* An acknowledged entry is complete, safe, and nothing its process is writing.
AckedOK ==
  \A e \in acked : /\ Past(e)
                   /\ Complete(file, e)
                   /\ \A i \in PlacesIn(file, e) : file[i].safe

\* The entries of a process are in the order in which it logged them.
Ordered ==
  \A p \in Procs : \A m, n \in Nat :
    m < n => \A i \in PlacesIn(file, Entry(p, m)), j \in PlacesIn(file, Entry(p, n)) : i < j

LogInv == FileOK /\ WritingOK /\ AckedOK /\ Ordered

------------------------------------------------------------------------------
(* Entries and places *)

LEMMA EntryIsItsParts ==
  /\ \A p, q, m, n : Entry(p, m) = Entry(q, n) => p = q /\ m = n
  /\ \A p, n : Entry(p, n) # <<>>
  /\ \A p \in Procs, n \in Nat : Entry(p, n) \in {<<>>} \cup (Procs \X Nat)
BY DEF Entry

LEMMA PlacesAre ==
  ASSUME FileOK
  PROVE  \A e : Places(e) = PlacesIn(file, e)
BY DEF FileOK, Places, PlacesIn

\* An entry that has not been begun is nowhere.
LEMMA FutureNowhere ==
  ASSUME FileOK, NEW p \in Procs, NEW n \in Nat, n > logged[p]
  PROVE  PlacesIn(file, Entry(p, n)) = {}
<1>1. SUFFICES ASSUME NEW i \in 1..Len(file), file[i].entry = Entry(p, n)
               PROVE  FALSE
  BY DEF PlacesIn
<1>0. file[i].entry # <<>>
  <2>1. Entry(p, n) # <<>>
    BY EntryIsItsParts
  <2>2. QED
    BY <1>1, <2>1
<1>2. PICK q \in Procs : \E m \in 0..logged[q] : file[i].entry = Entry(q, m)
  BY <1>0, <1>1 DEF FileOK
<1>3. PICK m \in 0..logged[q] : file[i].entry = Entry(q, m)
  BY <1>2
<1>4. q = p /\ m = n
  BY <1>1, <1>3 DEF Entry
<1>5. QED
  BY <1>3, <1>4 DEF FileOK

\* A sequence of two.
LEMMA HeadTailOfTwo ==
  ASSUME NEW S, NEW s \in Seq(S), Len(s) = 2
  PROVE  Tail(s) \in Seq(S) /\ Len(Tail(s)) = 1 /\ Tail(s)[1] = s[2] /\ Head(s) = s[1]
<1>1. s # <<>>
  BY EmptySeq
<1>2. Tail(s) \in Seq(S) /\ Len(Tail(s)) = Len(s) - 1
      /\ \A i \in 1..Len(Tail(s)) : Tail(s)[i] = s[i + 1]
  BY <1>1, HeadTailProperties
<1>3. Len(Tail(s)) = 1
  <2>1. Len(s) = 2
    OBVIOUS
  <2>2. QED
    BY <1>2, <2>1
<1>4. Tail(s)[1] = s[1 + 1]
  BY <1>2, <1>3
<1>5. Head(s) = s[1]
  BY <1>1
<1>6. QED
  BY <1>2, <1>3, <1>4, <1>5

\* A line is two pieces of its entry.
LEMMA LineIs ==
  ASSUME NEW p \in Procs, NEW n \in Nat
  PROVE  LET e == Entry(p, n)
         IN  /\ Line(e) \in Seq(PieceType) /\ Len(Line(e)) = 2
             /\ Line(e)[1].entry = e /\ Line(e)[2].entry = e
             /\ Tail(Line(e)) \in Seq(PieceType) /\ Len(Tail(Line(e))) = 1
             /\ Tail(Line(e))[1].entry = e
             /\ Head(Line(e)) \in PieceType /\ Head(Line(e)).entry = e
<1> DEFINE e == Entry(p, n)
<1>1. \A b \in BOOLEAN : Piece(e, b) \in PieceType /\ Piece(e, b).entry = e
  <2>1. e \in {<<>>} \cup (Procs \X Nat)
    BY EntryIsItsParts
  <2> HIDE DEF e
  <2>2. QED
    BY <2>1 DEF Piece, PieceType
<1> HIDE DEF e
<1>2. Line(e) = <<Piece(e, FALSE), Piece(e, TRUE)>>
  BY DEF Line
<1>3. Line(e) \in Seq(PieceType)
  <2> DEFINE a == Piece(e, FALSE)
             b == Piece(e, TRUE)
  <2>1. a \in PieceType /\ b \in PieceType
    BY <1>1
  <2> HIDE DEF a, b
  <2>2. <<a, b>> = Append(Append(<<>>, a), b)
    OBVIOUS
  <2>3. <<a, b>> \in Seq(PieceType)
    BY <2>1, <2>2
  <2>4. QED
    BY <1>2, <2>3 DEF a, b
<1>4. Len(Line(e)) = 2 /\ Line(e)[1] = Piece(e, FALSE) /\ Line(e)[2] = Piece(e, TRUE)
  BY <1>2
<1>5. /\ Tail(Line(e)) \in Seq(PieceType) /\ Len(Tail(Line(e))) = 1
      /\ Tail(Line(e))[1] = Piece(e, TRUE) /\ Head(Line(e)) = Piece(e, FALSE)
  BY <1>3, <1>4, HeadTailOfTwo
<1>6. /\ Piece(e, FALSE) \in PieceType /\ Piece(e, FALSE).entry = e
      /\ Piece(e, TRUE) \in PieceType /\ Piece(e, TRUE).entry = e
  BY <1>1
<1>7. QED
  BY <1>3, <1>4, <1>5, <1>6 DEF e

------------------------------------------------------------------------------
(* Steps that leave the file alone *)

LEMMA KeepFile ==
  ASSUME LogInv, UNCHANGED <<file, logged, acked>>,
         pc' \in [Procs -> {"off", "open", "writing", "syncing"}],
         rest' \in [Procs -> Seq(PieceType)],
         \A p \in Procs : /\ pc'[p] = "writing" => pc[p] = "writing" /\ rest'[p] = rest[p]
                          /\ pc'[p] = "syncing" => pc[p] = "syncing"
  PROVE  LogInv'
<1>1. FileOK' /\ Ordered'
  BY DEF LogInv, FileOK, Ordered
<1>2. WritingOK'
  BY DEF LogInv, WritingOK, Progress
<1>3. AckedOK'
  <2>1. \A e : Past(e) => Past(e)'
    BY DEF Past
  <2>2. QED
    BY <2>1 DEF LogInv, AckedOK
<1>4. QED
  BY <1>1, <1>2, <1>3 DEF LogInv

\* An entry is begun: it is nowhere yet.
LEMMA LogStep ==
  ASSUME LogInv, NEW p \in Procs, Log(p)
  PROVE  LogInv'
<1>1. /\ pc[p] = "open" /\ logged \in [Procs -> Nat]
      /\ logged' = [logged EXCEPT ![p] = @ + 1] /\ pc' = [pc EXCEPT ![p] = "writing"]
      /\ rest' = [rest EXCEPT ![p] = Line(Entry(p, logged[p] + 1))]
      /\ file' = file /\ acked' = acked
  BY DEF Log, LogInv, FileOK, Entry
<1>2. logged' \in [Procs -> Nat] /\ logged'[p] = logged[p] + 1 /\ logged[p] \in Nat
      /\ \A q \in Procs : q # p => logged'[q] = logged[q]
  BY <1>1
<1>3. \A q \in Procs : 0..logged[q] \subseteq 0..logged'[q]
  BY <1>1, <1>2
<1>4. FileOK' /\ Ordered'
  BY <1>1, <1>2, <1>3 DEF LogInv, FileOK, Ordered
<1>5. WritingOK'
  <2>1. PlacesIn(file, Entry(p, logged[p] + 1)) = {}
    BY <1>2, FutureNowhere DEF LogInv
  <2>2. Line(Entry(p, logged[p] + 1)) \in Seq(PieceType)
    BY <1>2, LineIs
  <2>3. pc' \in [Procs -> {"off", "open", "writing", "syncing"}] /\ rest' \in [Procs -> Seq(PieceType)]
    BY <1>1, <2>2 DEF LogInv, WritingOK
  <2>4. ASSUME NEW q \in Procs
        PROVE  Progress(file, pc'[q], rest'[q], Entry(q, logged'[q]))
    <3>1. CASE q = p
      BY <1>1, <1>2, <2>1, <3>1 DEF LogInv, WritingOK, Progress
    <3>2. CASE q # p
      BY <1>1, <1>2, <3>2 DEF LogInv, WritingOK
    <3>3. QED
      BY <3>1, <3>2
  <2>5. QED
    BY <1>1, <2>3, <2>4 DEF WritingOK
<1>6. AckedOK'
  <2>1. ASSUME NEW e, Past(e)
        PROVE  Past(e)'
    <3>1. PICK q \in Procs : \E n \in 0..logged[q] :
            e = Entry(q, n) /\ (pc[q] \in {"writing", "syncing"} => n < logged[q])
      BY <2>1 DEF Past
    <3>2. PICK n \in 0..logged[q] :
            e = Entry(q, n) /\ (pc[q] \in {"writing", "syncing"} => n < logged[q])
      BY <3>1
    <3>3. n \in 0..logged'[q]
      BY <1>3, <3>2
    <3>4. pc'[q] \in {"writing", "syncing"} => n < logged'[q]
      <4>1. CASE q = p
        BY <1>2, <3>2, <4>1
      <4>2. CASE q # p
        BY <1>1, <1>2, <3>2, <4>2 DEF LogInv, WritingOK
      <4>3. QED
        BY <4>1, <4>2
    <3>5. QED
      BY <3>2, <3>3, <3>4 DEF Past
  <2>2. QED
    BY <1>1, <2>1 DEF LogInv, AckedOK
<1>7. QED
  BY <1>4, <1>5, <1>6 DEF LogInv

------------------------------------------------------------------------------
(* Steps that append *)

\* What goes to the end of the file are pieces of one entry: all others stay where they
\* are.
LEMMA Appended ==
  ASSUME FileOK, NEW e, NEW add \in Seq(PieceType), file' = file \o add,
         \A k \in 1..Len(add) : add[k].entry = e
  PROVE  /\ file' \in Seq(PieceType) /\ Len(file') = Len(file) + Len(add)
         /\ Len(file) \in Nat /\ Len(add) \in Nat
         /\ \A i \in 1..Len(file) : file'[i] = file[i]
         /\ \A f : f # e => PlacesIn(file', f) = PlacesIn(file, f)
         /\ PlacesIn(file', e) = PlacesIn(file, e) \cup ((Len(file) + 1)..(Len(file) + Len(add)))
<1> DEFINE L == Len(file)
           A == Len(add)
<1>1. file \in Seq(PieceType) /\ L \in Nat /\ A \in Nat
  BY DEF FileOK
<1>2. /\ file' \in Seq(PieceType) /\ Len(file') = L + A
      /\ \A i \in 1..L : file'[i] = file[i]
      /\ \A i \in (L + 1)..(L + A) : file'[i] = add[i - L]
  BY <1>1
<1>3. \A i \in (L + 1)..(L + A) : file'[i].entry = e
  <2>1. \A i \in (L + 1)..(L + A) : i - L \in 1..A
    BY <1>1
  <2>2. QED
    BY <1>2, <2>1
<1>4. 1..(L + A) = (1..L) \cup ((L + 1)..(L + A))
  BY <1>1
<1>5. \A f : f # e => PlacesIn(file', f) = PlacesIn(file, f)
  BY <1>2, <1>3, <1>4 DEF PlacesIn
<1>6. PlacesIn(file', e) = PlacesIn(file, e) \cup ((L + 1)..(L + A))
  BY <1>2, <1>3, <1>4 DEF PlacesIn
<1>7. QED
  BY <1>1, <1>2, <1>5, <1>6

\* A process puts pieces of its own entry at the end.
LEMMA AppendStep ==
  ASSUME LogInv, NEW p \in Procs, pc[p] = "writing",
         NEW add \in Seq(PieceType), file' = file \o add,
         \A k \in 1..Len(add) : add[k].entry = Entry(p, logged[p]),
         UNCHANGED <<logged, acked>>,
         pc' \in [Procs -> {"off", "open", "writing", "syncing"}],
         rest' \in [Procs -> Seq(PieceType)],
         \A q \in Procs : q # p => pc'[q] = pc[q] /\ rest'[q] = rest[q],
         Progress(file', pc'[p], rest'[p], Entry(p, logged[p]))
  PROVE  LogInv'
<1> DEFINE L == Len(file)
           c == Entry(p, logged[p])
<1>1. /\ file' \in Seq(PieceType) /\ Len(file') = L + Len(add)
      /\ L \in Nat /\ Len(add) \in Nat
      /\ \A i \in 1..L : file'[i] = file[i]
      /\ \A f : f # c => PlacesIn(file', f) = PlacesIn(file, f)
      /\ PlacesIn(file', c) = PlacesIn(file, c) \cup ((L + 1)..(L + Len(add)))
  BY Appended DEF LogInv
<1>2. logged \in [Procs -> Nat] /\ file \in Seq(PieceType)
  BY DEF LogInv, FileOK
<1>3. 1..L \subseteq 1..Len(file') /\ \A f : PlacesIn(file, f) \subseteq 1..L
  BY <1>1 DEF PlacesIn
<1>4. FileOK'
  <2>1. ASSUME NEW i \in 1..Len(file')
        PROVE  file'[i].entry = <<>> \/ \E q \in Procs : \E n \in 0..logged[q] : file'[i].entry = Entry(q, n)
    <3>1. CASE i \in 1..L
      BY <1>1, <3>1 DEF LogInv, FileOK
    <3>2. CASE i \notin 1..L
      <4>1. i \in PlacesIn(file', c)
        BY <1>1, <2>1, <3>2
      <4>2. file'[i].entry = c /\ logged[p] \in 0..logged[p]
        BY <1>2, <4>1 DEF PlacesIn
      <4>3. QED
        BY <4>2
    <3>3. QED
      BY <3>1, <3>2
  <2>2. QED
    BY <1>1, <1>2, <2>1 DEF FileOK
<1>5. WritingOK'
  <2>1. ASSUME NEW q \in Procs, q # p
        PROVE  Progress(file', pc'[q], rest'[q], Entry(q, logged[q]))
    <3>1. Entry(q, logged[q]) # c
      BY <2>1 DEF Entry
    <3>2. PlacesIn(file', Entry(q, logged[q])) = PlacesIn(file, Entry(q, logged[q]))
      BY <1>1, <3>1
    <3>3. pc'[q] = pc[q] /\ rest'[q] = rest[q] /\ Progress(file, pc[q], rest[q], Entry(q, logged[q]))
      BY <2>1 DEF LogInv, WritingOK
    <3>4. Complete(file, Entry(q, logged[q])) => Complete(file', Entry(q, logged[q]))
      BY <1>3, <3>2 DEF Complete
    <3>5. (\E i \in 1..L : PlacesIn(file, Entry(q, logged[q])) = {i})
            => \E i \in 1..Len(file') : PlacesIn(file', Entry(q, logged[q])) = {i}
      BY <1>3, <3>2
    <3>6. QED
      BY <3>2, <3>3, <3>4, <3>5 DEF Progress
  <2>2. \A q \in Procs : Progress(file', pc'[q], rest'[q], Entry(q, logged[q]))
    BY <2>1
  <2>3. QED
    BY <2>2 DEF WritingOK
<1>6. AckedOK'
  <2>1. SUFFICES ASSUME NEW e \in acked
                 PROVE  Past(e)' /\ Complete(file', e) /\ \A i \in PlacesIn(file', e) : file'[i].safe
    BY DEF AckedOK
  <2>2. PICK q \in Procs : \E n \in 0..logged[q] :
          e = Entry(q, n) /\ (pc[q] \in {"writing", "syncing"} => n < logged[q])
    BY DEF LogInv, AckedOK, Past
  <2>3. PICK n \in 0..logged[q] :
          e = Entry(q, n) /\ (pc[q] \in {"writing", "syncing"} => n < logged[q])
    BY <2>2
  <2>4. q = p => n < logged[p]
    BY <2>3
  <2>5. Past(e)'
    BY <2>3, <2>4 DEF Past
  <2>6. e # c
    <3>1. e = c => q = p /\ n = logged[p]
      BY <2>3 DEF Entry
    <3>2. QED
      BY <1>2, <2>3, <2>4, <3>1
  <2>7. PlacesIn(file', e) = PlacesIn(file, e)
    BY <1>1, <2>6
  <2>8. QED
    BY <1>1, <1>3, <2>5, <2>7 DEF LogInv, AckedOK, Complete
<1>7. Ordered'
  <2>1. SUFFICES ASSUME NEW q \in Procs, NEW m \in Nat, NEW n \in Nat, m < n,
                        NEW i \in PlacesIn(file', Entry(q, m)), NEW j \in PlacesIn(file', Entry(q, n))
                 PROVE  i < j
    BY DEF Ordered
  <2>2. CASE Entry(q, m) = c
    <3>1. q = p /\ m = logged[p]
      BY <2>2 DEF Entry
    <3>2. Entry(q, n) # c
      BY <1>2, <2>1, <3>1 DEF Entry
    <3>3. PlacesIn(file, Entry(q, n)) = {}
      BY <1>2, <2>1, <3>1, FutureNowhere DEF LogInv
    <3>4. QED
      BY <1>1, <2>1, <3>2, <3>3
  <2>3. CASE Entry(q, m) # c
    <3>1. i \in PlacesIn(file, Entry(q, m)) /\ i \in 1..L
      BY <1>1, <1>3, <2>1, <2>3
    <3>2. CASE j \in PlacesIn(file, Entry(q, n))
      BY <2>1, <3>1, <3>2 DEF LogInv, Ordered
    <3>3. CASE j \notin PlacesIn(file, Entry(q, n))
      <4>1. Entry(q, n) = c
        BY <1>1, <3>3
      <4>2. j \in (L + 1)..(L + Len(add))
        BY <1>1, <3>3, <4>1
      <4>3. QED
        BY <1>1, <3>1, <4>2
    <3>4. QED
      BY <3>2, <3>3
  <2>4. QED
    BY <2>2, <2>3
<1>8. QED
  BY <1>4, <1>5, <1>6, <1>7 DEF LogInv

\* What is still to be written are pieces of the entry, one or two.
LEMMA RestIs ==
  ASSUME LogInv, NEW p \in Procs, pc[p] = "writing"
  PROVE  LET e == Entry(p, logged[p])
         IN  /\ rest[p] \in Seq(PieceType)
             /\ \A k \in 1..Len(rest[p]) : rest[p][k].entry = e
             /\ \/ Len(rest[p]) = 2 /\ rest[p] = Line(e) /\ PlacesIn(file, e) = {}
                \/ Len(rest[p]) = 1 /\ \E i \in 1..Len(file) : PlacesIn(file, e) = {i}
<1> DEFINE e == Entry(p, logged[p])
<1>1. logged[p] \in Nat
  BY DEF LogInv, FileOK
<1>2. \/ rest[p] = Line(e) /\ PlacesIn(file, e) = {}
      \/ rest[p] = Tail(Line(e)) /\ \E i \in 1..Len(file) : PlacesIn(file, e) = {i}
  BY DEF LogInv, WritingOK, Progress
<1>3. CASE rest[p] = Line(e) /\ PlacesIn(file, e) = {}
  <2>1. /\ rest[p] \in Seq(PieceType) /\ Len(rest[p]) = 2
        /\ rest[p][1].entry = e /\ rest[p][2].entry = e
    BY <1>1, <1>3, LineIs
  <2>2. QED
    BY <1>3, <2>1
<1>4. CASE rest[p] = Tail(Line(e)) /\ \E i \in 1..Len(file) : PlacesIn(file, e) = {i}
  <2>1. rest[p] \in Seq(PieceType) /\ Len(rest[p]) = 1 /\ rest[p][1].entry = e
    BY <1>1, <1>4, LineIs
  <2>2. QED
    BY <1>4, <2>1
<1>5. QED
  BY <1>2, <1>3, <1>4

LEMMA WriteStep ==
  ASSUME LogInv, NEW p \in Procs, Write(p)
  PROVE  LogInv'
<1> DEFINE e == Entry(p, logged[p])
           L == Len(file)
           A == Len(rest[p])
<1>1. /\ pc[p] = "writing" /\ file' = file \o rest[p]
      /\ rest' = [rest EXCEPT ![p] = <<>>] /\ pc' = [pc EXCEPT ![p] = "syncing"]
      /\ logged' = logged /\ acked' = acked
  BY DEF Write, AppendTo
<1>2. /\ rest[p] \in Seq(PieceType)
      /\ \A k \in 1..Len(rest[p]) : rest[p][k].entry = e
      /\ \/ A = 2 /\ PlacesIn(file, e) = {}
         \/ A = 1 /\ \E i \in 1..L : PlacesIn(file, e) = {i}
  BY <1>1, RestIs
<1>3. /\ Len(file') = L + A /\ L \in Nat /\ A \in Nat
      /\ PlacesIn(file', e) = PlacesIn(file, e) \cup ((L + 1)..(L + A))
  BY <1>1, <1>2, Appended DEF LogInv
<1>4. Complete(file', e)
  <2>1. CASE A = 2 /\ PlacesIn(file, e) = {}
    <3>1. (L + 1)..(L + A) = {L + 1, L + 2}
      BY <1>3, <2>1
    <3>2. QED
      BY <1>3, <2>1, <3>1 DEF Complete
  <2>2. ASSUME A = 1, NEW i \in 1..L, PlacesIn(file, e) = {i}
        PROVE  Complete(file', e)
    <3>1. (L + 1)..(L + A) = {L + 1}
      BY <1>3, <2>2
    <3>2. PlacesIn(file', e) = {i, L + 1} /\ i < L + 1 /\ i \in 1..Len(file') /\ L + 1 \in 1..Len(file')
      BY <1>3, <2>2, <3>1
    <3>3. QED
      BY <3>2 DEF Complete
  <2>3. QED
    BY <1>2, <2>1, <2>2
<1>5. /\ pc' \in [Procs -> {"off", "open", "writing", "syncing"}]
      /\ rest' \in [Procs -> Seq(PieceType)]
      /\ \A q \in Procs : q # p => pc'[q] = pc[q] /\ rest'[q] = rest[q]
      /\ pc'[p] = "syncing"
  BY <1>1, EmptySeq DEF LogInv, WritingOK
<1>6. Progress(file', pc'[p], rest'[p], e)
  BY <1>4, <1>5 DEF Progress
<1>7. QED
  BY <1>1, <1>2, <1>5, <1>6, AppendStep

LEMMA WriteShortStep ==
  ASSUME LogInv, NEW p \in Procs, WriteShort(p)
  PROVE  LogInv'
<1> DEFINE e == Entry(p, logged[p])
           L == Len(file)
           add == <<Head(rest[p])>>
<1>1. /\ pc[p] = "writing" /\ Len(rest[p]) > 1 /\ file' = file \o add
      /\ rest' = [rest EXCEPT ![p] = Tail(@)] /\ pc' = pc
      /\ logged' = logged /\ acked' = acked
  BY DEF WriteShort, AppendTo
<1>2. rest[p] = Line(e) /\ PlacesIn(file, e) = {}
  BY <1>1, RestIs
<1>3. logged[p] \in Nat
  BY DEF LogInv, FileOK
<1>4. /\ Head(rest[p]) \in PieceType /\ Head(rest[p]).entry = e
      /\ Tail(rest[p]) = Tail(Line(e)) /\ Tail(rest[p]) \in Seq(PieceType)
  BY <1>2, <1>3, LineIs
<1>5. add \in Seq(PieceType) /\ Len(add) = 1 /\ \A k \in 1..Len(add) : add[k].entry = e
  BY <1>4
<1> HIDE DEF add
<1>6. /\ Len(file') = L + 1 /\ L \in Nat
      /\ PlacesIn(file', e) = PlacesIn(file, e) \cup ((L + 1)..(L + 1))
  BY <1>1, <1>5, Appended DEF LogInv
<1>7. PlacesIn(file', e) = {L + 1} /\ L + 1 \in 1..Len(file')
  BY <1>2, <1>6
<1>8. /\ pc' \in [Procs -> {"off", "open", "writing", "syncing"}]
      /\ rest' \in [Procs -> Seq(PieceType)]
      /\ \A q \in Procs : q # p => pc'[q] = pc[q] /\ rest'[q] = rest[q]
      /\ pc'[p] = "writing" /\ rest'[p] = Tail(Line(e))
  BY <1>1, <1>4 DEF LogInv, WritingOK
<1>9. Progress(file', pc'[p], rest'[p], e)
  BY <1>7, <1>8 DEF Progress
<1>10. QED
  BY <1>1, <1>5, <1>8, <1>9, AppendStep

------------------------------------------------------------------------------
(* Syncing and crashing *)

\* The file is rewritten in place: entries keep their places, or lose some to a crash.
LEMMA SyncStep ==
  ASSUME LogInv, NEW p \in Procs, Sync(p)
  PROVE  LogInv'
<1> DEFINE c == Entry(p, logged[p])
<1>1. /\ pc[p] = "syncing" /\ file' = Synced /\ acked' = acked \cup {c}
      /\ pc' = [pc EXCEPT ![p] = "open"] /\ rest' = rest /\ logged' = logged
  BY DEF Sync, Entry
<1>2. file \in Seq(PieceType) /\ Len(file) \in Nat /\ DOMAIN file = 1..Len(file)
      /\ logged \in [Procs -> Nat]
  BY DEF LogInv, FileOK
<1>3. /\ file' \in Seq(PieceType) /\ Len(file') = Len(file)
      /\ \A i \in 1..Len(file) : file'[i].entry = file[i].entry /\ file'[i].safe = TRUE
  <2>1. file' = [i \in 1..Len(file) |-> [file[i] EXCEPT !.safe = TRUE]]
    BY <1>1, <1>2 DEF Synced
  <2>2. \A i \in 1..Len(file) : file[i] \in PieceType
    BY <1>2
  <2>3. \A i \in 1..Len(file) : [file[i] EXCEPT !.safe = TRUE] \in PieceType
    BY <2>2 DEF PieceType
  <2>4. file' \in Seq(PieceType) /\ Len(file') = Len(file)
    BY <1>2, <2>1, <2>3, IsASeq
  <2>5. QED
    BY <2>1, <2>2, <2>4 DEF PieceType
<1>4. \A e : PlacesIn(file', e) = PlacesIn(file, e)
  BY <1>3 DEF PlacesIn
<1>5. \A e : Complete(file', e) <=> Complete(file, e)
  BY <1>3, <1>4 DEF Complete
<1>6. FileOK' /\ Ordered'
  BY <1>1, <1>2, <1>3, <1>4 DEF LogInv, FileOK, Ordered
<1>7. WritingOK'
  <2>1. pc' \in [Procs -> {"off", "open", "writing", "syncing"}] /\ pc'[p] = "open"
        /\ \A q \in Procs : q # p => pc'[q] = pc[q]
    BY <1>1 DEF LogInv, WritingOK
  <2>2. ASSUME NEW q \in Procs
        PROVE  Progress(file', pc'[q], rest[q], Entry(q, logged[q]))
    BY <1>3, <1>4, <1>5, <2>1 DEF LogInv, WritingOK, Progress
  <2>3. QED
    BY <1>1, <2>1, <2>2 DEF LogInv, WritingOK
<1>8. AckedOK'
  <2>1. ASSUME NEW e, Past(e)
        PROVE  Past(e)'
    BY <1>1, <2>1 DEF Past, LogInv, WritingOK
  <2>2. Past(c)'
    <3>0. logged[p] \in Nat
      BY <1>2
    <3>1. pc'[p] = "open" /\ logged[p] \in 0..logged[p]
      BY <1>1, <3>0 DEF LogInv, WritingOK
    <3>2. c = Entry(p, logged'[p]) /\ logged[p] \in 0..logged'[p] /\ pc'[p] \notin {"writing", "syncing"}
      BY <1>1, <3>1
    <3>3. QED
      BY <3>2 DEF Past
  <2>3. Complete(file, c)
    BY <1>1 DEF LogInv, WritingOK, Progress
  <2>4. \A e : \A i \in PlacesIn(file', e) : file'[i].safe
    BY <1>3 DEF PlacesIn
  <2>5. QED
    BY <1>1, <1>5, <2>1, <2>2, <2>3, <2>4 DEF LogInv, AckedOK
<1>9. QED
  BY <1>6, <1>7, <1>8 DEF LogInv

LEMMA CrashStep ==
  ASSUME LogInv, Crash
  PROVE  LogInv'
<1>1. PICK n \in 0..Len(file), gone \in SUBSET {i \in DOMAIN file : ~file[i].safe} :
        /\ \A i \in DOMAIN file : file[i].safe => i <= n
        /\ file' = [i \in 1..n |-> IF i \in gone THEN Hole ELSE [file[i] EXCEPT !.safe = TRUE]]
  BY DEF Crash
<1>2. /\ pc' = [p \in Procs |-> "off"] /\ rest' = [p \in Procs |-> <<>>]
      /\ logged' = logged /\ acked' = acked
  BY DEF Crash
<1>3. file \in Seq(PieceType) /\ Len(file) \in Nat /\ DOMAIN file = 1..Len(file)
      /\ logged \in [Procs -> Nat] /\ \A i \in 1..Len(file) : file[i] \in PieceType
  BY DEF LogInv, FileOK
<1>4. n \in Nat /\ 1..n \subseteq 1..Len(file)
  BY <1>1, <1>3
<1>5. \A i \in 1..n : /\ file'[i] \in PieceType /\ file'[i].safe = TRUE
                      /\ file'[i].entry = file[i].entry \/ file'[i].entry = <<>>
  <2>1. Hole \in PieceType /\ Hole.entry = <<>> /\ Hole.safe = TRUE
    BY DEF Hole, PieceType
  <2>2. \A i \in 1..n : LET w == [file[i] EXCEPT !.safe = TRUE]
                        IN  w \in PieceType /\ w.entry = file[i].entry /\ w.safe = TRUE
    BY <1>3, <1>4 DEF PieceType
  <2>3. QED
    BY <1>1, <2>1, <2>2
<1>6. file' \in Seq(PieceType) /\ Len(file') = n
  <2>1. file' \in [1..n -> PieceType]
    BY <1>1, <1>5
  <2>2. QED
    BY <1>4, <2>1, IsASeq, LenProperties
<1>7. \A i \in 1..Len(file) : file[i].safe => i \in 1..n /\ file'[i].entry = file[i].entry
  <2>1. SUFFICES ASSUME NEW i \in 1..Len(file), file[i].safe
                 PROVE  i \in 1..n /\ file'[i].entry = file[i].entry
    OBVIOUS
  <2>2. i \in 1..n /\ i \notin gone
    BY <1>1, <1>3, <1>4, <2>1
  <2>3. file'[i] = [file[i] EXCEPT !.safe = TRUE]
    BY <1>1, <2>2
  <2>4. QED
    BY <1>3, <2>2, <2>3 DEF PieceType
<1>8. \A e : e # <<>> => PlacesIn(file', e) \subseteq PlacesIn(file, e)
  BY <1>4, <1>5, <1>6 DEF PlacesIn
<1>9. FileOK'
  BY <1>2, <1>3, <1>4, <1>5, <1>6 DEF LogInv, FileOK
<1>10. WritingOK'
  BY <1>2, EmptySeq DEF WritingOK, Progress
<1>11. AckedOK'
  <2>1. SUFFICES ASSUME NEW e \in acked
                 PROVE  Past(e)' /\ Complete(file', e) /\ \A i \in PlacesIn(file', e) : file'[i].safe
    BY <1>2 DEF AckedOK
  <2>2. Past(e)' /\ e # <<>>
    BY <1>2, EntryIsItsParts DEF LogInv, AckedOK, Past
  <2>3. PlacesIn(file, e) \subseteq PlacesIn(file', e)
    BY <1>6, <1>7 DEF LogInv, AckedOK, PlacesIn
  <2>4. PlacesIn(file', e) = PlacesIn(file, e)
    BY <1>8, <2>2, <2>3
  <2>5. Complete(file', e)
    <3>1. PICK i, j \in 1..Len(file) : i < j /\ PlacesIn(file, e) = {i, j}
      BY DEF LogInv, AckedOK, Complete
    <3>2. i \in 1..Len(file') /\ j \in 1..Len(file')
      BY <2>4, <3>1 DEF PlacesIn
    <3>3. QED
      BY <2>4, <3>1, <3>2 DEF Complete
  <2>6. QED
    BY <1>5, <1>6, <2>2, <2>5 DEF PlacesIn
<1>12. Ordered'
  BY <1>8, EntryIsItsParts DEF LogInv, Ordered
<1>13. QED
  BY <1>9, <1>10, <1>11, <1>12 DEF LogInv

------------------------------------------------------------------------------
(* The theorem *)

LEMMA LogInit == Init => LogInv
<1> SUFFICES ASSUME Init PROVE LogInv
  OBVIOUS
<1>1. file = <<>> /\ Len(file) = 0 /\ file \in Seq(PieceType)
  BY EmptySeq DEF Init
<1>2. \A e : PlacesIn(file, e) = {}
  BY <1>1 DEF PlacesIn
<1>3. FileOK /\ Ordered
  BY <1>1, <1>2 DEF Init, FileOK, Ordered
<1>4. WritingOK /\ AckedOK
  BY EmptySeq DEF Init, WritingOK, AckedOK, Progress
<1>5. QED
  BY <1>3, <1>4 DEF LogInv

LEMMA LogNext ==
  ASSUME LogInv, [Next]_vars
  PROVE  LogInv'
<1>0. /\ pc \in [Procs -> {"off", "open", "writing", "syncing"}]
      /\ rest \in [Procs -> Seq(PieceType)] /\ <<>> \in Seq(PieceType)
  BY EmptySeq DEF LogInv, WritingOK
<1>1. CASE UNCHANGED vars
  BY <1>0, <1>1, KeepFile DEF vars
<1>2. CASE Crash
  BY <1>2, CrashStep
<1>3. ASSUME NEW p \in Procs,
             \/ Open(p) \/ WriteFails(p) \/ SyncFails(p) \/ Close(p) \/ Kill(p)
      PROVE  LogInv'
  <2>1. /\ UNCHANGED <<file, logged, acked>>
        /\ pc' \in [Procs -> {"off", "open", "writing", "syncing"}]
        /\ rest' \in [Procs -> Seq(PieceType)]
        /\ pc'[p] \in {"off", "open"}
        /\ \A q \in Procs : q # p => pc'[q] = pc[q] /\ rest'[q] = rest[q]
    BY <1>0, <1>3 DEF Open, WriteFails, SyncFails, Close, Kill
  <2>2. \A q \in Procs : /\ pc'[q] = "writing" => pc[q] = "writing" /\ rest'[q] = rest[q]
                         /\ pc'[q] = "syncing" => pc[q] = "syncing"
    BY <2>1
  <2>3. QED
    BY <2>1, <2>2, KeepFile
<1>4. QED
  BY <1>1, <1>2, <1>3, LogStep, WriteStep, WriteShortStep, SyncStep DEF Next

\* An entry for which Log returned nil stays: both its pieces, on the disk, and behind those
\* its process completed before.
THEOREM AckedDurableCorrect == Spec => []AckedDurable
<1>1. LogInv => AckedDurable
  <2> SUFFICES ASSUME LogInv PROVE AckedDurable
    OBVIOUS
  <2>1. \A e : Places(e) = PlacesIn(file, e)
    BY PlacesAre DEF LogInv
  <2>2. ASSUME NEW e \in acked
        PROVE  Cardinality(Places(e)) = 2 /\ \A i \in Places(e) : file[i].safe
    <3>1. PICK i, j \in 1..Len(file) : i < j /\ PlacesIn(file, e) = {i, j}
      BY DEF LogInv, AckedOK, Complete
    <3>2. i # j /\ {i, j} = {i} \cup {j}
      BY <3>1 DEF LogInv, FileOK
    <3>3. IsFiniteSet({i}) /\ Cardinality({i}) = 1
      BY FS_Singleton
    <3>4. Cardinality({i} \cup {j}) = Cardinality({i}) + 1
      BY <3>2, <3>3, FS_AddElement
    <3>5. Places(e) = {i} \cup {j}
      BY <2>1, <3>1, <3>2
    <3>6. Cardinality(Places(e)) = 2
      BY <3>3, <3>4, <3>5
    <3>7. QED
      BY <2>1, <3>6 DEF LogInv, AckedOK
  <2>3. ASSUME NEW e \in acked, NEW f \in acked, e[1] = f[1], e[2] < f[2]
        PROVE  \A i \in Places(e), j \in Places(f) : i < j
    <3>1. PICK p \in Procs : \E n \in 0..logged[p] : e = Entry(p, n)
      BY DEF LogInv, AckedOK, Past
    <3>2. PICK n \in 0..logged[p] : e = Entry(p, n)
      BY <3>1
    <3>3. PICK q \in Procs : \E m \in 0..logged[q] : f = Entry(q, m)
      BY DEF LogInv, AckedOK, Past
    <3>4. PICK m \in 0..logged[q] : f = Entry(q, m)
      BY <3>3
    <3>5. p = q /\ n < m /\ n \in Nat /\ m \in Nat
      BY <2>3, <3>2, <3>4 DEF Entry, LogInv, FileOK
    <3>6. QED
      BY <2>1, <3>2, <3>4, <3>5 DEF LogInv, Ordered
  <2>4. QED
    BY <2>2, <2>3 DEF AckedDurable
<1>2. QED
  BY <1>1, LogInit, LogNext, PTL DEF Spec

------------------------------------------------------------------------------
(* Lines *)

\* An entry stands in the file as it was written: its two pieces side by side, of which
\* the second ends the line.
Whole(f, e) ==
  \E i \in 1..Len(f) : /\ i + 1 \in 1..Len(f) /\ PlacesIn(f, e) = {i, i + 1}
                       /\ ~f[i].end /\ f[i + 1].end

\* What was not written in parts is whole.
UnbrokenOK ==
  /\ \A e \in acked \ short : Whole(file, e)
  /\ \A p \in Procs :
       LET e == Entry(p, logged[p])
       IN  e \notin short => /\ pc[p] = "writing" => rest[p] = Line(e)
                             /\ pc[p] = "syncing" => Whole(file, e)

\* Pieces of another entry at the end of the file spoil nothing.
LEMMA AppendedWhole ==
  ASSUME FileOK, NEW e, NEW add \in Seq(PieceType), file' = file \o add,
         \A k \in 1..Len(add) : add[k].entry = e,
         NEW f, f # e, Whole(file, f)
  PROVE  Whole(file', f)
<1>1. /\ Len(file') = Len(file) + Len(add) /\ Len(file) \in Nat /\ Len(add) \in Nat
      /\ \A i \in 1..Len(file) : file'[i] = file[i]
      /\ PlacesIn(file', f) = PlacesIn(file, f)
  BY Appended
<1>2. PICK i \in 1..Len(file) : /\ i + 1 \in 1..Len(file) /\ PlacesIn(file, f) = {i, i + 1}
                                /\ ~file[i].end /\ file[i + 1].end
  BY DEF Whole
<1>3. i \in 1..Len(file') /\ i + 1 \in 1..Len(file')
  BY <1>1, <1>2
<1>4. QED
  BY <1>1, <1>2, <1>3 DEF Whole

\* An acknowledged entry is not the one its process is writing.
LEMMA AckedIsNotCurrent ==
  ASSUME LogInv, NEW e \in acked, NEW p \in Procs, pc[p] = "writing"
  PROVE  e # Entry(p, logged[p])
<1>1. PICK q \in Procs : \E n \in 0..logged[q] :
        e = Entry(q, n) /\ (pc[q] \in {"writing", "syncing"} => n < logged[q])
  BY DEF LogInv, AckedOK, Past
<1>2. PICK n \in 0..logged[q] :
        e = Entry(q, n) /\ (pc[q] \in {"writing", "syncing"} => n < logged[q])
  BY <1>1
<1>3. e = Entry(p, logged[p]) => q = p /\ n = logged[p]
  BY <1>2 DEF Entry
<1>4. logged \in [Procs -> Nat]
  BY DEF LogInv, FileOK
<1>5. QED
  BY <1>2, <1>3, <1>4

LEMMA AppendUnbroken ==
  ASSUME LogInv, UnbrokenOK, NEW p \in Procs, pc[p] = "writing",
         NEW add \in Seq(PieceType), file' = file \o add,
         \A k \in 1..Len(add) : add[k].entry = Entry(p, logged[p]),
         UNCHANGED <<logged, acked>>, short \subseteq short',
         \A q \in Procs : q # p => pc'[q] = pc[q] /\ rest'[q] = rest[q],
         Entry(p, logged[p]) \notin short' =>
           /\ pc'[p] = "writing" => rest'[p] = Line(Entry(p, logged[p]))
           /\ pc'[p] = "syncing" => Whole(file', Entry(p, logged[p]))
  PROVE  UnbrokenOK'
<1>1. ASSUME NEW f, f # Entry(p, logged[p]), Whole(file, f)
      PROVE  Whole(file', f)
  BY <1>1, AppendedWhole DEF LogInv
<1>2. ASSUME NEW e \in acked \ short'
      PROVE  Whole(file', e)
  <2>1. e # Entry(p, logged[p])
    BY AckedIsNotCurrent
  <2>2. Whole(file, e)
    BY DEF UnbrokenOK
  <2>3. QED
    BY <1>1, <2>1, <2>2
<1>3. ASSUME NEW q \in Procs, Entry(q, logged[q]) \notin short'
      PROVE  /\ pc'[q] = "writing" => rest'[q] = Line(Entry(q, logged[q]))
             /\ pc'[q] = "syncing" => Whole(file', Entry(q, logged[q]))
  <2>1. CASE q = p
    BY <1>3, <2>1
  <2>2. CASE q # p
    <3>1. Entry(q, logged[q]) # Entry(p, logged[p])
      BY <2>2 DEF Entry
    <3>2. /\ pc[q] = "writing" => rest[q] = Line(Entry(q, logged[q]))
          /\ pc[q] = "syncing" => Whole(file, Entry(q, logged[q]))
      BY <1>3 DEF UnbrokenOK
    <3>3. QED
      BY <1>1, <2>2, <3>1, <3>2
  <2>3. QED
    BY <2>1, <2>2
<1>4. QED
  BY <1>2, <1>3 DEF UnbrokenOK

\* A write that takes all of a line leaves it whole.
LEMMA WriteUnbroken ==
  ASSUME LogInv, UnbrokenOK, NEW p \in Procs, Write(p)
  PROVE  UnbrokenOK'
<1> DEFINE e == Entry(p, logged[p])
           L == Len(file)
           add == rest[p]
<1>1. /\ pc[p] = "writing" /\ file' = file \o add
      /\ rest' = [rest EXCEPT ![p] = <<>>] /\ pc' = [pc EXCEPT ![p] = "syncing"]
      /\ logged' = logged /\ acked' = acked /\ short' = short
  BY DEF Write, AppendTo
<1>2. /\ add \in Seq(PieceType) /\ \A k \in 1..Len(add) : add[k].entry = e
      /\ \/ Len(add) = 2 /\ add = Line(e) /\ PlacesIn(file, e) = {}
         \/ Len(add) = 1 /\ \E i \in 1..L : PlacesIn(file, e) = {i}
  BY <1>1, RestIs
<1>3. /\ pc'[p] = "syncing"
      /\ \A q \in Procs : q # p => pc'[q] = pc[q] /\ rest'[q] = rest[q]
  BY <1>1 DEF LogInv, WritingOK
<1>4. ASSUME e \notin short
      PROVE  Whole(file', e)
  <2>1. add = Line(e)
    BY <1>1, <1>4 DEF UnbrokenOK
  <2>2. Line(e) = <<Piece(e, FALSE), Piece(e, TRUE)>>
    BY DEF Line
  <2>3. /\ Len(add) = 2 /\ add[1] = Piece(e, FALSE) /\ add[2] = Piece(e, TRUE)
    BY <2>1, <2>2
  <2>4. ~add[1].end /\ add[2].end
    BY <2>3 DEF Piece
  <2>5. PlacesIn(file, e) = {}
    BY <1>2, <2>3
  <2> HIDE DEF add, e
  <2>6. /\ Len(file') = L + 2 /\ L \in Nat
        /\ PlacesIn(file', e) = (L + 1)..(L + 2)
    BY <1>1, <1>2, <2>3, <2>5, Appended DEF LogInv
  <2>7. file'[L + 1] = add[1] /\ file'[L + 2] = add[2]
    <3>1. file \in Seq(PieceType)
      BY DEF LogInv, FileOK
    <3>2. \A i \in 1..(Len(file) + Len(add)) :
            (file \o add)[i] = IF i <= Len(file) THEN file[i] ELSE add[i - Len(file)]
      BY <1>2, <3>1, ConcatProperties
    <3>3. L + 1 \in 1..(L + Len(add)) /\ L + 2 \in 1..(L + Len(add)) /\ (L + 1) - L = 1 /\ (L + 2) - L = 2
          /\ ~(L + 1 <= L) /\ ~(L + 2 <= L)
      BY <2>3, <2>6
    <3>4. QED
      BY <1>1, <3>2, <3>3
  <2>8. (L + 1)..(L + 2) = {L + 1, (L + 1) + 1} /\ (L + 1) + 1 = L + 2
        /\ L + 1 \in 1..Len(file') /\ L + 2 \in 1..Len(file')
    BY <2>6
  <2>9. QED
    BY <2>4, <2>6, <2>7, <2>8 DEF Whole
<1>5. QED
  BY <1>1, <1>2, <1>3, <1>4, AppendUnbroken

LEMMA WriteShortUnbroken ==
  ASSUME LogInv, UnbrokenOK, NEW p \in Procs, WriteShort(p)
  PROVE  UnbrokenOK'
<1> DEFINE e == Entry(p, logged[p])
           add == <<Head(rest[p])>>
<1>1. /\ pc[p] = "writing" /\ Len(rest[p]) > 1 /\ file' = file \o add
      /\ rest' = [rest EXCEPT ![p] = Tail(@)] /\ pc' = pc
      /\ logged' = logged /\ acked' = acked /\ short' = short \cup {rest[p][1].entry}
  BY DEF WriteShort, AppendTo
<1>2. rest[p] = Line(e) /\ logged[p] \in Nat
  <2>1. rest[p] = Line(e)
    BY <1>1, RestIs
  <2>2. QED
    BY <2>1 DEF LogInv, FileOK
<1>3. /\ Head(rest[p]) \in PieceType /\ Head(rest[p]).entry = e /\ rest[p][1].entry = e
  BY <1>2, LineIs
<1>4. add \in Seq(PieceType) /\ Len(add) = 1 /\ \A k \in 1..Len(add) : add[k].entry = e
  BY <1>3
<1> HIDE DEF add
<1>5. e \in short' /\ short \subseteq short'
      /\ \A q \in Procs : q # p => pc'[q] = pc[q] /\ rest'[q] = rest[q]
  BY <1>1, <1>3 DEF LogInv, WritingOK
<1>6. QED
  BY <1>1, <1>4, <1>5, AppendUnbroken

\* Sync rewrites no text.
LEMMA SyncUnbroken ==
  ASSUME LogInv, UnbrokenOK, NEW p \in Procs, Sync(p)
  PROVE  UnbrokenOK'
<1>1. /\ pc[p] = "syncing" /\ file' = Synced /\ acked' = acked \cup {Entry(p, logged[p])}
      /\ pc' = [pc EXCEPT ![p] = "open"] /\ rest' = rest /\ logged' = logged /\ short' = short
  BY DEF Sync, Entry
<1>2. file \in Seq(PieceType) /\ Len(file) \in Nat /\ DOMAIN file = 1..Len(file)
      /\ \A i \in 1..Len(file) : file[i] \in PieceType
  BY DEF LogInv, FileOK
<1>3. Len(file') = Len(file)
  BY <1>1, <1>2 DEF Synced
<1>4. \A i \in 1..Len(file) : file'[i].entry = file[i].entry /\ file'[i].end = file[i].end
  BY <1>1, <1>2 DEF Synced, PieceType
<1>5. \A e : PlacesIn(file', e) = PlacesIn(file, e)
  BY <1>3, <1>4 DEF PlacesIn
<1>6. \A e : Whole(file, e) => Whole(file', e)
  BY <1>3, <1>4, <1>5 DEF Whole
<1>7. pc'[p] = "open" /\ \A q \in Procs : q # p => pc'[q] = pc[q]
  BY <1>1 DEF LogInv, WritingOK
<1>8. Entry(p, logged[p]) \in short \/ Whole(file, Entry(p, logged[p]))
  BY <1>1 DEF UnbrokenOK
<1>9. QED
  BY <1>1, <1>6, <1>7, <1>8 DEF UnbrokenOK

\* What a crash takes is not of an acknowledged entry.
LEMMA CrashUnbroken ==
  ASSUME LogInv, UnbrokenOK, Crash
  PROVE  UnbrokenOK'
<1>1. PICK n \in 0..Len(file), gone \in SUBSET {i \in DOMAIN file : ~file[i].safe} :
        /\ \A i \in DOMAIN file : file[i].safe => i <= n
        /\ file' = [i \in 1..n |-> IF i \in gone THEN Hole ELSE [file[i] EXCEPT !.safe = TRUE]]
  BY DEF Crash
<1>2. /\ pc' = [p \in Procs |-> "off"] /\ acked' = acked /\ short' = short
  BY DEF Crash
<1>3. file \in Seq(PieceType) /\ Len(file) \in Nat /\ DOMAIN file = 1..Len(file)
      /\ \A i \in 1..Len(file) : file[i] \in PieceType
  BY DEF LogInv, FileOK
<1>4. n \in Nat /\ 1..n \subseteq 1..Len(file)
  BY <1>1, <1>3
<1>5. Len(file') = n
  BY <1>1, <1>4
<1>6. \A i \in 1..Len(file) : file[i].safe =>
        i \in 1..n /\ file'[i].entry = file[i].entry /\ file'[i].end = file[i].end
  <2>1. SUFFICES ASSUME NEW i \in 1..Len(file), file[i].safe
                 PROVE  i \in 1..n /\ file'[i].entry = file[i].entry /\ file'[i].end = file[i].end
    OBVIOUS
  <2>2. i \in 1..n /\ i \notin gone
    BY <1>1, <1>3, <1>4, <2>1
  <2>3. file'[i] = [file[i] EXCEPT !.safe = TRUE]
    BY <1>1, <2>2
  <2>4. QED
    BY <1>3, <2>2, <2>3 DEF PieceType
<1>7. \A i \in 1..n : file'[i].entry = file[i].entry \/ file'[i].entry = <<>>
  BY <1>1, <1>3, <1>4 DEF Hole, PieceType
<1>8. ASSUME NEW e \in acked \ short
      PROVE  Whole(file', e)
  <2>1. PICK i \in 1..Len(file) : /\ i + 1 \in 1..Len(file) /\ PlacesIn(file, e) = {i, i + 1}
                                  /\ ~file[i].end /\ file[i + 1].end
    BY DEF UnbrokenOK, Whole
  <2>2. file[i].safe /\ file[i + 1].safe
    BY <2>1 DEF LogInv, AckedOK
  <2>3. e # <<>>
    BY EntryIsItsParts DEF LogInv, AckedOK, Past
  <2>4. PlacesIn(file', e) = {i, i + 1}
    <3>1. PlacesIn(file', e) \subseteq PlacesIn(file, e)
      BY <1>4, <1>5, <1>7, <2>3 DEF PlacesIn
    <3>2. i \in PlacesIn(file', e) /\ i + 1 \in PlacesIn(file', e)
      BY <1>5, <1>6, <2>1, <2>2 DEF PlacesIn
    <3>3. QED
      BY <2>1, <3>1, <3>2
  <2>5. QED
    BY <1>5, <1>6, <2>1, <2>2, <2>4 DEF Whole
<1>9. QED
  BY <1>2, <1>8 DEF UnbrokenOK

LEMMA UnbrokenInit == Init => UnbrokenOK
BY DEF Init, UnbrokenOK

LEMMA UnbrokenNext ==
  ASSUME LogInv, UnbrokenOK, [Next]_vars
  PROVE  UnbrokenOK'
<1>1. CASE UNCHANGED vars
  BY <1>1 DEF vars, UnbrokenOK
<1>2. ASSUME NEW p \in Procs, Log(p)
      PROVE  UnbrokenOK'
  <2>1. /\ UNCHANGED <<file, acked, short>>
        /\ logged' = [logged EXCEPT ![p] = @ + 1] /\ pc' = [pc EXCEPT ![p] = "writing"]
        /\ rest' = [rest EXCEPT ![p] = Line(Entry(p, logged[p] + 1))]
    BY <1>2 DEF Log, Entry
  <2>2. /\ logged'[p] = logged[p] + 1 /\ pc'[p] = "writing"
        /\ rest'[p] = Line(Entry(p, logged[p] + 1))
        /\ \A q \in Procs : q # p => logged'[q] = logged[q] /\ pc'[q] = pc[q] /\ rest'[q] = rest[q]
    BY <2>1 DEF LogInv, FileOK, WritingOK
  <2>3. QED
    BY <2>1, <2>2 DEF UnbrokenOK
<1>3. ASSUME NEW p \in Procs,
             \/ Open(p) \/ WriteFails(p) \/ SyncFails(p) \/ Close(p) \/ Kill(p)
      PROVE  UnbrokenOK'
  <2>1. /\ UNCHANGED <<file, logged, acked, short>> /\ pc'[p] \in {"off", "open"}
        /\ \A q \in Procs : q # p => pc'[q] = pc[q] /\ rest'[q] = rest[q]
    BY <1>3 DEF LogInv, WritingOK, Open, WriteFails, SyncFails, Close, Kill
  <2>2. QED
    BY <2>1 DEF UnbrokenOK
<1>4. QED
  BY <1>1, <1>2, <1>3, WriteUnbroken, WriteShortUnbroken, SyncUnbroken, CrashUnbroken DEF Next

\* A completed entry stands in a line of its own unless its own write was short, or it
\* follows a fragment of an entry that was not completed whole: no fault spoils a line
\* that is already there, nor any but the next one.
THEOREM DamageBoundedCorrect == Spec => []DamageBounded
<1>1. LogInv /\ UnbrokenOK => DamageBounded
  <2> SUFFICES ASSUME LogInv, UnbrokenOK, NEW e \in acked, e \notin short
               PROVE  \/ OwnLine(e)
                      \/ \E i \in Places(e) : i > 1 /\ ~file[i - 1].end
                                              /\ file[i - 1].entry \notin (acked \ short)
    BY DEF DamageBounded
  <2>1. \A f : Places(f) = PlacesIn(file, f)
    BY PlacesAre DEF LogInv
  <2>2. PICK i \in 1..Len(file) : /\ i + 1 \in 1..Len(file) /\ PlacesIn(file, e) = {i, i + 1}
                                  /\ ~file[i].end /\ file[i + 1].end
    BY DEF UnbrokenOK, Whole
  <2>3. file \in Seq(PieceType) /\ DOMAIN file = 1..Len(file) /\ Len(file) \in Nat
    BY DEF LogInv, FileOK
  <2>4. CASE i = 1 \/ file[i - 1].end
    <3>1. i < Len(file) /\ i \in DOMAIN file
      BY <2>2, <2>3
    <3>2. Places(e) = {i, i + 1}
      BY <2>1, <2>2
    <3>3. OwnLine(e)
      BY <2>2, <2>4, <3>1, <3>2 DEF OwnLine
    <3>4. QED
      BY <3>3
  <2>5. CASE i > 1 /\ ~file[i - 1].end
    <3> DEFINE f == file[i - 1].entry
    <3>1. i - 1 \in 1..Len(file)
      BY <2>2, <2>3, <2>5
    <3>2. f # e
      BY <2>2, <3>1 DEF PlacesIn
    <3>3. ASSUME f \in acked \ short
          PROVE  FALSE
      <4>1. PICK k \in 1..Len(file) : /\ k + 1 \in 1..Len(file) /\ PlacesIn(file, f) = {k, k + 1}
                                      /\ ~file[k].end /\ file[k + 1].end
        BY <3>3 DEF UnbrokenOK, Whole
      <4>2. i - 1 = k \/ i - 1 = k + 1
        BY <3>1, <4>1 DEF PlacesIn
      <4>3. i = k + 1
        BY <2>3, <2>5, <4>1, <4>2
      <4>4. file[i].entry = f /\ file[i].entry = e
        BY <2>2, <4>1, <4>3 DEF PlacesIn
      <4>5. QED
        BY <3>2, <4>4
    <3>4. QED
      BY <2>1, <2>2, <2>5, <3>3
  <2>6. QED
    BY <2>2, <2>3, <2>4, <2>5
<1>2. QED
  BY <1>1, LogInit, LogNext, UnbrokenInit, UnbrokenNext, PTL DEF Spec
==============================================================================
