---------------------------- MODULE MonitorProofs ----------------------------
(***************************************************************************)
(* Proofs about a run and its shutdown, for every threshold, capacity of the *)
(* channel of events, number of probes, signals and keys.                    *)
(***************************************************************************)
EXTENDS Monitor, SequenceTheorems, TLAPS

------------------------------------------------------------------------------
(* Sequences, whatever they are made of *)

IsSeq(s) == \E S : s \in Seq(S)

LEMMA EmptyIsSeq == IsSeq(<<>>) /\ Len(<<>>) = 0
<1>1. <<>> \in Seq({}) /\ Len(<<>>) = 0
  BY EmptySeq
<1>2. QED
  BY <1>1 DEF IsSeq

LEMMA LenOfSeq ==
  ASSUME NEW s, IsSeq(s)
  PROVE  Len(s) \in Nat /\ (s = <<>> <=> Len(s) = 0)
<1>1. PICK S : s \in Seq(S)
  BY DEF IsSeq
<1>2. Len(s) \in Nat
  BY <1>1
<1>3. s # <<>> => Len(s) # 0
  BY <1>1, EmptySeq
<1>4. QED
  BY <1>2, <1>3, EmptyIsSeq

LEMMA AppendIsSeq ==
  ASSUME NEW s, IsSeq(s), NEW x
  PROVE  /\ IsSeq(Append(s, x)) /\ Len(Append(s, x)) = Len(s) + 1
         /\ Append(s, x)[Len(s) + 1] = x
         /\ \A i \in 1..Len(s) : Append(s, x)[i] = s[i]
<1>1. PICK S : s \in Seq(S)
  BY DEF IsSeq
<1>2. s \in Seq(S \cup {x}) /\ x \in S \cup {x}
  BY <1>1, SeqMonotonic
<1>3. Append(s, x) \in Seq(S \cup {x})
  BY <1>2
<1>4. Len(Append(s, x)) = Len(s) + 1 /\ Append(s, x)[Len(s) + 1] = x
      /\ \A i \in 1..Len(s) : Append(s, x)[i] = s[i]
  BY <1>2
<1>5. QED
  BY <1>3, <1>4 DEF IsSeq

LEMMA TailIsSeq ==
  ASSUME NEW s, IsSeq(s), s # <<>>
  PROVE  /\ IsSeq(Tail(s)) /\ Len(Tail(s)) = Len(s) - 1 /\ Len(s) \in Nat \ {0}
         /\ Head(s) = s[1]
         /\ \A i \in 1..Len(Tail(s)) : Tail(s)[i] = s[i + 1]
<1>1. PICK S : s \in Seq(S)
  BY DEF IsSeq
<1>2. Tail(s) \in Seq(S) /\ Len(Tail(s)) = Len(s) - 1
      /\ \A i \in 1..Len(Tail(s)) : Tail(s)[i] = s[i + 1]
  BY <1>1, HeadTailProperties
<1>3. Len(s) \in Nat \ {0} /\ Head(s) = s[1]
  BY <1>1, EmptySeq
<1>4. QED
  BY <1>2, <1>3 DEF IsSeq

\* Appending and taking the head do not disturb each other.
LEMMA TailOfAppend ==
  ASSUME NEW s, IsSeq(s), s # <<>>, NEW x
  PROVE  Tail(Append(s, x)) = Append(Tail(s), x) /\ Head(Append(s, x)) = Head(s)
<1>1. PICK S : s \in Seq(S)
  BY DEF IsSeq
<1>2. s \in Seq(S \cup {x}) /\ x \in S \cup {x}
  BY <1>1, SeqMonotonic
<1>3. QED
  BY <1>2, HeadTailAppend

------------------------------------------------------------------------------
(* The engine *)

\* What a step of the engine tells in its event.
Flips(e) == e.kind \in {"statusChange", "error"}

LEMMA StepTells ==
  ASSUME NEW res, E!Step(res)
  PROVE  /\ totalProbes' = totalProbes + 1
         /\ ev'.prevStatus = status /\ ev'.status = status' /\ ev'.err = res.err
         /\ ev'.time = now
         /\ Flips(ev') => /\ status' # status /\ start' = now
                          /\ ev'.duration = now - E!Anchor
         /\ ~Flips(ev') => status' = status /\ start' = E!Anchor
         /\ status' \in {status, "up", "down", "error"}
<1>1. CASE E!StepUp(res)
  BY <1>1 DEF E!StepUp, E!Emit, E!Transition, E!FlipsUp, Flips
<1>2. CASE E!StepDown(res)
  BY <1>2 DEF E!StepDown, E!Emit, E!Transition, E!FlipsDown, Flips
<1>3. CASE E!StepError(res)
  BY <1>3 DEF E!StepError, E!Emit, E!Transition, E!FlipsError, Flips
<1>4. QED
  BY <1>1, <1>2, <1>3 DEF E!Step

------------------------------------------------------------------------------
(* Keys *)

\* A key on its way to Main is one the user pressed when the reader would take
\* it, or the end of a raw stdin; once the reader has handed one over it takes
\* no other.
Taken(a) == {"eof"} \cup (a \cap {"q", "ctrlC"})

KeyInv ==
  /\ IsSeq(typed)
  /\ keyCh = <<>> \/ \E k \in Taken(asked) : keyCh = <<k>>
  /\ reader = "reading" => keyCh = <<>>
  /\ reader = "reading" /\ typed # <<>> => Head(typed) \in Taken(asked)

LEMMA SingletonSeq ==
  ASSUME NEW x
  PROVE  /\ <<x>> # <<>> /\ Head(<<x>>) = x /\ Tail(<<x>>) = <<>>
         /\ Append(<<>>, x) = <<x>>
  OBVIOUS

LEMMA TakenGrows ==
  ASSUME NEW a, NEW b, a \subseteq b
  PROVE  Taken(a) \subseteq Taken(b)
  BY DEF Taken

\* What is asked for stays asked for.
LEMMA AskedGrows ==
  ASSUME [Next]_vars
  PROVE  asked \subseteq asked'
<1>1. CASE Run
  BY <1>1 DEF Run, ProbeReturns, StepResult, DropResult, Send, IntervalPasses, WaitCancelled
<1>2. CASE Main
  BY <1>2 DEF Main, HandleEvent, TakeSignal, TakeKey, KeysClosed, Shutdown
<1>3. CASE Reader \/ User \/ ClockTick
  BY <1>3 DEF Reader, ReadKey, RestoreTerminal, User, Signal, PressKey, ClockTick
<1>4. CASE UNCHANGED vars
  BY <1>4 DEF vars
<1>5. QED
  BY <1>1, <1>2, <1>3, <1>4 DEF Next

LEMMA KeysInductive ==
  ASSUME KeyInv, [Next]_vars
  PROVE  KeyInv'
<1>1. Taken(asked) \subseteq Taken(asked')
  BY AskedGrows, TakenGrows
<1>2. CASE TakeKey
  <2>1. keyCh' = <<>> /\ UNCHANGED <<typed, reader, asked>>
    BY <1>2, SingletonSeq DEF KeyInv, TakeKey
  <2>2. QED
    BY <2>1 DEF KeyInv, IsSeq
<1>3. CASE ReadKey
  <2>1. \E k \in Taken(asked) : keyCh' = <<k>>
    BY <1>3, SingletonSeq DEF KeyInv, ReadKey
  <2>2. IsSeq(typed')
    BY <1>3, TailIsSeq DEF KeyInv, ReadKey
  <2>3. reader' # "reading" /\ asked' = asked
    BY <1>3 DEF ReadKey
  <2>4. QED
    BY <2>1, <2>2, <2>3 DEF KeyInv
<1>4. ASSUME NEW k \in {"q", "ctrlC", "eof"}, PressKey(k)
      PROVE  KeyInv'
  <2>1. typed' = Append(typed, k) /\ UNCHANGED <<keyCh, reader>>
    BY <1>4 DEF PressKey
  <2>2. IsSeq(typed')
    BY <2>1, AppendIsSeq DEF KeyInv
  <2>3. ASSUME reader = "reading"
        PROVE  Head(typed') \in Taken(asked')
    <3>1. CASE typed = <<>>
      <4>1. k \in Taken(asked')
        BY <1>4, <2>3, <3>1 DEF PressKey, Taken
      <4>2. QED
        BY <2>1, <3>1, <4>1, SingletonSeq
    <3>2. CASE typed # <<>>
      BY <1>1, <2>1, <2>3, <3>2, TailOfAppend DEF KeyInv
    <3>3. QED
      BY <3>1, <3>2
  <2>4. QED
    BY <1>1, <2>1, <2>2, <2>3 DEF KeyInv
<1>5. ASSUME UNCHANGED <<typed, keyCh>>, reader' = "reading" => reader = "reading"
      PROVE  KeyInv'
  BY <1>1, <1>5 DEF KeyInv, IsSeq
<1>6. CASE Run
  BY <1>5, <1>6 DEF Run, ProbeReturns, StepResult, DropResult, Send, IntervalPasses, WaitCancelled,
     keyVars
<1>7. CASE HandleEvent \/ TakeSignal \/ KeysClosed \/ Shutdown
  BY <1>5, <1>7 DEF HandleEvent, TakeSignal, KeysClosed, Shutdown, keyVars
<1>8. CASE RestoreTerminal \/ ClockTick \/ \E sig : Signal(sig)
  BY <1>5, <1>8 DEF RestoreTerminal, ClockTick, Signal, keyVars
<1>9. CASE UNCHANGED vars
  BY <1>5, <1>9 DEF vars, keyVars
<1>10. QED
  BY <1>2, <1>3, <1>4, <1>6, <1>7, <1>8, <1>9 DEF Next, Main, Reader, User

LEMMA KeysStart == Init => KeyInv
  BY EmptyIsSeq DEF Init, KeyInv

\* So Main's switch over the keys always has a case.
LEMMA KeyHasCase ==
  ASSUME KeyInv, TakeKey
  PROVE  \/ "q" \in asked /\ Stop("quit")
         \/ "ctrlC" \in asked /\ Stop("interrupt")
         \/ UNCHANGED <<cancelled, reason>>
<1>1. PICK k \in Taken(asked) : keyCh = <<k>>
  BY DEF KeyInv, TakeKey
<1>2. Head(keyCh) = k
  BY <1>1, SingletonSeq
<1>3. k = "eof" \/ (k = "q" /\ "q" \in asked) \/ (k = "ctrlC" /\ "ctrlC" \in asked)
  BY DEF Taken
<1>4. QED
  BY <1>2, <1>3 DEF TakeKey

------------------------------------------------------------------------------
(* --count *)

\* The probes made and those left add up to --count, with the one whose event
\* is being sent made but not yet counted down; Run goes on while any is left.
Sending == IF runPc = "sending" THEN 1 ELSE 0

CountInv ==
  /\ runPc \in {"probing", "stepping", "sending", "waiting", "closed"}
  /\ count \in Nat /\ left \in Nat /\ totalProbes \in Nat
  /\ count = 0 => left = 0
  /\ count > 0 => totalProbes + left = count + Sending
  /\ count > 0 /\ runPc # "closed" => left >= 1
  /\ count > 0 /\ runPc = "closed" /\ ~cancelled => left = 0
  /\ ~Running => runPc = "closed"

\* What the other steps leave of it.
CountKept ==
  /\ UNCHANGED <<runPc, left, count, totalProbes>>
  /\ cancelled => cancelled'
  /\ exit' = exit \/ runPc = "closed"

LEMMA StepKeepsCount ==
  ASSUME KeyInv, Next
  PROVE  \/ \E res : StepResult(res)
         \/ ProbeReturns \/ DropResult \/ Send \/ IntervalPasses \/ WaitCancelled
         \/ CountKept
<1>1. CASE Run
  BY <1>1 DEF Run
<1>2. CASE Main
  <2>1. CASE HandleEvent
    BY <2>1 DEF HandleEvent, Stop, CountKept, engineVars, runVars, stopVars
  <2>2. CASE TakeSignal
    BY <2>2 DEF TakeSignal, Stop, CountKept, engineVars, runVars
  <2>3. CASE TakeKey
    <3>1. UNCHANGED <<runPc, left, count, totalProbes, exit>>
      BY <2>3 DEF TakeKey, engineVars, runVars
    <3>2. cancelled => cancelled'
      BY <2>3, KeyHasCase DEF Stop
    <3>3. QED
      BY <3>1, <3>2 DEF CountKept
  <2>4. CASE KeysClosed
    BY <2>4 DEF KeysClosed, CountKept, engineVars, runVars, stopVars
  <2>5. CASE Shutdown
    BY <2>5 DEF Shutdown, Drained, CountKept, engineVars, runVars, stopVars
  <2>6. QED
    BY <1>2, <2>1, <2>2, <2>3, <2>4, <2>5 DEF Main
<1>3. CASE Reader
  BY <1>3 DEF Reader, ReadKey, RestoreTerminal, CountKept, engineVars, runVars, stopVars
<1>4. CASE User
  BY <1>4 DEF User, Signal, PressKey, CountKept, engineVars, runVars, stopVars
<1>5. CASE ClockTick
  BY <1>5 DEF ClockTick, CountKept, engineVars, runVars, stopVars
<1>6. QED
  BY <1>1, <1>2, <1>3, <1>4, <1>5 DEF Next

LEMMA CountInductive ==
  ASSUME KeyInv, CountInv, [Next]_vars
  PROVE  CountInv'
<1>1. ASSUME NEW res, StepResult(res)
      PROVE  CountInv'
  <2>1. totalProbes' = totalProbes + 1
    BY <1>1, StepTells DEF StepResult
  <2>2. QED
    BY <1>1, <2>1 DEF CountInv, Sending, StepResult, Running, stopVars
<1>2. CASE ProbeReturns \/ DropResult
  BY <1>2 DEF CountInv, Sending, ProbeReturns, DropResult, Running, stopVars, engineVars
<1>3. CASE Send
  BY <1>3 DEF CountInv, Sending, Send, CountDown, Last, Running, stopVars, engineVars
<1>4. CASE IntervalPasses
  BY <1>4 DEF CountInv, Sending, IntervalPasses, Running, stopVars, engineVars
<1>5. CASE WaitCancelled
  BY <1>5 DEF CountInv, Sending, WaitCancelled, Running, stopVars, engineVars
<1>6. CASE CountKept
  BY <1>6 DEF CountInv, Sending, CountKept, Running
<1>7. CASE UNCHANGED vars
  BY <1>7 DEF CountInv, Sending, vars, runVars, stopVars, engineVars, Running
<1>8. QED
  BY <1>1, <1>2, <1>3, <1>4, <1>5, <1>6, <1>7, StepKeepsCount

LEMMA CountStarts == Init => CountInv
<1>1. SUFFICES ASSUME Init
               PROVE  CountInv
  OBVIOUS
<1>2. count \in Counts /\ left = count /\ runPc = "probing" /\ exit = NotYet
  BY <1>1, Zenon DEF Init
<1>3. totalProbes = 0
  BY <1>1, Zenon DEF Init, E!Init
<1>4. count \in Nat
  BY <1>2, MonitorAssumption
<1>5. QED
  BY <1>2, <1>3, <1>4 DEF CountInv, Sending, Running

\* --count N: there are never more than N probes, and a run that ends without
\* having been cancelled has had all N, for every N (run.go:15-36).
THEOREM CountHonouredCorrect == Spec => []CountHonoured
<1>1. CountInv => CountHonoured
  BY DEF CountInv, CountHonoured, Sending
<1>2. QED
  BY <1>1, CountStarts, KeysStart, KeysInductive, CountInductive, PTL DEF Spec

------------------------------------------------------------------------------
(* Why a run ends *)

\* A signal on its way was sent.
SigInv == sigCh = <<>> \/ \E sig \in asked \cap {"SIGINT", "SIGTERM"} : sigCh = <<sig>>

LEMMA SignalsInductive ==
  ASSUME SigInv, [Next]_vars
  PROVE  SigInv'
<1>1. asked \subseteq asked'
  BY AskedGrows
<1>2. CASE TakeSignal
  <2>1. sigCh' = <<>>
    BY <1>2, SingletonSeq DEF SigInv, TakeSignal
  <2>2. QED
    BY <2>1 DEF SigInv
<1>3. ASSUME NEW sig \in {"SIGINT", "SIGTERM"}, Signal(sig)
      PROVE  SigInv'
  <2>1. sig \in asked' /\ (sigCh' = <<sig>> \/ sigCh' = sigCh)
    BY <1>3 DEF Signal
  <2>2. QED
    BY <1>1, <2>1 DEF SigInv
<1>4. ASSUME sigCh' = sigCh
      PROVE  SigInv'
  BY <1>1, <1>4 DEF SigInv
<1>5. CASE Run
  BY <1>4, <1>5 DEF Run, ProbeReturns, StepResult, DropResult, Send, IntervalPasses, WaitCancelled
<1>6. CASE HandleEvent \/ TakeKey \/ KeysClosed \/ Shutdown
  BY <1>4, <1>6 DEF HandleEvent, TakeKey, KeysClosed, Shutdown
<1>7. CASE Reader \/ ClockTick \/ \E k : PressKey(k)
  BY <1>4, <1>7 DEF Reader, ReadKey, RestoreTerminal, ClockTick, PressKey
<1>8. CASE UNCHANGED vars
  BY <1>4, <1>8 DEF vars
<1>9. QED
  BY <1>2, <1>3, <1>5, <1>6, <1>7, <1>8 DEF Next, Main, User

\* An event on its way that reports a permission error was caused by one.
Denied(e) == IsPermissionError(e.err)

ErrInv ==
  /\ IsSeq(events)
  /\ \A i \in 1..Len(events) : Denied(events[i]) => "permission" \in asked
  /\ runPc = "sending" /\ Denied(ev) => "permission" \in asked

LEMMA ErrorsInductive ==
  ASSUME ErrInv, [Next]_vars
  PROVE  ErrInv'
<1>1. asked \subseteq asked'
  BY AskedGrows
<1>2. Len(events) \in Nat
  BY LenOfSeq DEF ErrInv
<1>3. ASSUME NEW res, StepResult(res)
      PROVE  ErrInv'
  <2>1. ev'.err = res.err /\ events' = events
    BY <1>3, StepTells DEF StepResult
  <2>2. Denied(ev)' => "permission" \in asked'
    BY <1>3, <2>1 DEF StepResult, Denied, IsPermissionError
  <2>3. QED
    BY <1>1, <2>1, <2>2 DEF ErrInv
<1>4. CASE Send
  <2>1. events' = Append(events, ev) /\ runPc' # "sending" /\ runPc = "sending"
    BY <1>4 DEF Send, Forward
  <2>2. IsSeq(events') /\ Len(events') = Len(events) + 1
        /\ events'[Len(events) + 1] = ev
        /\ \A i \in 1..Len(events) : events'[i] = events[i]
    BY <2>1, AppendIsSeq DEF ErrInv
  <2>3. ASSUME NEW i \in 1..Len(events'), Denied(events'[i])
        PROVE  "permission" \in asked'
    BY <1>1, <1>2, <2>1, <2>2, <2>3 DEF ErrInv
  <2>4. QED
    BY <2>1, <2>2, <2>3 DEF ErrInv
<1>5. CASE HandleEvent
  <2>1. events # <<>> /\ events' = Tail(events) /\ runPc' = runPc /\ ev' = ev
    BY <1>5 DEF HandleEvent, engineVars, runVars
  <2>2. IsSeq(events') /\ Len(events') = Len(events) - 1
        /\ \A i \in 1..Len(events') : events'[i] = events[i + 1]
    BY <2>1, TailIsSeq DEF ErrInv
  <2>3. ASSUME NEW i \in 1..Len(events'), Denied(events'[i])
        PROVE  "permission" \in asked'
    <3>1. i + 1 \in 1..Len(events)
      BY <1>2, <2>2
    <3>2. QED
      BY <1>1, <2>2, <2>3, <3>1 DEF ErrInv
  <2>4. QED
    BY <1>1, <2>1, <2>2, <2>3 DEF ErrInv
<1>6. ASSUME events' = events, runPc' = "sending" => runPc = "sending" /\ ev' = ev
      PROVE  ErrInv'
  BY <1>1, <1>6 DEF ErrInv
<1>7. CASE ProbeReturns \/ DropResult \/ IntervalPasses \/ WaitCancelled
  BY <1>6, <1>7 DEF ProbeReturns, DropResult, IntervalPasses, WaitCancelled
<1>8. CASE TakeSignal \/ TakeKey \/ KeysClosed \/ Shutdown
  BY <1>6, <1>8 DEF TakeSignal, TakeKey, KeysClosed, Shutdown, engineVars, runVars
<1>9. CASE Reader \/ User \/ ClockTick
  BY <1>6, <1>9 DEF Reader, ReadKey, RestoreTerminal, User, Signal, PressKey, ClockTick,
     engineVars, runVars
<1>10. CASE UNCHANGED vars
  BY <1>6, <1>10 DEF vars, engineVars, runVars
<1>11. QED
  BY <1>3, <1>4, <1>5, <1>7, <1>8, <1>9, <1>10 DEF Next, Run, Main

\* The reason Main notes was asked for, and until it notes one Run leaves only
\* at the end of the count.
Because(why, a) ==
  /\ why \in {"count", "quit", "interrupt", "term", "perm"}
  /\ why = "quit" => "q" \in a
  /\ why = "interrupt" => "SIGINT" \in a \/ "ctrlC" \in a
  /\ why = "term" => "SIGTERM" \in a
  /\ why = "perm" => "permission" \in a

StopInv ==
  /\ Because(reason, asked)
  /\ reason = "count" => ~cancelled
  /\ runPc = "closed" /\ ~cancelled => "count" \in asked

LEMMA BecauseLater ==
  ASSUME NEW why, NEW a, NEW b, Because(why, a), a \subseteq b
  PROVE  Because(why, b)
  BY DEF Because

LEMMA StopInductive ==
  ASSUME StopInv, KeyInv, SigInv, ErrInv, [Next]_vars
  PROVE  StopInv'
<1>1. asked \subseteq asked'
  BY AskedGrows
<1>2. ASSUME NEW why, why # "count", Because(why, asked), Stop(why)
      PROVE  StopInv'
  <2>1. Because(reason', asked')
    BY <1>1, <1>2, BecauseLater DEF Stop
  <2>2. reason' # "count" /\ cancelled'
    BY <1>2 DEF Stop
  <2>3. QED
    BY <2>1, <2>2 DEF StopInv
<1>3. ASSUME UNCHANGED <<cancelled, reason>>,
             runPc' = "closed" => runPc = "closed" \/ cancelled \/ "count" \in asked'
      PROVE  StopInv'
  <2>1. Because(reason', asked')
    BY <1>1, <1>3, BecauseLater DEF StopInv
  <2>2. QED
    BY <1>1, <1>3, <2>1 DEF StopInv
<1>4. CASE HandleEvent
  <2>1. PICK e : e = Head(events)
    OBVIOUS
  <2>2. CASE e.kind \in {"error", "probeError"} /\ Denied(e)
    <3>1. Stop("perm")
      BY <1>4, <2>1, <2>2 DEF HandleEvent, Denied
    <3>2. "permission" \in asked
      <4>1. events # <<>> /\ IsSeq(events)
        BY <1>4 DEF HandleEvent, ErrInv
      <4>2. Len(events) \in Nat \ {0} /\ e = events[1]
        BY <2>1, <4>1, TailIsSeq
      <4>3. QED
        BY <2>2, <4>2 DEF ErrInv
    <3>3. QED
      BY <1>2, <3>1, <3>2 DEF Because
  <2>3. CASE ~(e.kind \in {"error", "probeError"} /\ Denied(e))
    BY <1>3, <1>4, <2>1, <2>3 DEF HandleEvent, Denied, stopVars, runVars
  <2>4. QED
    BY <2>2, <2>3
<1>5. CASE TakeSignal
  <2>1. PICK sig \in asked \cap {"SIGINT", "SIGTERM"} : Head(sigCh) = sig
    BY <1>5, SingletonSeq DEF TakeSignal, SigInv
  <2>2. CASE sig = "SIGTERM"
    <3>1. Stop("term")
      BY <1>5, <2>1, <2>2 DEF TakeSignal
    <3>2. QED
      BY <1>2, <2>1, <2>2, <3>1 DEF Because
  <2>3. CASE sig = "SIGINT"
    <3>1. Stop("interrupt")
      BY <1>5, <2>1, <2>3 DEF TakeSignal
    <3>2. QED
      BY <1>2, <2>1, <2>3, <3>1 DEF Because
  <2>4. QED
    BY <2>1, <2>2, <2>3
<1>6. CASE TakeKey
  <2>1. CASE "q" \in asked /\ Stop("quit")
    BY <1>2, <2>1 DEF Because
  <2>2. CASE "ctrlC" \in asked /\ Stop("interrupt")
    BY <1>2, <2>2 DEF Because
  <2>3. CASE UNCHANGED <<cancelled, reason>>
    BY <1>3, <1>6, <2>3 DEF TakeKey, runVars
  <2>4. QED
    BY <1>6, <2>1, <2>2, <2>3, KeyHasCase
<1>7. CASE Run
  BY <1>3, <1>7 DEF Run, ProbeReturns, StepResult, DropResult, Send, IntervalPasses, WaitCancelled,
     stopVars
<1>8. CASE KeysClosed \/ Shutdown
  BY <1>3, <1>8 DEF KeysClosed, Shutdown, stopVars, runVars
<1>9. CASE Reader \/ User \/ ClockTick
  BY <1>3, <1>9 DEF Reader, ReadKey, RestoreTerminal, User, Signal, PressKey, ClockTick,
     stopVars, runVars
<1>10. CASE UNCHANGED vars
  BY <1>3, <1>10 DEF vars, stopVars, runVars
<1>11. QED
  BY <1>4, <1>5, <1>6, <1>7, <1>8, <1>9, <1>10 DEF Next, Main

\* ExitHasCause, code by code.
CodeOK(code, a) ==
  \/ code = NotYet
  \/ code = 130 /\ a \cap {"SIGINT", "ctrlC"} # {}
  \/ code = 143 /\ "SIGTERM" \in a
  \/ code = 3 /\ "permission" \in a
  \/ code = 0 /\ a \cap {"q", "count"} # {}

ExitInv == CodeOK(exit, asked)

LEMMA CodeOfReason ==
  ASSUME NEW why, NEW a, Because(why, a), why = "count" => "count" \in a
  PROVE  CodeOK(ExitCode(why), a)
<1>1. CASE why = "interrupt"
  BY <1>1 DEF Because, CodeOK, ExitCode
<1>2. CASE why = "term"
  BY <1>2 DEF Because, CodeOK, ExitCode
<1>3. CASE why = "perm"
  BY <1>3 DEF Because, CodeOK, ExitCode
<1>4. CASE why \in {"quit", "count"}
  <2>1. ExitCode(why) = 0
    BY <1>4 DEF ExitCode
  <2>2. a \cap {"q", "count"} # {}
    BY <1>4 DEF Because
  <2>3. QED
    BY <2>1, <2>2 DEF CodeOK
<1>5. QED
  BY <1>1, <1>2, <1>3, <1>4 DEF Because

LEMMA CodeMeansCause == ExitInv => ExitHasCause
<1>1. CASE exit = NotYet
  BY <1>1 DEF ExitHasCause, NotYet
<1>2. CASE exit = 130 /\ asked \cap {"SIGINT", "ctrlC"} # {}
  BY <1>2 DEF ExitHasCause, NotYet
<1>3. CASE exit = 143 /\ "SIGTERM" \in asked
  BY <1>3 DEF ExitHasCause, NotYet
<1>4. CASE exit = 3 /\ "permission" \in asked
  BY <1>4 DEF ExitHasCause, NotYet
<1>5. CASE exit = 0 /\ asked \cap {"q", "count"} # {}
  BY <1>5 DEF ExitHasCause, NotYet
<1>6. QED
  BY <1>1, <1>2, <1>3, <1>4, <1>5 DEF ExitInv, CodeOK

LEMMA ExitInductive ==
  ASSUME ExitInv, StopInv, [Next]_vars
  PROVE  ExitInv'
<1>1. asked \subseteq asked'
  BY AskedGrows
<1>2. CASE Shutdown
  <2>1. Because(reason, asked) /\ (reason = "count" => "count" \in asked)
    BY <1>2 DEF StopInv, Shutdown, Drained
  <2>2. exit' = ExitCode(reason) /\ asked' = asked
    BY <1>2 DEF Shutdown
  <2>3. QED
    BY <2>1, <2>2, CodeOfReason DEF ExitInv
<1>3. ASSUME exit' = exit
      PROVE  ExitInv'
  BY <1>1, <1>3 DEF ExitInv, CodeOK
<1>4. CASE Run
  BY <1>3, <1>4 DEF Run, ProbeReturns, StepResult, DropResult, Send, IntervalPasses, WaitCancelled
<1>5. CASE HandleEvent \/ TakeSignal \/ TakeKey \/ KeysClosed
  BY <1>3, <1>5 DEF HandleEvent, TakeSignal, TakeKey, KeysClosed
<1>6. CASE Reader \/ User \/ ClockTick
  BY <1>3, <1>6 DEF Reader, ReadKey, RestoreTerminal, User, Signal, PressKey, ClockTick
<1>7. CASE UNCHANGED vars
  BY <1>3, <1>7 DEF vars
<1>8. QED
  BY <1>2, <1>4, <1>5, <1>6, <1>7 DEF Next, Main

\* Whatever signals, keys, permission errors and ends of the count coincide, and
\* however long they wait in their channels, the exit code of a run names one
\* that did happen (app.go:28-66, 242-308).
THEOREM ExitHasCauseCorrect == Spec => []ExitHasCause
<1>1. Init => SigInv /\ ErrInv
  <2>1. Init => IsSeq(events) /\ Len(events) = 0 /\ sigCh = <<>> /\ runPc # "sending"
    BY EmptyIsSeq DEF Init
  <2>2. QED
    BY <2>1 DEF SigInv, ErrInv
<1>2. Init => StopInv /\ ExitInv
  BY DEF Init, StopInv, ExitInv, CodeOK, Because
<1>3. QED
  BY <1>1, <1>2, CodeMeansCause, KeysStart, KeysInductive, SignalsInductive, ErrorsInductive,
     StopInductive, ExitInductive, PTL DEF Spec

------------------------------------------------------------------------------
(* Events on their way *)

LEMMA ConcatOne ==
  ASSUME NEW s, IsSeq(s)
  PROVE  s \o <<>> = s /\ \A x : s \o <<x>> = Append(s, x)
<1>1. PICK S : s \in Seq(S)
  BY DEF IsSeq
<1>2. s \o <<>> = s
  BY <1>1
<1>3. ASSUME NEW x
      PROVE  s \o <<x>> = Append(s, x)
  <2>1. s \in Seq(S \cup {x}) /\ x \in S \cup {x}
    BY <1>1, SeqMonotonic
  <2>2. QED
    BY <2>1
<1>4. QED
  BY <1>2, <1>3

LEMMA PendingIs ==
  ASSUME IsSeq(events)
  PROVE  /\ IsSeq(Pending)
         /\ runPc = "sending" => Pending = Append(events, ev)
         /\ runPc # "sending" => Pending = events
<1>1. CASE runPc = "sending"
  <2>1. Pending = events \o <<ev>>
    BY <1>1 DEF Pending
  <2>2. Pending = Append(events, ev)
    BY <2>1, ConcatOne
  <2>3. QED
    BY <1>1, <2>2, AppendIsSeq
<1>2. CASE runPc # "sending"
  <2>1. Pending = events \o <<>>
    BY <1>2 DEF Pending
  <2>2. Pending = events
    BY <2>1, ConcatOne
  <2>3. QED
    BY <1>2, <2>2
<1>3. QED
  BY <1>1, <1>2

\* A step puts an event at one end of the queue, takes one from the other, or
\* moves one inside it.
Grows == /\ Running /\ \E res : E!Step(res)
         /\ Pending' = Append(Pending, ev')
         /\ UNCHANGED <<handled, shown, log, now, exit>>

Shrinks == /\ HandleEvent
           /\ Pending # <<>> /\ Head(Pending) = Head(events)
           /\ Pending' = Tail(Pending)

Stays == /\ Running
         /\ Pending' = Pending
         /\ UNCHANGED <<status, start, totalProbes, handled, shown>>
         /\ now' \in {now, now + 1}

LEMMA PendingSteps ==
  ASSUME IsSeq(events), [Next]_vars
  PROVE  \/ Grows
         \/ Shrinks
         \/ Stays /\ (Shutdown \/ UNCHANGED <<log, exit>>)
         \/ UNCHANGED vars
<1>1. ASSUME NEW res, StepResult(res)
      PROVE  Grows
  <2>1. Pending = events
    BY <1>1, PendingIs DEF StepResult
  <2>2. events' = events /\ runPc' = "sending"
    BY <1>1 DEF StepResult
  <2>3. Pending' = Append(Pending, ev')
    BY <2>1, <2>2, ConcatOne DEF Pending
  <2>4. QED
    BY <1>1, <2>3 DEF StepResult, Grows, shownVars
<1>2. ASSUME Running, UNCHANGED <<engineVars, handled, shown, now>>, Pending' = Pending
      PROVE  Stays
  BY <1>2 DEF Stays, engineVars
<1>3. CASE Send
  <2>1. Pending = Append(events, ev) /\ events' = Append(events, ev) /\ runPc' # "sending"
    BY <1>3, PendingIs DEF Send, Forward
  <2>2. IsSeq(events')
    BY <2>1, AppendIsSeq
  <2>3. Pending' = Pending
    BY <2>1, <2>2, ConcatOne DEF Pending
  <2>4. QED
    BY <1>2, <1>3, <2>3 DEF Send, shownVars
<1>4. CASE HandleEvent
  <2>1. events # <<>> /\ events' = Tail(events) /\ UNCHANGED <<ev, runPc>>
    BY <1>4 DEF HandleEvent, engineVars, runVars
  <2>2. IsSeq(Tail(events))
    BY <2>1, TailIsSeq
  <2>3. CASE runPc = "sending"
    <3>1. Pending = Append(events, ev)
      BY <2>3, PendingIs
    <3>2. Pending' = Append(Tail(events), ev)
      BY <2>1, <2>2, <2>3, ConcatOne DEF Pending
    <3>3. Tail(Pending) = Pending' /\ Head(Pending) = Head(events)
      BY <2>1, <3>1, <3>2, TailOfAppend
    <3>4. Pending # <<>>
      BY <3>1, AppendIsSeq, LenOfSeq, EmptyIsSeq
    <3>5. QED
      BY <1>4, <3>3, <3>4 DEF Shrinks
  <2>4. CASE runPc # "sending"
    <3>1. Pending = events
      BY <2>4, PendingIs
    <3>2. Pending' = Tail(events)
      BY <2>1, <2>2, <2>4, ConcatOne DEF Pending
    <3>3. QED
      BY <1>4, <2>1, <3>1, <3>2 DEF Shrinks
  <2>5. QED
    BY <2>3, <2>4
<1>5. ASSUME UNCHANGED <<events, ev>>,
             runPc' = "sending" <=> runPc = "sending"
      PROVE  Pending' = Pending
  BY <1>5 DEF Pending
<1>6. CASE ProbeReturns \/ DropResult \/ IntervalPasses \/ WaitCancelled
  BY <1>2, <1>5, <1>6 DEF ProbeReturns, DropResult, IntervalPasses, WaitCancelled, engineVars,
     shownVars
<1>7. CASE TakeSignal \/ TakeKey \/ KeysClosed
  BY <1>2, <1>5, <1>7 DEF TakeSignal, TakeKey, KeysClosed, engineVars, runVars, shownVars
<1>8. CASE Shutdown
  BY <1>2, <1>5, <1>8 DEF Shutdown, engineVars, runVars
<1>9. CASE Reader \/ User
  BY <1>2, <1>5, <1>9 DEF Reader, ReadKey, RestoreTerminal, User, Signal, PressKey,
     engineVars, runVars, shownVars
<1>10. CASE ClockTick
  <2>1. Pending' = Pending /\ UNCHANGED <<log, exit>>
    BY <1>5, <1>10 DEF ClockTick, engineVars, runVars, shownVars
  <2>2. QED
    BY <1>10, <2>1 DEF ClockTick, Stays, engineVars, shownVars
<1>11. QED
  BY <1>1, <1>3, <1>4, <1>6, <1>7, <1>8, <1>9, <1>10 DEF Next, Run, Main, Send, shownVars

\* The statuses along a queue of events, from the one before it to the one
\* after it.
Chained(q, from, to) ==
  /\ \A i \in 1..Len(q) : q[i].prevStatus = IF i = 1 THEN from ELSE q[i-1].status
  /\ to = IF q = <<>> THEN from ELSE q[Len(q)].status

LEMMA ChainGrows ==
  ASSUME NEW q, IsSeq(q), NEW a, NEW b, Chained(q, a, b), NEW e, e.prevStatus = b
  PROVE  Chained(Append(q, e), a, e.status)
<1> DEFINE r == Append(q, e)
<1>1. Len(q) \in Nat /\ (q = <<>> <=> Len(q) = 0)
  BY LenOfSeq
<1>2. Len(r) = Len(q) + 1 /\ r[Len(q) + 1] = e /\ \A i \in 1..Len(q) : r[i] = q[i]
  BY AppendIsSeq
<1>3. r # <<>>
  BY <1>1, <1>2, EmptyIsSeq
<1> HIDE DEF r
<1>4. ASSUME NEW i \in 1..Len(r)
      PROVE  r[i].prevStatus = IF i = 1 THEN a ELSE r[i-1].status
  <2>1. CASE i = Len(q) + 1
    BY <1>1, <1>2, <2>1 DEF Chained
  <2>2. CASE i \in 1..Len(q)
    <3>1. i # 1 => i - 1 \in 1..Len(q)
      BY <1>1, <2>2
    <3>2. QED
      BY <1>2, <2>2, <3>1 DEF Chained
  <2>3. QED
    BY <1>1, <1>2, <2>1, <2>2
<1>5. Chained(r, a, e.status)
  BY <1>2, <1>3, <1>4 DEF Chained
<1>6. QED
  BY <1>5 DEF r

LEMMA ChainShrinks ==
  ASSUME NEW q, IsSeq(q), q # <<>>, NEW a, NEW b, Chained(q, a, b)
  PROVE  Chained(Tail(q), Head(q).status, b) /\ Head(q).prevStatus = a
<1> DEFINE r == Tail(q)
<1>1. Len(r) = Len(q) - 1 /\ Len(q) \in Nat \ {0} /\ Head(q) = q[1]
      /\ \A i \in 1..Len(r) : r[i] = q[i + 1]
  BY TailIsSeq
<1>2. r = <<>> <=> Len(r) = 0
  BY TailIsSeq, LenOfSeq
<1> HIDE DEF r
<1>3. Head(q).prevStatus = a
  BY <1>1 DEF Chained
<1>4. ASSUME NEW i \in 1..Len(r)
      PROVE  r[i].prevStatus = IF i = 1 THEN Head(q).status ELSE r[i-1].status
  <2>1. i + 1 \in 1..Len(q) /\ (i + 1) - 1 = i /\ i + 1 # 1
    BY <1>1
  <2>2. r[i].prevStatus = q[i].status
    BY <1>1, <2>1 DEF Chained
  <2>3. i # 1 => i - 1 \in 1..Len(r) /\ (i - 1) + 1 = i
    BY <1>1
  <2>4. QED
    BY <1>1, <2>2, <2>3
<1>5. b = IF r = <<>> THEN Head(q).status ELSE r[Len(r)].status
  <2>1. CASE r = <<>>
    <3>1. Len(q) = 1
      BY <1>1, <1>2, <2>1
    <3>2. b = q[Len(q)].status
      BY DEF Chained
    <3>3. QED
      BY <1>1, <2>1, <3>1, <3>2
  <2>2. CASE r # <<>>
    <3>1. Len(r) \in 1..Len(r) /\ Len(r) + 1 = Len(q)
      BY <1>1, <1>2, <2>2
    <3>2. b = q[Len(q)].status
      BY DEF Chained
    <3>3. QED
      BY <1>1, <2>2, <3>1, <3>2
  <2>3. QED
    BY <2>1, <2>2
<1>6. Chained(r, Head(q).status, b)
  BY <1>4, <1>5 DEF Chained
<1>7. QED
  BY <1>3, <1>6 DEF r

DisplayInv ==
  /\ handled \in Nat
  /\ handled + Len(Pending) = totalProbes
  /\ Chained(Pending, shown, status)

LEMMA DisplayInductive ==
  ASSUME ErrInv, DisplayInv, [Next]_vars
  PROVE  DisplayInv'
<1>1. IsSeq(events) /\ IsSeq(Pending)
  BY PendingIs DEF ErrInv
<1>2. Len(Pending) \in Nat
  BY <1>1, LenOfSeq
<1>3. CASE Grows
  <2>1. PICK res : E!Step(res)
    BY <1>3 DEF Grows
  <2>2. totalProbes' = totalProbes + 1 /\ ev'.prevStatus = status /\ ev'.status = status'
    BY <2>1, StepTells
  <2>3. Pending' = Append(Pending, ev') /\ UNCHANGED <<handled, shown>>
    BY <1>3 DEF Grows
  <2>4. Len(Pending') = Len(Pending) + 1
    BY <1>1, <2>3, AppendIsSeq
  <2>5. Chained(Pending', shown, ev'.status)
    BY <1>1, <2>2, <2>3, ChainGrows DEF DisplayInv
  <2>6. QED
    BY <1>2, <2>2, <2>3, <2>4, <2>5 DEF DisplayInv
<1>4. CASE Shrinks
  <2>1. Pending # <<>> /\ Pending' = Tail(Pending) /\ UNCHANGED <<totalProbes, status>>
        /\ handled' = handled + 1 /\ shown' = Head(Pending).status
    BY <1>4 DEF Shrinks, HandleEvent, engineVars
  <2>2. Len(Pending') = Len(Pending) - 1
    BY <1>1, <2>1, TailIsSeq
  <2>3. Chained(Pending', shown', status')
    BY <1>1, <2>1, ChainShrinks DEF DisplayInv
  <2>4. QED
    BY <1>2, <2>1, <2>2, <2>3 DEF DisplayInv
<1>5. CASE Stays
  BY <1>5 DEF Stays, DisplayInv
<1>6. CASE UNCHANGED vars
  <2>1. Pending' = Pending /\ UNCHANGED <<handled, shown, status, totalProbes>>
    BY <1>6 DEF Pending, vars, engineVars, runVars, shownVars
  <2>2. QED
    BY <2>1 DEF DisplayInv
<1>7. QED
  BY <1>1, <1>3, <1>4, <1>5, <1>6, PendingSteps

LEMMA PendingStart == Init => IsSeq(events) /\ Pending = <<>>
<1>1. Init => IsSeq(events) /\ events = <<>> /\ runPc # "sending"
  BY EmptyIsSeq DEF Init
<1>2. QED
  BY <1>1, PendingIs

\* The display lags behind the engine but never skips an event and never takes
\* one out of order, for every capacity of the channel: what it shows, the
\* events on their way and the engine's status form one chain (app.go:206-237,
\* run.go:24-32).
THEOREM DisplayCatchesUpCorrect == Spec => []DisplayCatchesUp
<1>1. Init => ErrInv
  <2>1. Init => IsSeq(events) /\ Len(events) = 0 /\ runPc # "sending"
    BY EmptyIsSeq DEF Init
  <2>2. QED
    BY <2>1 DEF ErrInv
<1>2. Init => DisplayInv
  <2>1. Init => handled = 0 /\ totalProbes = 0 /\ shown = status
    BY DEF Init, E!Init
  <2>2. QED
    BY <2>1, PendingStart, EmptyIsSeq DEF DisplayInv, Chained
<1>3. DisplayInv => DisplayCatchesUp
  BY DEF DisplayInv, Chained, DisplayCatchesUp
<1>4. QED
  BY <1>1, <1>2, <1>3, ErrorsInductive, DisplayInductive, PTL DEF Spec

------------------------------------------------------------------------------
(* The log *)

Contiguous(l) == \A i \in 2..Len(l) : /\ l[i].time - l[i].duration = l[i-1].time
                                      /\ l[i].status # l[i-1].status

LEMMA LogGrows ==
  ASSUME NEW l, IsSeq(l), Contiguous(l), NEW x,
         l # <<>> => /\ x.time - x.duration = l[Len(l)].time
                     /\ x.status # l[Len(l)].status
  PROVE  /\ IsSeq(Append(l, x)) /\ Contiguous(Append(l, x))
         /\ Append(l, x) # <<>> /\ Append(l, x)[Len(Append(l, x))] = x
<1> DEFINE r == Append(l, x)
<1>1. Len(l) \in Nat /\ (l = <<>> <=> Len(l) = 0)
  BY LenOfSeq
<1>2. IsSeq(r) /\ Len(r) = Len(l) + 1 /\ r[Len(l) + 1] = x
      /\ \A i \in 1..Len(l) : r[i] = l[i]
  BY AppendIsSeq
<1>3. r # <<>>
  BY <1>1, <1>2, EmptyIsSeq
<1> HIDE DEF r
<1>4. ASSUME NEW i \in 2..Len(r)
      PROVE  r[i].time - r[i].duration = r[i-1].time /\ r[i].status # r[i-1].status
  <2>1. i - 1 \in 1..Len(l) /\ r[i-1] = l[i-1]
    BY <1>1, <1>2
  <2>2. CASE i = Len(l) + 1
    <3>1. i - 1 = Len(l) /\ l # <<>> /\ r[i] = x
      BY <1>1, <1>2, <2>1, <2>2
    <3>2. QED
      BY <2>1, <3>1
  <2>3. CASE i # Len(l) + 1
    <3>1. i \in 2..Len(l) /\ i \in 1..Len(l)
      BY <1>1, <1>2, <2>3
    <3>2. r[i] = l[i]
      BY <1>2, <3>1
    <3>3. QED
      BY <2>1, <3>1, <3>2 DEF Contiguous
  <2>4. QED
    BY <2>2, <2>3
<1>5. Contiguous(r) /\ r[Len(r)] = x
  BY <1>2, <1>4 DEF Contiguous
<1>6. QED
  BY <1>2, <1>3, <1>5 DEF r

\* An event ends a logged status, and says by its kind whether it ends any.
Ends(e) == Flips(e) /\ e.prevStatus # "unknown"

Honest(e) ==
  /\ Flips(e) => /\ e.status # e.prevStatus /\ e.status # "unknown"
                 /\ e.time \in Int /\ e.duration \in Int
  /\ ~Flips(e) => e.status = e.prevStatus

\* g[i] is when the status after the i-th event on its way began, g[0] when the
\* one the display shows did; every duration reaches back to that time.
Begins(q, g) ==
  /\ \A i \in 0..Len(q) : g[i] \in Int
  /\ \A i \in 1..Len(q) :
       /\ Honest(q[i])
       /\ g[i] = IF Flips(q[i]) THEN q[i].time ELSE g[i-1]
       /\ Ends(q[i]) => q[i].time - q[i].duration = g[i-1]

LEMMA BeginsGrow ==
  ASSUME NEW q, IsSeq(q), NEW g, Begins(q, g), NEW e, Honest(e),
         Ends(e) => e.time - e.duration = g[Len(q)]
  PROVE  \E h : /\ Begins(Append(q, e), h) /\ h[0] = g[0]
                /\ h[Len(q) + 1] = IF Flips(e) THEN e.time ELSE g[Len(q)]
<1> DEFINE r == Append(q, e)
           last == IF Flips(e) THEN e.time ELSE g[Len(q)]
           h == [i \in 0..(Len(q) + 1) |-> IF i = Len(q) + 1 THEN last ELSE g[i]]
<1>1. Len(q) \in Nat
  BY LenOfSeq
<1>2. Len(r) = Len(q) + 1 /\ r[Len(q) + 1] = e /\ \A i \in 1..Len(q) : r[i] = q[i]
  BY AppendIsSeq
<1>3. last \in Int /\ (Flips(e) => last = e.time) /\ (~Flips(e) => last = g[Len(q)])
  BY <1>1 DEF Begins, Honest
<1>4. h[Len(q) + 1] = last /\ \A i \in 0..Len(q) : h[i] = g[i]
  BY <1>1
<1> HIDE DEF r, last, h
<1>5. \A i \in 0..Len(r) : h[i] \in Int
  BY <1>1, <1>2, <1>3, <1>4 DEF Begins
<1>6. ASSUME NEW i \in 1..Len(r)
      PROVE  /\ Honest(r[i])
             /\ h[i] = IF Flips(r[i]) THEN r[i].time ELSE h[i-1]
             /\ Ends(r[i]) => r[i].time - r[i].duration = h[i-1]
  <2>1. CASE i = Len(q) + 1
    <3>1. r[i] = e /\ h[i] = last /\ h[i-1] = g[Len(q)]
      BY <1>1, <1>2, <1>4, <2>1
    <3>2. QED
      BY <1>3, <3>1
  <2>2. CASE i # Len(q) + 1
    <3>1. i \in 1..Len(q) /\ r[i] = q[i] /\ h[i] = g[i] /\ h[i-1] = g[i-1]
      BY <1>1, <1>2, <1>4, <2>2
    <3>2. QED
      BY <3>1 DEF Begins
  <2>3. QED
    BY <2>1, <2>2
<1>7. Begins(r, h)
  BY <1>5, <1>6 DEF Begins
<1>8. h[0] = g[0]
  BY <1>1, <1>4
<1>9. QED
  BY <1>4, <1>7, <1>8 DEF r, last

LEMMA BeginsShrink ==
  ASSUME NEW q, IsSeq(q), q # <<>>, NEW g, Begins(q, g)
  PROVE  /\ Honest(Head(q))
         /\ Ends(Head(q)) => Head(q).time - Head(q).duration = g[0]
         /\ \E h : /\ Begins(Tail(q), h)
                   /\ h[0] = IF Flips(Head(q)) THEN Head(q).time ELSE g[0]
                   /\ h[Len(Tail(q))] = g[Len(q)]
<1> DEFINE r == Tail(q)
           h == [i \in 0..Len(r) |-> g[i + 1]]
<1>1. Len(r) = Len(q) - 1 /\ Len(q) \in Nat \ {0} /\ Head(q) = q[1]
      /\ \A i \in 1..Len(r) : r[i] = q[i + 1]
  BY TailIsSeq
<1>2. \A i \in 0..Len(r) : h[i] = g[i + 1]
  OBVIOUS
<1> HIDE DEF r, h
<1>3. /\ Honest(Head(q))
      /\ g[1] = IF Flips(Head(q)) THEN Head(q).time ELSE g[0]
      /\ Ends(Head(q)) => Head(q).time - Head(q).duration = g[0]
  <2>1. 1 \in 1..Len(q) /\ 1 - 1 = 0
    BY <1>1
  <2>2. QED
    BY <1>1, <2>1 DEF Begins
<1>4. h[0] = g[1] /\ h[Len(r)] = g[Len(q)]
  <2>1. 0 \in 0..Len(r) /\ Len(r) \in 0..Len(r) /\ Len(r) + 1 = Len(q) /\ 0 + 1 = 1
    BY <1>1
  <2>2. QED
    BY <1>2, <2>1
<1>5. \A i \in 0..Len(r) : h[i] \in Int
  BY <1>1, <1>2 DEF Begins
<1>6. ASSUME NEW i \in 1..Len(r)
      PROVE  /\ Honest(r[i])
             /\ h[i] = IF Flips(r[i]) THEN r[i].time ELSE h[i-1]
             /\ Ends(r[i]) => r[i].time - r[i].duration = h[i-1]
  <2>1. i + 1 \in 1..Len(q) /\ (i + 1) - 1 = i /\ i \in 0..Len(r) /\ i - 1 \in 0..Len(r)
        /\ (i - 1) + 1 = i
    BY <1>1
  <2>2. r[i] = q[i + 1] /\ h[i] = g[i + 1] /\ h[i-1] = g[i]
    BY <1>1, <1>2, <2>1
  <2>3. QED
    BY <2>1, <2>2 DEF Begins
<1>7. Begins(r, h)
  BY <1>5, <1>6 DEF Begins
<1>8. QED
  BY <1>3, <1>4, <1>7 DEF r

\* What the log and the times along the queue are while the run goes on, and
\* the log when it has ended.
LogEndsAt(l, t, s) == l # <<>> => /\ l[Len(l)].time = t
                                  /\ l[Len(l)].status # s /\ s # "unknown"

Timed(q, l, st, b, s) ==
  \E g : /\ Begins(q, g)
         /\ st # "unknown" => b = g[Len(q)]
         /\ LogEndsAt(l, g[0], s)

Finished(l, st, t) ==
  IF st = "unknown" THEN l = <<>>
  ELSE l # <<>> /\ l[Len(l)].status = st /\ l[Len(l)].time = t

TimeInv ==
  /\ now \in Int /\ start \in Int /\ totalProbes \in Nat
  /\ totalProbes = 0 => status = "unknown"
  /\ IsSeq(log) /\ Contiguous(log)
  /\ Running => Timed(Pending, log, status, start, shown)
  /\ ~Running => Finished(log, status, now)

LEMMA ExitCodeIsACode == \A why : ExitCode(why) # NotYet
<1>1. ASSUME NEW why
      PROVE  ExitCode(why) # NotYet
  <2>1. CASE why = "interrupt"
    BY <2>1 DEF ExitCode, NotYet
  <2>2. CASE why = "term"
    BY <2>2 DEF ExitCode, NotYet
  <2>3. CASE why = "perm"
    BY <2>3 DEF ExitCode, NotYet
  <2>4. CASE why \notin {"interrupt", "term", "perm"}
    BY <2>4 DEF ExitCode, NotYet
  <2>5. QED
    BY <2>1, <2>2, <2>3, <2>4
<1>2. QED
  BY <1>1

LEMMA TimeGrows ==
  ASSUME TimeInv, IsSeq(Pending), Grows
  PROVE  TimeInv'
<1>1. PICK res : E!Step(res)
  BY DEF Grows
<1>2. PICK g : /\ Begins(Pending, g)
               /\ status # "unknown" => start = g[Len(Pending)]
               /\ LogEndsAt(log, g[0], shown)
  BY DEF Grows, TimeInv, Timed
<1>3. Pending' = Append(Pending, ev') /\ UNCHANGED <<shown, log, now, exit>> /\ Running
  BY DEF Grows
<1>4. now \in Int /\ start \in Int /\ totalProbes \in Nat
      /\ (totalProbes = 0 => status = "unknown")
  BY DEF TimeInv
<1>5. E!Anchor \in Int /\ (status # "unknown" => E!Anchor = start)
  BY <1>4 DEF E!Anchor
<1>6. /\ totalProbes' = totalProbes + 1
      /\ ev'.prevStatus = status /\ ev'.status = status' /\ ev'.time = now
      /\ Flips(ev') => /\ status' # status /\ start' = now
                       /\ ev'.duration = now - E!Anchor
      /\ ~Flips(ev') => status' = status /\ start' = E!Anchor
      /\ status' \in {status, "up", "down", "error"}
  BY <1>1, StepTells
<1>7. Honest(ev')
  BY <1>4, <1>5, <1>6 DEF Honest
<1>8. Ends(ev') => ev'.time - ev'.duration = g[Len(Pending)]
  BY <1>2, <1>4, <1>5, <1>6 DEF Ends
<1>9. PICK h : /\ Begins(Append(Pending, ev'), h) /\ h[0] = g[0]
               /\ h[Len(Pending) + 1] = IF Flips(ev') THEN ev'.time ELSE g[Len(Pending)]
  BY <1>2, <1>7, <1>8, BeginsGrow
<1>10. Len(Pending') = Len(Pending) + 1
  BY <1>3, AppendIsSeq
<1>11. status' # "unknown" => start' = h[Len(Pending')]
  <2>1. CASE Flips(ev')
    BY <1>6, <1>9, <1>10, <2>1
  <2>2. CASE ~Flips(ev')
    BY <1>2, <1>5, <1>6, <1>9, <1>10, <2>2
  <2>3. QED
    BY <2>1, <2>2
<1>12. Begins(Pending', h) /\ LogEndsAt(log', h[0], shown')
  BY <1>2, <1>3, <1>9 DEF LogEndsAt
<1>13. Timed(Pending', log', status', start', shown')
  BY <1>11, <1>12 DEF Timed
<1>14. start' \in Int /\ totalProbes' \in Nat /\ totalProbes' # 0 /\ now' \in Int
  BY <1>3, <1>4, <1>5, <1>6
<1>15. IsSeq(log') /\ Contiguous(log') /\ Running'
  BY <1>3 DEF TimeInv, Running
<1>16. QED
  BY <1>13, <1>14, <1>15 DEF TimeInv

LEMMA TimeShrinks ==
  ASSUME TimeInv, IsSeq(Pending), Chained(Pending, shown, status), Shrinks
  PROVE  TimeInv'
<1>1. PICK e : e = Head(events)
  OBVIOUS
<1>2. /\ Pending # <<>> /\ Head(Pending) = e /\ Pending' = Tail(Pending)
      /\ shown' = e.status /\ Running
      /\ UNCHANGED <<status, start, totalProbes, now, exit>>
  BY <1>1 DEF Shrinks, HandleEvent, engineVars
<1>3. log' = IF Ends(e)
             THEN Append(log, Entry(e.time, e.prevStatus, e.duration, e.fails, e.prevStats))
             ELSE log
  BY <1>1 DEF Shrinks, HandleEvent, LogEvent, Ends, Flips
<1>4. PICK g : /\ Begins(Pending, g)
               /\ status # "unknown" => start = g[Len(Pending)]
               /\ LogEndsAt(log, g[0], shown)
  BY <1>2 DEF TimeInv, Timed
<1>5. Honest(e) /\ (Ends(e) => e.time - e.duration = g[0]) /\ e.prevStatus = shown
  BY <1>2, <1>4, BeginsShrink, ChainShrinks
<1>6. PICK h : /\ Begins(Tail(Pending), h)
               /\ h[0] = IF Flips(e) THEN e.time ELSE g[0]
               /\ h[Len(Tail(Pending))] = g[Len(Pending)]
  BY <1>2, <1>4, BeginsShrink
<1>7. IsSeq(log) /\ Contiguous(log)
  BY DEF TimeInv
<1>8. IsSeq(log') /\ Contiguous(log') /\ LogEndsAt(log', h[0], shown')
  <2>1. CASE Ends(e)
    <3>1. PICK x : x = Entry(e.time, e.prevStatus, e.duration, e.fails, e.prevStats)
      OBVIOUS
    <3>2. x.time = e.time /\ x.status = e.prevStatus /\ x.duration = e.duration
      BY <3>1 DEF Entry
    <3>3. log' = Append(log, x)
      BY <1>3, <2>1, <3>1
    <3>4. log # <<>> => /\ x.time - x.duration = log[Len(log)].time
                        /\ x.status # log[Len(log)].status
      BY <1>4, <1>5, <2>1, <3>2 DEF LogEndsAt
    <3>5. IsSeq(log') /\ Contiguous(log') /\ log' # <<>> /\ log'[Len(log')] = x
      BY <1>7, <3>3, <3>4, LogGrows
    <3>6. h[0] = e.time /\ e.status # e.prevStatus /\ e.status # "unknown"
      BY <1>5, <1>6, <2>1 DEF Ends, Honest
    <3>7. QED
      BY <1>2, <3>2, <3>5, <3>6 DEF LogEndsAt
  <2>2. CASE ~Ends(e)
    <3>1. log' = log
      BY <1>3, <2>2
    <3>2. CASE Flips(e)
      <4>1. log = <<>>
        BY <1>4, <1>5, <2>2, <3>2 DEF Ends, LogEndsAt
      <4>2. QED
        BY <1>7, <3>1, <4>1 DEF LogEndsAt
    <3>3. CASE ~Flips(e)
      BY <1>2, <1>4, <1>5, <1>6, <1>7, <3>1, <3>3 DEF LogEndsAt, Honest
    <3>4. QED
      BY <3>2, <3>3
  <2>3. QED
    BY <2>1, <2>2
<1>9. Timed(Pending', log', status', start', shown')
  BY <1>2, <1>4, <1>6, <1>8 DEF Timed
<1>10. QED
  BY <1>2, <1>8, <1>9 DEF TimeInv, Running

LEMMA TimeEnds ==
  ASSUME TimeInv, IsSeq(events), Chained(Pending, shown, status), Stays, Shutdown
  PROVE  TimeInv'
<1>1. Running /\ events = <<>> /\ runPc = "closed" /\ log' = LogFinal
      /\ exit' = ExitCode(reason)
      /\ UNCHANGED <<status, start, totalProbes, now>>
  BY DEF Shutdown, Drained, engineVars
<1>2. ~Running'
  BY <1>1, ExitCodeIsACode DEF Running
<1>3. Pending = <<>>
  BY <1>1, PendingIs
<1>4. status = shown
  BY <1>3 DEF Chained
<1>5. PICK g : /\ Begins(Pending, g)
               /\ status # "unknown" => start = g[Len(Pending)]
               /\ LogEndsAt(log, g[0], shown)
  BY <1>1 DEF TimeInv, Timed
<1>6. Len(Pending) = 0
  BY <1>3, EmptyIsSeq
<1>7. now \in Int /\ start \in Int /\ IsSeq(log) /\ Contiguous(log)
  BY DEF TimeInv
<1>8. IsSeq(log') /\ Contiguous(log') /\ Finished(log', status', now')
  <2>1. CASE status = "unknown"
    BY <1>1, <1>4, <1>5, <1>7, <2>1 DEF LogFinal, LogEndsAt, Finished
  <2>2. CASE status # "unknown"
    <3>1. PICK x : x = Entry(now, status, now - start, fails, stats)
      OBVIOUS
    <3>2. x.time = now /\ x.status = status /\ x.duration = now - start
      BY <3>1 DEF Entry
    <3>3. log' = Append(log, x)
      BY <1>1, <2>2, <3>1 DEF LogFinal
    <3>4. x.time - x.duration = g[0]
      BY <1>5, <1>6, <1>7, <2>2, <3>2
    <3>5. log # <<>> => /\ x.time - x.duration = log[Len(log)].time
                        /\ x.status # log[Len(log)].status
      BY <1>4, <1>5, <3>2, <3>4 DEF LogEndsAt
    <3>6. IsSeq(log') /\ Contiguous(log') /\ log' # <<>> /\ log'[Len(log')] = x
      BY <1>7, <3>3, <3>5, LogGrows
    <3>7. QED
      BY <1>1, <2>2, <3>2, <3>6 DEF Finished
  <2>3. QED
    BY <2>1, <2>2
<1>9. QED
  BY <1>1, <1>2, <1>8 DEF TimeInv

LEMMA TimeInductive ==
  ASSUME TimeInv, ErrInv, DisplayInv, [Next]_vars
  PROVE  TimeInv'
<1>1. IsSeq(events) /\ IsSeq(Pending) /\ Chained(Pending, shown, status)
  BY PendingIs DEF ErrInv, DisplayInv
<1>2. CASE Grows
  BY <1>1, <1>2, TimeGrows
<1>3. CASE Shrinks
  BY <1>1, <1>3, TimeShrinks
<1>4. CASE Stays /\ Shutdown
  BY <1>1, <1>4, TimeEnds
<1>5. CASE Stays /\ UNCHANGED <<log, exit>>
  <2>1. Running /\ Running' /\ now' \in Int
    BY <1>5 DEF Stays, TimeInv, Running
  <2>2. QED
    BY <1>5, <2>1 DEF Stays, TimeInv
<1>6. CASE UNCHANGED vars
  <2>1. Pending' = Pending
        /\ UNCHANGED <<log, shown, status, start, totalProbes, now, exit>>
    BY <1>6 DEF Pending, vars, engineVars, runVars, shownVars
  <2>2. QED
    BY <2>1 DEF TimeInv, Running
<1>7. QED
  BY <1>1, <1>2, <1>3, <1>4, <1>5, <1>6, PendingSteps

\* The log is a timeline although it is written by a consumer that lags behind:
\* every entry begins where the one before it ends, neighbours differ, and a run
\* that has ended leaves its last status as the last entry, up to the end; for
\* every threshold, capacity of the channel and interleaving (app.go:224-231,
\* 278-293, 375-393).
THEOREM LogIsTimelineCorrect == Spec => []LogIsTimeline
<1>1. Init => IsSeq(events) /\ Len(events) = 0 /\ runPc # "sending"
      /\ log = <<>> /\ Running /\ status = "unknown" /\ shown = "unknown"
      /\ totalProbes = 0 /\ handled = 0 /\ now = 0 /\ start = 0
  BY EmptyIsSeq DEF Init, E!Init, Running
<1>2. Init => ErrInv
  BY <1>1 DEF ErrInv
<1>3. Init => DisplayInv
  BY <1>1, PendingStart, EmptyIsSeq DEF DisplayInv, Chained
<1>4. Init => TimeInv
  <2>1. Begins(<<>>, [i \in {0} |-> 0])
    BY EmptyIsSeq DEF Begins
  <2>2. Init => Timed(Pending, log, status, start, shown)
    BY <1>1, <2>1, PendingStart DEF Timed, LogEndsAt
  <2>3. Init => IsSeq(log) /\ Contiguous(log)
    BY <1>1, EmptyIsSeq DEF Contiguous
  <2>4. QED
    BY <1>1, <2>2, <2>3 DEF TimeInv
<1>5. TimeInv => LogIsTimeline
  BY DEF TimeInv, Contiguous, Finished, LogIsTimeline
<1>6. QED
  BY <1>2, <1>3, <1>4, <1>5, ErrorsInductive, DisplayInductive, TimeInductive, PTL
     DEF Spec

------------------------------------------------------------------------------
(* The run as a session (module Session) *)

LEMMA StopsForGood ==
  ASSUME KeyInv, [Next]_vars
  PROVE  (cancelled => cancelled') /\ (runPc = "closed" => runPc' = "closed")
<1>1. CASE \E res : StepResult(res)
  BY <1>1 DEF StepResult, stopVars
<1>2. CASE ProbeReturns \/ DropResult \/ Send \/ IntervalPasses \/ WaitCancelled
  BY <1>2 DEF ProbeReturns, DropResult, Send, IntervalPasses, WaitCancelled, stopVars
<1>3. CASE CountKept
  BY <1>3 DEF CountKept
<1>4. CASE UNCHANGED vars
  BY <1>4 DEF vars, stopVars, runVars
<1>5. QED
  BY <1>1, <1>2, <1>3, <1>4, StepKeepsCount

LEMMA PhaseIs ==
  /\ ~Running <=> Phase = "ended"
  /\ Running /\ (cancelled \/ runPc = "closed") <=> Phase = "stopping"
  /\ Running /\ ~(cancelled \/ runPc = "closed") <=> Phase = "running"
<1>1. CASE ~Running
  BY <1>1 DEF Phase
<1>2. CASE Running /\ (cancelled \/ runPc = "closed")
  BY <1>2 DEF Phase
<1>3. CASE Running /\ ~(cancelled \/ runPc = "closed")
  BY <1>3 DEF Phase
<1>4. QED
  BY <1>1, <1>2, <1>3

LEMMA PhaseIsNext ==
  /\ ~Running' <=> Phase' = "ended"
  /\ Running' /\ (cancelled' \/ runPc' = "closed") <=> Phase' = "stopping"
  /\ Running' /\ ~(cancelled' \/ runPc' = "closed") <=> Phase' = "running"
<1>1. CASE ~Running'
  BY <1>1 DEF Phase
<1>2. CASE Running' /\ (cancelled' \/ runPc' = "closed")
  BY <1>2 DEF Phase
<1>3. CASE Running' /\ ~(cancelled' \/ runPc' = "closed")
  BY <1>3 DEF Phase
<1>4. QED
  BY <1>1, <1>2, <1>3

\* A step that does not end the run either leaves the phase or begins to stop.
LEMMA PhaseMoves ==
  ASSUME KeyInv, [Next]_vars, Running, Running'
  PROVE  Phase' = Phase \/ (Phase = "running" /\ Phase' = "stopping")
  BY StopsForGood, PhaseIs, PhaseIsNext

LEMMA StepIsSession ==
  ASSUME KeyInv, ErrInv, DisplayInv, [Next]_vars
  PROVE  [Abstract!Next]_(Abstract!vars)
<1>1. IsSeq(events) /\ IsSeq(Pending)
  BY PendingIs DEF ErrInv
<1>2. Len(Pending) \in Nat /\ (Pending = <<>> <=> Len(Pending) = 0)
  BY <1>1, LenOfSeq
<1>3. handled \in Nat /\ handled + Len(Pending) = totalProbes
  BY DEF DisplayInv
<1>4. ASSUME NEW res, StepResult(res)
      PROVE  Abstract!Observe
  <2>1. totalProbes' = totalProbes + 1 /\ handled' = handled
    BY <1>4, StepTells DEF StepResult, shownVars
  <2>2. Running /\ Running' /\ cancelled' = cancelled
        /\ runPc = "stepping" /\ runPc' = "sending"
    BY <1>4 DEF StepResult, Running, stopVars
  <2>3. Phase # "ended" /\ Phase' = Phase
    BY <2>2 DEF Phase
  <2>4. QED
    BY <2>1, <2>2, <2>3 DEF Abstract!Observe
<1>5. CASE ProbeReturns
  <2>1. UNCHANGED <<totalProbes, handled>>
    BY <1>5 DEF ProbeReturns, engineVars, shownVars
  <2>2. Running /\ Running' /\ ~cancelled /\ ~cancelled'
        /\ runPc = "probing" /\ runPc' = "stepping"
    BY <1>5 DEF ProbeReturns, Accepts, Running, stopVars
  <2>3. Phase = "running" /\ Phase' = "running"
    BY <2>2, PhaseIs, PhaseIsNext
  <2>4. QED
    BY <2>1, <2>2, <2>3 DEF Abstract!Next, Abstract!Take
<1>6. CASE HandleEvent
  <2>1. events # <<>> /\ Running /\ Running'
        /\ handled' = handled + 1 /\ totalProbes' = totalProbes /\ runPc' = runPc
    BY <1>6 DEF HandleEvent, Running, engineVars, runVars
  <2>2. Pending # <<>>
    <3>1. Len(events) \in Nat \ {0}
      BY <1>1, <2>1, LenOfSeq
    <3>2. Len(Pending) # 0
      <4>1. CASE runPc = "sending"
        BY <1>1, <3>1, <4>1, PendingIs, AppendIsSeq
      <4>2. CASE runPc # "sending"
        BY <1>1, <3>1, <4>2, PendingIs
      <4>3. QED
        BY <4>1, <4>2
    <3>3. QED
      BY <1>2, <3>2
  <2>3. handled < totalProbes
    BY <1>2, <1>3, <2>2
  <2>4. Phase # "ended" /\ Phase' \in {Phase, "stopping"}
    BY <2>1, PhaseIs, PhaseMoves
  <2>5. QED
    BY <2>1, <2>3, <2>4 DEF Abstract!Next, Abstract!Report
<1>7. CASE Shutdown
  <2>1. Running /\ events = <<>> /\ runPc = "closed" /\ exit' = ExitCode(reason)
        /\ UNCHANGED <<totalProbes, handled, runPc>>
    BY <1>7 DEF Shutdown, Drained, engineVars, runVars
  <2>2. Pending = <<>>
    BY <1>1, <2>1, PendingIs
  <2>3. handled = totalProbes
    BY <1>2, <1>3, <2>2
  <2>4. Phase = "stopping" /\ Phase' = "ended"
    BY <2>1, ExitCodeIsACode, PhaseIs, PhaseIsNext DEF Running
  <2>5. QED
    BY <2>1, <2>3, <2>4 DEF Abstract!Next, Abstract!End
<1>8. ASSUME Running, UNCHANGED <<totalProbes, handled, exit>>,
             (runPc' = "stepping") <=> (runPc = "stepping")
      PROVE  [Abstract!Next]_(Abstract!vars)
  <2>1. Running'
    BY <1>8 DEF Running
  <2>2. CASE Phase' = Phase
    BY <1>8, <2>2 DEF Abstract!vars
  <2>3. CASE Phase = "running" /\ Phase' = "stopping"
    BY <1>8, <2>3 DEF Abstract!Next, Abstract!StopAsked
  <2>4. QED
    BY <1>8, <2>1, <2>2, <2>3, PhaseMoves
<1>9. CASE DropResult \/ Send \/ IntervalPasses \/ WaitCancelled
  BY <1>8, <1>9 DEF DropResult, Send, IntervalPasses, WaitCancelled, engineVars, shownVars
<1>10. CASE TakeSignal \/ TakeKey \/ KeysClosed
  BY <1>8, <1>10 DEF TakeSignal, TakeKey, KeysClosed, engineVars, runVars, shownVars
<1>11. CASE Reader \/ User \/ ClockTick
  BY <1>8, <1>11 DEF Reader, ReadKey, RestoreTerminal, User, Signal, PressKey, ClockTick,
     engineVars, runVars, shownVars
<1>12. CASE UNCHANGED vars
  <2>1. UNCHANGED <<totalProbes, handled, runPc>> /\ Phase' = Phase
    BY <1>12 DEF vars, engineVars, shownVars, runVars, stopVars, Phase, Running
  <2>2. QED
    BY <2>1 DEF Abstract!vars
<1>13. QED
  BY <1>4, <1>5, <1>6, <1>7, <1>9, <1>10, <1>11, <1>12 DEF Abstract!Next, Next, Run, Main

\* Every run is a session, step by step: what is observed is reported once, no
\* result is taken after a stop, so that at most the one whose test of ctx came
\* before is observed after it, and the end waits for that one and for the last
\* report; the safety part of ImplementsSession, for every value of the constants
\* (run.go:20-31, app.go:206-293).
THEOREM ImplementsSessionSafely ==
  Spec => Abstract!Init /\ [][Abstract!Next]_(Abstract!vars)
<1>1. Init => Abstract!Init
  <2>1. Init => /\ totalProbes = 0 /\ handled = 0
                /\ Running /\ ~cancelled /\ runPc = "probing"
    BY DEF Init, E!Init, Running
  <2>2. QED
    BY <2>1, PhaseIs DEF Abstract!Init
<1>2. Init => IsSeq(events) /\ Len(events) = 0 /\ runPc # "sending"
      /\ handled = 0 /\ totalProbes = 0 /\ shown = status
  BY EmptyIsSeq DEF Init, E!Init
<1>3. Init => ErrInv /\ DisplayInv
  BY <1>2, PendingStart, EmptyIsSeq DEF ErrInv, DisplayInv, Chained
<1>4. QED
  BY <1>1, <1>3, KeysStart, KeysInductive, ErrorsInductive, DisplayInductive,
     StepIsSession, PTL DEF Spec

------------------------------------------------------------------------------
(* Types *)

\* A result has a round-trip time and a class of error, whatever its outcome.
LEMMA ResultTypes ==
  ASSUME NEW res \in Results
  PROVE  res.rtt \in Nat /\ res.err \in {"none", "permission", "other"}
BY ProbeResultAssumption DEF Results, UpResult, DownResult, ErrorResult

LEMMA StatsTypes ==
  /\ E!NoStats \in E!StatsType
  /\ \A s \in E!StatsType, r \in Nat : E!Add(s, r) \in E!StatsType
BY DEF E!NoStats, E!StatsType, E!Add

\* What the event of a step is made of has its type.
LEMMA EmitTypes ==
  ASSUME E!TypeOK, NEW res \in Results, NEW kind \in E!Kinds, NEW f \in Nat,
         NEW flips, E!Emit(kind, res, f, flips), E!Anchor \in 0..now,
         status' \in E!Statuses, stats' \in E!StatsType
  PROVE  ev' \in E!EventType
<1>1. now - E!Anchor \in Nat /\ now \in Nat /\ status \in E!Statuses /\ stats \in E!StatsType
  BY MonitorAssumption DEF E!TypeOK
<1>2. res.rtt \in Nat /\ res.err \in {"none", "permission", "other"}
  BY ResultTypes
<1>3. CASE flips
  BY <1>1, <1>2, <1>3 DEF E!Emit, E!EventType
<1>4. CASE ~flips
  BY <1>1, <1>2, <1>4, StatsTypes DEF E!Emit, E!EventType
<1>5. QED
  BY <1>3, <1>4

LEMMA EngineStepTypes ==
  ASSUME E!TypeOK, NEW res \in Results, E!Step(res), totalProbes < MaxProbes, now' = now
  PROVE  E!TypeOK'
<1>1. /\ status \in E!Statuses /\ now \in 0..MaxTime /\ start \in 0..now
      /\ fails \in Nat /\ successes \in Nat /\ stats \in E!StatsType
      /\ totalProbes \in 0..MaxProbes /\ totalOK \in Nat /\ totalFail \in Nat
  BY DEF E!TypeOK
<1>2. E!Anchor \in 0..now /\ now \in 0..now
  BY <1>1, MonitorAssumption DEF E!Anchor
<1>3. totalProbes + 1 \in 0..MaxProbes
  BY <1>1, MonitorAssumption
<1>4. {"up", "down", "error"} \subseteq E!Statuses
  BY DEF E!Statuses
<1>5. \A flips : E!Carried(flips) \in E!StatsType
  BY <1>1, StatsTypes DEF E!Carried
<1>6. CASE E!StepUp(res)
  <2>1. stats' \in E!StatsType
    BY <1>5, <1>6, ResultTypes, StatsTypes DEF E!StepUp
  <2>2. status' \in E!Statuses /\ start' \in 0..now
    BY <1>1, <1>2, <1>4, <1>6 DEF E!StepUp, E!Transition
  <2>3. ev' \in E!EventType
    <3>1. CASE E!FlipsUp
      BY <1>1, <1>2, <1>6, <2>1, <2>2, <3>1, EmitTypes DEF E!StepUp, E!Kinds
    <3>2. CASE ~E!FlipsUp
      BY <1>1, <1>2, <1>6, <2>1, <2>2, <3>2, EmitTypes DEF E!StepUp, E!Kinds
    <3>3. QED
      BY <3>1, <3>2
  <2>4. QED
    BY <1>1, <1>3, <1>6, <2>1, <2>2, <2>3 DEF E!StepUp, E!TypeOK
<1>7. CASE E!StepDown(res)
  <2>1. stats' \in E!StatsType
    BY <1>5, <1>7 DEF E!StepDown
  <2>2. status' \in E!Statuses /\ start' \in 0..now
    BY <1>1, <1>2, <1>4, <1>7 DEF E!StepDown, E!Transition
  <2>3. ev' \in E!EventType
    <3>1. fails + 1 \in Nat
      BY <1>1
    <3>2. CASE E!FlipsDown
      BY <1>1, <1>2, <1>7, <2>1, <2>2, <3>1, <3>2, EmitTypes DEF E!StepDown, E!Kinds
    <3>3. CASE ~E!FlipsDown
      BY <1>1, <1>2, <1>7, <2>1, <2>2, <3>1, <3>3, EmitTypes DEF E!StepDown, E!Kinds
    <3>4. QED
      BY <3>2, <3>3
  <2>4. QED
    BY <1>1, <1>3, <1>7, <2>1, <2>2, <2>3 DEF E!StepDown, E!TypeOK
<1>8. CASE E!StepError(res)
  <2>1. stats' \in E!StatsType
    BY <1>5, <1>8 DEF E!StepError
  <2>2. status' \in E!Statuses /\ start' \in 0..now
    BY <1>1, <1>2, <1>4, <1>8 DEF E!StepError, E!Transition
  <2>3. ev' \in E!EventType
    <3>1. CASE E!FlipsError
      BY <1>1, <1>2, <1>8, <2>1, <2>2, <3>1, EmitTypes DEF E!StepError, E!Kinds
    <3>2. CASE ~E!FlipsError
      BY <1>1, <1>2, <1>8, <2>1, <2>2, <3>2, EmitTypes DEF E!StepError, E!Kinds
    <3>3. QED
      BY <3>1, <3>2
  <2>4. QED
    BY <1>1, <1>3, <1>8, <2>1, <2>2, <2>3 DEF E!StepError, E!TypeOK
<1>9. QED
  BY <1>6, <1>7, <1>8 DEF E!Step

\* A result in hand is within the bound.
HasRoom == runPc = "stepping" => totalProbes < MaxProbes

LEMMA RoomInductive ==
  ASSUME HasRoom, [Next]_vars
  PROVE  HasRoom'
<1>1. ASSUME runPc' = "stepping" => runPc = "stepping" /\ totalProbes' = totalProbes
      PROVE  HasRoom'
  BY <1>1 DEF HasRoom
<1>2. CASE ProbeReturns
  BY <1>2 DEF ProbeReturns, HasRoom, engineVars
<1>3. CASE \E res \in Results : StepResult(res)
  BY <1>1, <1>3 DEF StepResult
<1>4. CASE DropResult \/ Send \/ IntervalPasses \/ WaitCancelled
  BY <1>1, <1>4 DEF DropResult, Send, IntervalPasses, WaitCancelled
<1>5. CASE Main
  BY <1>1, <1>5
     DEF Main, HandleEvent, TakeSignal, TakeKey, KeysClosed, Shutdown, engineVars, runVars
<1>6. CASE Reader \/ User \/ ClockTick
  BY <1>1, <1>6 DEF Reader, ReadKey, RestoreTerminal, User, Signal, PressKey, ClockTick,
     engineVars, runVars
<1>7. CASE UNCHANGED vars
  BY <1>1, <1>7 DEF vars, engineVars, runVars
<1>8. QED
  BY <1>2, <1>3, <1>4, <1>5, <1>6, <1>7 DEF Next, Run

\* Only a result and the clock touch the engine.
LEMMA EngineTypes ==
  ASSUME E!TypeOK, HasRoom, [Next]_vars
  PROVE  E!TypeOK'
<1>1. ASSUME NEW res \in Results, StepResult(res)
      PROVE  E!TypeOK'
  BY <1>1, EngineStepTypes DEF StepResult, HasRoom
<1>2. CASE ClockTick
  BY <1>2, MonitorAssumption DEF ClockTick, E!TypeOK, engineVars
<1>3. ASSUME UNCHANGED <<engineVars, now>>
      PROVE  E!TypeOK'
  BY <1>3 DEF engineVars, E!TypeOK
<1>4. CASE ProbeReturns \/ DropResult \/ Send \/ IntervalPasses \/ WaitCancelled
  BY <1>3, <1>4 DEF ProbeReturns, DropResult, Send, IntervalPasses, WaitCancelled
<1>5. CASE Main
  BY <1>3, <1>5 DEF Main, HandleEvent, TakeSignal, TakeKey, KeysClosed, Shutdown
<1>6. CASE Reader \/ User
  BY <1>3, <1>6 DEF Reader, ReadKey, RestoreTerminal, User, Signal, PressKey
<1>7. CASE UNCHANGED vars
  BY <1>3, <1>7 DEF vars
<1>8. QED
  BY <1>1, <1>2, <1>4, <1>5, <1>6, <1>7 DEF Next, Run

\* The events on their way, the log and the display.
ShownTypes ==
  /\ events \in Seq(E!EventType) /\ Len(events) <= EventCap
  /\ log \in Seq(EntryType)
  /\ handled \in Nat
  /\ shown \in E!Statuses

\* A known status that ended, or ends with the run, is an entry of the log.
LEMMA EntryTypes ==
  ASSUME NEW t \in Nat, NEW s \in E!Statuses, s # "unknown", NEW d \in Nat, NEW f \in Nat,
         NEW st \in E!StatsType
  PROVE  Entry(t, s, d, f, st) \in EntryType
BY DEF Entry, EntryType, E!Statuses

LEMMA ShownTypesInductive ==
  ASSUME E!TypeOK, ShownTypes, [Next]_vars
  PROVE  ShownTypes'
<1>1. CASE Send
  <2>1. ev \in E!EventType /\ Len(events) < EventCap /\ events' = Append(events, ev)
        /\ UNCHANGED <<log, handled, shown>>
    BY <1>1 DEF Send, Forward, E!TypeOK, shownVars
  <2>2. events' \in Seq(E!EventType) /\ Len(events') = Len(events) + 1
    BY <2>1 DEF ShownTypes
  <2>3. Len(events) + 1 <= EventCap
    BY <2>1, MonitorAssumption DEF ShownTypes
  <2>4. QED
    BY <2>1, <2>2, <2>3 DEF ShownTypes
<1>2. CASE HandleEvent
  <2> DEFINE e == Head(events)
  <2>1. events # <<>> /\ events' = Tail(events) /\ handled' = handled + 1
        /\ shown' = e.status /\ log' = LogEvent(e)
    BY <1>2 DEF HandleEvent
  <2>2. e \in E!EventType /\ Tail(events) \in Seq(E!EventType)
        /\ Len(Tail(events)) = Len(events) - 1
    BY <2>1, HeadTailProperties DEF ShownTypes
  <2>3. /\ e.status \in E!Statuses /\ e.prevStatus \in E!Statuses /\ e.time \in Nat
        /\ e.duration \in Nat /\ e.fails \in Nat /\ e.prevStats \in E!StatsType
    BY <2>2 DEF E!EventType
  <2> HIDE DEF e
  <2>4. LogEvent(e) \in Seq(EntryType)
    <3>1. log \in Seq(EntryType)
      BY DEF ShownTypes
    <3>2. CASE e.prevStatus = "unknown"
      BY <3>1, <3>2 DEF LogEvent
    <3>3. CASE e.prevStatus # "unknown"
      <4>1. Entry(e.time, e.prevStatus, e.duration, e.fails, e.prevStats) \in EntryType
        BY <2>3, <3>3, EntryTypes
      <4>2. QED
        BY <3>1, <4>1 DEF LogEvent
    <3>4. QED
      BY <3>2, <3>3
  <2>5. Len(events) - 1 <= EventCap
    BY MonitorAssumption DEF ShownTypes
  <2>6. QED
    BY <2>1, <2>2, <2>3, <2>4, <2>5 DEF ShownTypes
<1>3. CASE Shutdown
  <2>1. log' = LogFinal /\ UNCHANGED <<events, handled, shown>>
    BY <1>3 DEF Shutdown
  <2>2. /\ status \in E!Statuses /\ now \in Nat /\ now - start \in Nat /\ fails \in Nat
        /\ stats \in E!StatsType
    BY MonitorAssumption DEF E!TypeOK
  <2>3. LogFinal \in Seq(EntryType)
    <3>1. log \in Seq(EntryType)
      BY DEF ShownTypes
    <3>2. CASE status = "unknown"
      BY <3>1, <3>2 DEF LogFinal
    <3>3. CASE status # "unknown"
      <4>1. Entry(now, status, now - start, fails, stats) \in EntryType
        BY <2>2, <3>3, EntryTypes
      <4>2. QED
        BY <3>1, <3>3, <4>1 DEF LogFinal
    <3>4. QED
      BY <3>2, <3>3
  <2>4. QED
    BY <2>1, <2>3 DEF ShownTypes
<1>4. ASSUME UNCHANGED <<events, log, handled, shown>>
      PROVE  ShownTypes'
  BY <1>4 DEF ShownTypes
<1>5. CASE ProbeReturns \/ DropResult \/ IntervalPasses \/ WaitCancelled
          \/ \E res : StepResult(res)
  BY <1>4, <1>5
     DEF ProbeReturns, DropResult, IntervalPasses, WaitCancelled, StepResult, shownVars
<1>6. CASE TakeSignal \/ TakeKey \/ KeysClosed
  BY <1>4, <1>6 DEF TakeSignal, TakeKey, KeysClosed, shownVars
<1>7. CASE Reader \/ User \/ ClockTick
  BY <1>4, <1>7 DEF Reader, ReadKey, RestoreTerminal, User, Signal, PressKey, ClockTick,
     shownVars
<1>8. CASE UNCHANGED vars
  BY <1>4, <1>8 DEF vars, shownVars
<1>9. QED
  BY <1>1, <1>2, <1>3, <1>5, <1>6, <1>7, <1>8 DEF Next, Run, Main

\* The stop and the terminal's mode are known.
FlagTypes == cancelled \in BOOLEAN /\ permErr \in BOOLEAN /\ raw \in BOOLEAN

LEMMA FlagTypesInductive ==
  ASSUME FlagTypes, [Next]_vars, KeyInv
  PROVE  FlagTypes'
<1>1. ASSUME UNCHANGED stopVars, raw' = raw \/ raw' = FALSE
      PROVE  FlagTypes'
  BY <1>1, Zenon DEF FlagTypes, stopVars
<1>2. ASSUME cancelled' = TRUE \/ cancelled' = cancelled,
             permErr' = TRUE \/ permErr' = permErr, raw' = raw
      PROVE  FlagTypes'
  BY <1>2, Zenon DEF FlagTypes
<1>3. CASE Run
  BY <1>1, <1>3, Zenon
     DEF Run, ProbeReturns, StepResult, DropResult, Send, IntervalPasses, WaitCancelled, keyVars
<1>4. CASE HandleEvent
  BY <1>2, <1>4, Zenon DEF HandleEvent, Stop, stopVars, keyVars
<1>5. CASE TakeSignal
  BY <1>2, <1>5, Zenon DEF TakeSignal, Stop, keyVars
<1>6. CASE TakeKey
  <2>1. cancelled' = TRUE \/ cancelled' = cancelled
    BY <1>6, KeyHasCase, Zenon DEF Stop
  <2>2. permErr' = permErr /\ raw' = raw
    BY <1>6, Zenon DEF TakeKey
  <2>3. QED
    BY <1>2, <2>1, <2>2, Zenon
<1>7. CASE KeysClosed \/ Shutdown
  BY <1>1, <1>7, Zenon DEF KeysClosed, Shutdown, keyVars
<1>8. CASE Reader
  BY <1>1, <1>8, Zenon DEF Reader, ReadKey, RestoreTerminal
<1>9. CASE User \/ ClockTick
  BY <1>1, <1>9, Zenon DEF User, Signal, PressKey, ClockTick, keyVars
<1>10. CASE UNCHANGED vars
  BY <1>1, <1>10, Zenon DEF vars, keyVars
<1>11. QED
  BY <1>3, <1>4, <1>5, <1>6, <1>7, <1>8, <1>9, <1>10 DEF Next, Main

\* What the user and the kernel did.
KeyNames == {"q", "ctrlC", "eof"}

AskedTypes ==
  /\ signals \in 0..MaxSignals /\ keys \in 0..MaxKeys
  /\ asked \subseteq {"SIGINT", "SIGTERM", "q", "ctrlC", "permission", "count"}
  /\ typed \in Seq(KeyNames)
  /\ reader \in {"none", "reading", "exiting", "done"}
  /\ keysFrom \in {"open", "closed", "nil"}
  /\ count \in Counts /\ left \in 0..count

LEMMA AskedTypesInductive ==
  ASSUME AskedTypes, KeyInv, [Next]_vars
  PROVE  AskedTypes'
<1> USE DEF AskedTypes
<1>1. count \in Nat
  BY MonitorAssumption
<1>2. CASE \E res : StepResult(res)
  BY <1>2 DEF StepResult, keyVars, userVars
<1>3. CASE ProbeReturns \/ DropResult \/ IntervalPasses \/ WaitCancelled
  BY <1>3 DEF ProbeReturns, DropResult, IntervalPasses, WaitCancelled, keyVars, userVars
<1>4. CASE Send
  <2>1. left' \in 0..count /\ count' = count
    BY <1>1, <1>4 DEF Send, CountDown
  <2>2. asked' \subseteq asked \cup {"count"}
    BY <1>4 DEF Send
  <2>3. UNCHANGED <<signals, keys, typed, reader, keysFrom>>
    BY <1>4 DEF Send, keyVars, userVars
  <2>4. QED
    BY <2>1, <2>2, <2>3
<1>5. CASE HandleEvent \/ TakeSignal \/ KeysClosed \/ Shutdown
  BY <1>5 DEF HandleEvent, TakeSignal, KeysClosed, Shutdown, keyVars, userVars, runVars
<1>6. CASE TakeKey
  <2>1. UNCHANGED <<signals, keys, typed, reader, asked, count, left>>
    BY <1>6 DEF TakeKey, userVars, runVars
  <2>2. keysFrom' \in {keysFrom, "nil"}
    <3>1. PICK k \in Taken(asked) : keyCh = <<k>>
      BY <1>6 DEF KeyInv, TakeKey
    <3>2. Head(keyCh) \in KeyNames
      BY <3>1, SingletonSeq DEF Taken, KeyNames
    <3>3. QED
      BY <1>6, <3>2 DEF TakeKey, KeyNames
  <2>3. QED
    BY <2>1, <2>2
<1>7. CASE ReadKey
  <2>1. typed' \in Seq(KeyNames)
    BY <1>7, HeadTailProperties DEF ReadKey
  <2>2. reader' = "exiting"
        /\ UNCHANGED <<signals, keys, asked, keysFrom, count, left>>
    BY <1>7 DEF ReadKey, userVars, runVars
  <2>3. QED
    BY <2>1, <2>2
<1>8. CASE RestoreTerminal \/ ClockTick
  BY <1>8 DEF RestoreTerminal, ClockTick, userVars, runVars, keyVars
<1>9. ASSUME NEW sig \in {"SIGINT", "SIGTERM"}, Signal(sig)
      PROVE  AskedTypes'
  <2>1. signals' \in 0..MaxSignals
    BY <1>9, MonitorAssumption DEF Signal
  <2>2. asked' \subseteq asked \cup {"SIGINT", "SIGTERM"}
        /\ UNCHANGED <<keys, typed, reader, keysFrom, count, left>>
    BY <1>9 DEF Signal, keyVars, runVars
  <2>3. QED
    BY <2>1, <2>2
<1>10. ASSUME NEW k \in {"q", "ctrlC", "eof"}, PressKey(k)
       PROVE  AskedTypes'
  <2>1. keys' \in 0..MaxKeys
    BY <1>10, MonitorAssumption DEF PressKey
  <2>2. typed' \in Seq(KeyNames)
    BY <1>10 DEF PressKey, KeyNames
  <2>3. asked' \subseteq asked \cup {"q", "ctrlC"}
        /\ UNCHANGED <<signals, reader, keysFrom, count, left>>
    BY <1>10 DEF PressKey, runVars
  <2>4. QED
    BY <2>1, <2>2, <2>3
<1>11. CASE UNCHANGED vars
  BY <1>11 DEF vars, keyVars, userVars, runVars
<1>12. QED
  BY <1>2, <1>3, <1>4, <1>5, <1>6, <1>7, <1>8, <1>9, <1>10, <1>11
     DEF Next, Run, Main, Reader, User

LEMMA OneSeq ==
  ASSUME NEW S, NEW x \in S
  PROVE  <<x>> \in Seq(S) /\ Len(<<x>>) = 1
  OBVIOUS

\* A channel of capacity 1 is empty or holds what the invariants say it may.
LEMMA TypesTogether ==
  ASSUME E!TypeOK, ShownTypes, FlagTypes, AskedTypes, KeyInv, SigInv, CountInv, StopInv,
         ExitInv
  PROVE  TypeOK
<1>1. sigCh \in Seq({"SIGINT", "SIGTERM"}) /\ Len(sigCh) <= 1
  <2>1. CASE sigCh = <<>>
    BY <2>1, EmptySeq
  <2>2. CASE sigCh # <<>>
    <3>1. PICK sig \in {"SIGINT", "SIGTERM"} : sigCh = <<sig>>
      BY <2>2 DEF SigInv
    <3>2. QED
      BY <3>1, OneSeq
  <2>3. QED
    BY <2>1, <2>2
<1>2. keyCh \in Seq(KeyNames) /\ Len(keyCh) <= 1
  <2>1. CASE keyCh = <<>>
    BY <2>1, EmptySeq
  <2>2. CASE keyCh # <<>>
    <3>1. PICK k \in KeyNames : keyCh = <<k>>
      BY <2>2 DEF KeyInv, Taken, KeyNames
    <3>2. QED
      BY <3>1, OneSeq
  <2>3. QED
    BY <2>1, <2>2
<1>3. exit \in {NotYet, 0, 3, 130, 143}
  BY DEF ExitInv, CodeOK
<1>4. reason \in {"count", "quit", "interrupt", "term", "perm"}
  BY DEF StopInv, Because
<1>5. runPc \in {"probing", "stepping", "sending", "waiting", "closed"}
  BY DEF CountInv
<1>6. QED
  BY <1>1, <1>2, <1>3, <1>4, <1>5, Zenon
     DEF TypeOK, ShownTypes, FlagTypes, AskedTypes, KeyNames

LEMMA InitTypes == Init => E!TypeOK /\ ShownTypes /\ FlagTypes /\ AskedTypes
<1>1. Init => E!TypeOK
  <2>1. E!NoEvent \in E!EventType
    BY StatsTypes DEF E!NoEvent, E!EventType, E!Kinds, E!Statuses
  <2>2. QED
    BY <2>1, StatsTypes, MonitorAssumption DEF Init, E!Init, E!TypeOK, E!Statuses
<1>2. Init => ShownTypes
  BY EmptySeq, MonitorAssumption DEF Init, ShownTypes, E!Statuses
<1>3. Init => FlagTypes
  BY Zenon DEF Init, FlagTypes
<1>4. Init => AskedTypes
  BY EmptySeq, MonitorAssumption DEF Init, AskedTypes
<1>5. QED
  BY <1>1, <1>2, <1>3, <1>4

\* In a run of any length, whatever it meets, every variable has its type: no
\* channel exceeds its capacity, no status but a known one is logged, no entry of
\* the log has a negative duration, the countdown of --count stays between zero and
\* where it started, and a run ends with one of the four exit codes (run.go:14-36,
\* app.go:28-66, 224-393).
THEOREM TypeCorrect == Spec => []TypeOK
<1>1. Init => SigInv /\ ErrInv
  <2>1. Init => IsSeq(events) /\ Len(events) = 0 /\ sigCh = <<>> /\ runPc # "sending"
    BY EmptyIsSeq DEF Init
  <2>2. QED
    BY <2>1 DEF SigInv, ErrInv
<1>2. Init => StopInv /\ ExitInv
  BY DEF Init, StopInv, ExitInv, CodeOK, Because
<1>3. Init => CountInv /\ HasRoom
  BY CountStarts DEF Init, HasRoom
<1>4. QED
  BY <1>1, <1>2, <1>3, RoomInductive, InitTypes, KeysStart, KeysInductive, SignalsInductive,
     ErrorsInductive, StopInductive, ExitInductive, CountInductive, EngineTypes,
     ShownTypesInductive, FlagTypesInductive, AskedTypesInductive, TypesTogether, PTL
     DEF Spec

==============================================================================
