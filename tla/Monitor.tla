------------------------------- MODULE Monitor -------------------------------
(***************************************************************************)
(* One run of dohping (internal/app): the goroutine of Run, which probes,   *)
(* steps the engine and sends its events; the goroutine of Main, which      *)
(* consumes events, signals and keys, and shuts the run down; and the       *)
(* goroutine that reads keys from a raw terminal.  They share the buffered   *)
(* channel of events, the cancelled context, the capacity-1 channels of     *)
(* signals and keys, and the terminal's mode.                               *)
(*                                                                         *)
(* The display is what it was last told.  Repaints (ticks, SIGWINCH) change *)
(* nothing here, and an interval passes whenever Run waits for one.         *)
(***************************************************************************)
EXTENDS Integers, Sequences, ProbeResult

CONSTANTS DownAfter, UpAfter,    \* --down-after, --up-after
          Counts,                \* values of --count to start with; 0 is unlimited
          EventCap,              \* capacity of the channel of events (8)
          MaxProbes, MaxTime,    \* bounds: results stepped, length of the run
          MaxSignals, MaxKeys    \* bounds: signals and keys the user sends

ASSUME MonitorAssumption ==
  /\ Counts \subseteq 0..MaxProbes
  /\ EventCap \in Nat \ {0}
  /\ MaxProbes \in Nat /\ MaxTime \in Nat
  /\ MaxSignals \in Nat /\ MaxKeys \in Nat

VARIABLES status, start, fails, successes, stats,
          totalProbes, totalOK, totalFail, ev, now

E == INSTANCE Engine

VARIABLES runPc,       \* where Run is: probing, stepping, sending, waiting, closed
          left,        \* n in Run: probes left, 0 when unlimited
          events,      \* the channel of events
          cancelled,   \* ctx is done
          reason,      \* Main's stopReason
          permErr,     \* Main's permErr is set
          sigCh,       \* the channel signal.Notify fills
          keyCh,       \* the channel the key reader fills
          keysFrom,    \* keyCh in Main: open, closed (no reader), nil
          reader,      \* the key reader: none, reading, exiting, done
          typed,       \* bytes of the raw terminal nobody read yet
          raw,         \* the terminal is in raw mode
          log,         \* the entries of the log file
          handled,     \* how many events the display has handled
          shown,       \* the status the display shows
          exit,        \* the exit code, or NotYet
          count,       \* --count of this run
          signals,     \* how many signals were sent
          keys,        \* how many keys were pressed
          asked        \* history: the ways in which a stop was asked for

engineVars == <<status, start, fails, successes, stats,
                totalProbes, totalOK, totalFail, ev>>
runVars == <<runPc, left>>
stopVars == <<cancelled, reason, permErr>>
keyVars == <<keyCh, keysFrom, reader, typed, raw>>
shownVars == <<log, handled, shown>>
userVars == <<signals, keys>>
vars == <<engineVars, now, runVars, events, stopVars, sigCh, keyVars,
          shownVars, exit, count, userVars, asked>>

NotYet == -1
Running == exit = NotYet

------------------------------------------------------------------------------
(* Run. *)

\* The test of ctx after a probe; the mutant leaves it to the select.
AcceptsAlways == TRUE

Accepts == ~cancelled

\* Probe returned and ctx was live when Run looked: the result is in hand, and
\* Main may cancel before it is stepped.
ProbeReturns ==
  /\ Running /\ runPc = "probing" /\ Accepts
  /\ totalProbes < MaxProbes
  /\ runPc' = "stepping"
  /\ UNCHANGED <<engineVars, now, left, events, stopVars, sigCh, keyVars,
                 shownVars, exit, count, userVars, asked>>

\* Step the engine with the result in hand.
StepResult(res) ==
  /\ Running /\ runPc = "stepping"
  /\ E!Step(res)
  /\ runPc' = "sending"
  /\ asked' = IF IsPermissionError(res.err) THEN asked \cup {"permission"} ELSE asked
  /\ UNCHANGED <<now, left, events, stopVars, sigCh, keyVars, shownVars, exit,
                 count, userVars>>

\* Probe returned after the cancellation: its result is dropped, Run returns
\* and the goroutine closes the channel.
DropResult ==
  /\ Running /\ runPc = "probing" /\ cancelled
  /\ runPc' = "closed"
  /\ UNCHANGED <<engineVars, now, left, events, stopVars, sigCh, keyVars,
                 shownVars, exit, count, userVars, asked>>

\* events <- ev blocks while the channel is full, cancelled or not.  The mutant
\* drops what does not fit.
ForwardOrDrop == events' = IF Len(events) < EventCap THEN Append(events, ev) ELSE events

Forward == Len(events) < EventCap /\ events' = Append(events, ev)

\* The countdown of --count, which is for a limit only: the mutant has no test.
CountDownAlways == left' = left - 1

CountDown == left' = IF left > 0 THEN left - 1 ELSE 0

\* The countdown of --count reaches zero; the mutant tests before it counts.
LastTooLate == left = 0 /\ count > 0

Last == left = 1

Send ==
  /\ Running /\ runPc = "sending"
  /\ Forward
  /\ CountDown
  /\ runPc' = IF Last THEN "closed" ELSE "waiting"
  /\ asked' = IF Last THEN asked \cup {"count"} ELSE asked
  /\ UNCHANGED <<engineVars, now, stopVars, sigCh, keyVars, shownVars, exit,
                 count, userVars>>

\* select { <-ctx.Done() | <-ticker.C }: with both ready Go takes either.
IntervalPasses ==
  /\ Running /\ runPc = "waiting"
  /\ runPc' = "probing"
  /\ UNCHANGED <<engineVars, now, left, events, stopVars, sigCh, keyVars,
                 shownVars, exit, count, userVars, asked>>

WaitCancelled ==
  /\ Running /\ runPc = "waiting" /\ cancelled
  /\ runPc' = "closed"
  /\ UNCHANGED <<engineVars, now, left, events, stopVars, sigCh, keyVars,
                 shownVars, exit, count, userVars, asked>>

------------------------------------------------------------------------------
(* Main: one action per case of its select. *)

Entry(time, s, duration, f, st) ==
  [time |-> time, status |-> s, duration |-> duration, fails |-> f, stats |-> st]

\* logEvent: a status that ended is logged, the initial unknown one is not.
\* The mutant overlooks that entering the error status ends one as well.
LogEventChanges(e) ==
  IF e.kind = "statusChange" /\ e.prevStatus # "unknown"
  THEN Append(log, Entry(e.time, e.prevStatus, e.duration, e.fails, e.prevStats))
  ELSE log

LogEvent(e) ==
  IF e.kind \in {"statusChange", "error"} /\ e.prevStatus # "unknown"
  THEN Append(log, Entry(e.time, e.prevStatus, e.duration, e.fails, e.prevStats))
  ELSE log

\* logFinal: the status the run ends in.
LogFinal ==
  IF status = "unknown" THEN log
  ELSE Append(log, Entry(now, status, now - start, fails, stats))

\* A stop: the latest reason is the one that counts.  The mutant leaves Run
\* running.
StopWithoutCancel(why) == reason' = why /\ UNCHANGED cancelled

Stop(why) == reason' = why /\ cancelled' = TRUE

\* A permission error is permanent: abort with guidance.
HandleEvent ==
  LET e == Head(events)
      denied == e.kind \in {"error", "probeError"} /\ IsPermissionError(e.err)
  IN
  /\ Running /\ events # <<>>
  /\ events' = Tail(events)
  /\ handled' = handled + 1
  /\ shown' = e.status
  /\ log' = LogEvent(e)
  /\ IF denied THEN Stop("perm") /\ permErr' = TRUE ELSE UNCHANGED stopVars
  /\ UNCHANGED <<engineVars, now, runVars, sigCh, keyVars, exit, count, userVars,
                 asked>>

TakeSignal ==
  /\ Running /\ sigCh # <<>>
  /\ Stop(IF Head(sigCh) = "SIGTERM" THEN "term" ELSE "interrupt")
  /\ sigCh' = Tail(sigCh)
  /\ UNCHANGED <<engineVars, now, runVars, events, permErr, keyVars, shownVars,
                 exit, count, userVars, asked>>

TakeKey ==
  /\ Running /\ keysFrom = "open" /\ keyCh # <<>>
  /\ keyCh' = Tail(keyCh)
  /\ CASE Head(keyCh) = "q"     -> Stop("quit") /\ UNCHANGED keysFrom
       [] Head(keyCh) = "ctrlC" -> Stop("interrupt") /\ UNCHANGED keysFrom
       [] Head(keyCh) = "eof"   -> keysFrom' = "nil" /\ UNCHANGED <<cancelled, reason>>
  /\ UNCHANGED <<engineVars, now, runVars, events, permErr, sigCh, reader, typed,
                 raw, shownVars, exit, count, userVars, asked>>

\* Piped stdin: the closed channel is always ready, so it is put aside.
KeysClosed ==
  /\ Running /\ keysFrom = "closed"
  /\ keysFrom' = "nil"
  /\ UNCHANGED <<engineVars, now, runVars, events, stopVars, sigCh, keyCh, reader,
                 typed, raw, shownVars, exit, count, userVars, asked>>

\* stopReason.exitCode, and the exit of a run that was denied permission, which
\* the mutant has no case for.
ExitCodeNoPerm(why) ==
  CASE why = "interrupt" -> 130
    [] why = "term"      -> 143
    [] OTHER             -> 0

ExitCode(why) ==
  CASE why = "interrupt" -> 130
    [] why = "term"      -> 143
    [] why = "perm"      -> 3
    [] OTHER             -> 0

\* The loop over the channel ends when it is closed and drained.
Drained == events = <<>> /\ runPc = "closed"

\* The channel is closed and drained: finalize, log the final status, exit;
\* the deferred calls restore the terminal and close the probe.
Shutdown ==
  /\ Running /\ Drained
  /\ log' = LogFinal
  /\ exit' = ExitCode(reason)
  /\ raw' = FALSE
  /\ UNCHANGED <<engineVars, now, runVars, events, stopVars, sigCh, keyCh, keysFrom,
                 reader, typed, handled, shown, count, userVars, asked>>

------------------------------------------------------------------------------
(* The key reader: it takes one key Main cares about, hands it over and      *)
(* leaves, restoring the terminal.                                           *)

ReadKey ==
  /\ Running /\ reader = "reading" /\ typed # <<>>
  /\ keyCh' = Append(keyCh, Head(typed))
  /\ typed' = Tail(typed)
  /\ reader' = "exiting"
  /\ UNCHANGED <<engineVars, now, runVars, events, stopVars, sigCh, keysFrom, raw,
                 shownVars, exit, count, userVars, asked>>

RestoreTerminal ==
  /\ Running /\ reader = "exiting"
  /\ reader' = "done"
  /\ raw' = FALSE
  /\ UNCHANGED <<engineVars, now, runVars, events, stopVars, sigCh, keyCh, keysFrom,
                 typed, shownVars, exit, count, userVars, asked>>

------------------------------------------------------------------------------
(* The user, the kernel and the clock. *)

\* signal.Notify never blocks: a signal that finds the channel full is lost.
\* SIGINT is also what Ctrl-C is on a terminal that is not, or no longer, raw.
Signal(sig) ==
  /\ Running /\ signals < MaxSignals
  /\ signals' = signals + 1
  /\ sigCh' = IF sigCh = <<>> THEN <<sig>> ELSE sigCh
  /\ asked' = asked \cup {sig}
  /\ UNCHANGED <<engineVars, now, runVars, events, stopVars, keyVars, shownVars,
                 exit, count, keys>>

\* A key of a raw terminal waits for the reader.
PressKey(k) ==
  /\ Running /\ keys < MaxKeys /\ raw
  /\ keys' = keys + 1
  /\ typed' = Append(typed, k)
  /\ asked' = IF reader = "reading" /\ typed = <<>> /\ k # "eof"
              THEN asked \cup {k} ELSE asked
  /\ UNCHANGED <<engineVars, now, runVars, events, stopVars, sigCh, keyCh, keysFrom,
                 reader, raw, shownVars, exit, count, signals>>

ClockTick ==
  /\ Running /\ now < MaxTime
  /\ now' = now + 1
  /\ UNCHANGED <<engineVars, runVars, events, stopVars, sigCh, keyVars, shownVars,
                 exit, count, userVars, asked>>

------------------------------------------------------------------------------
\* Stdin is a terminal made raw, a terminal that cannot be, or a pipe.
Init ==
  /\ E!Init
  /\ count \in Counts
  /\ left = count
  /\ runPc = "probing"
  /\ events = <<>>
  /\ cancelled = FALSE /\ reason = "count" /\ permErr = FALSE
  /\ sigCh = <<>> /\ keyCh = <<>> /\ typed = <<>>
  /\ \/ reader = "reading" /\ raw = TRUE /\ keysFrom = "open"
     \/ reader = "none" /\ raw = FALSE /\ keysFrom = "open"
     \/ reader = "none" /\ raw = FALSE /\ keysFrom = "closed"
  /\ log = <<>> /\ handled = 0 /\ shown = "unknown"
  /\ exit = NotYet
  /\ signals = 0 /\ keys = 0 /\ asked = {}

Run == \/ ProbeReturns
       \/ \E res \in Results : StepResult(res)
       \/ DropResult
       \/ Send
       \/ IntervalPasses
       \/ WaitCancelled

Main == HandleEvent \/ TakeSignal \/ TakeKey \/ KeysClosed \/ Shutdown

Reader == ReadKey \/ RestoreTerminal

User == \/ \E sig \in {"SIGINT", "SIGTERM"} : Signal(sig)
        \/ \E k \in {"q", "ctrlC", "eof"} : PressKey(k)

Next == Run \/ Main \/ Reader \/ User \/ ClockTick

\* A goroutine that can run does run; each ready case of Main's select is taken
\* in the end, since Go chooses among them at random and signals and keys are
\* finitely many.  A probe returns: it has a timeout.
Fairness ==
  /\ WF_vars(Run)
  /\ WF_vars(HandleEvent) /\ WF_vars(TakeSignal) /\ WF_vars(TakeKey)
  /\ WF_vars(Shutdown)
  /\ WF_vars(Reader)

Spec == Init /\ [][Next]_vars /\ Fairness

------------------------------------------------------------------------------
(* Correctness. *)

\* Every variable has its type; the channels respect their capacities.
EntryType == [time : Nat, status : {"up", "down", "error"}, duration : Nat,
              fails : Nat, stats : E!StatsType]

TypeOK ==
  /\ E!TypeOK
  /\ runPc \in {"probing", "stepping", "sending", "waiting", "closed"}
  /\ count \in Counts /\ left \in 0..count
  /\ events \in Seq(E!EventType) /\ Len(events) <= EventCap
  /\ cancelled \in BOOLEAN /\ permErr \in BOOLEAN /\ raw \in BOOLEAN
  /\ reason \in {"count", "quit", "interrupt", "term", "perm"}
  /\ sigCh \in Seq({"SIGINT", "SIGTERM"}) /\ Len(sigCh) <= 1
  /\ keyCh \in Seq({"q", "ctrlC", "eof"}) /\ Len(keyCh) <= 1
  /\ typed \in Seq({"q", "ctrlC", "eof"})
  /\ keysFrom \in {"open", "closed", "nil"}
  /\ reader \in {"none", "reading", "exiting", "done"}
  /\ log \in Seq(EntryType)
  /\ handled \in Nat
  /\ shown \in E!Statuses
  /\ exit \in {NotYet, 0, 3, 130, 143}
  /\ signals \in 0..MaxSignals /\ keys \in 0..MaxKeys
  /\ asked \subseteq {"SIGINT", "SIGTERM", "q", "ctrlC", "permission", "count"}

\* The display lags behind the engine but never skips or reorders: what it
\* shows, the events on their way and the engine's status form one chain.
Pending == events \o (IF runPc = "sending" THEN <<ev>> ELSE <<>>)

DisplayCatchesUp ==
  /\ handled + Len(Pending) = totalProbes
  /\ \A i \in 1..Len(Pending) :
        Pending[i].prevStatus = IF i = 1 THEN shown ELSE Pending[i-1].status
  /\ status = IF Pending = <<>> THEN shown ELSE Pending[Len(Pending)].status

\* The log is a timeline: every entry begins when the one before it ends, and
\* no status is logged twice in a row, whatever the lag of the consumer; a run
\* that ends leaves the status it ends in as the last entry, up to the end.
LogIsTimeline ==
  /\ \A i \in 2..Len(log) : /\ log[i].time - log[i].duration = log[i-1].time
                            /\ log[i].status # log[i-1].status
  /\ ~Running =>
       IF status = "unknown" THEN log = <<>>
       ELSE /\ log # <<>>
            /\ log[Len(log)].status = status
            /\ log[Len(log)].time = now

\* The exit code names something that did happen.
ExitHasCause ==
  CASE exit = 130    -> asked \cap {"SIGINT", "ctrlC"} # {}
    [] exit = 143    -> "SIGTERM" \in asked
    [] exit = 3      -> "permission" \in asked
    [] exit = 0      -> asked \cap {"q", "count"} # {}
    [] exit = NotYet -> TRUE

\* --count N: never more than N probes; a run nobody interrupts has N.
CountHonoured ==
  count > 0 => /\ totalProbes <= count
               /\ ~Running /\ ~cancelled => totalProbes = count

\* However a stop is asked for, with the channel of events full, a probe in
\* flight or another stop already under way, the process ends; and a run of
\* --count probes ends by itself.
StopHonoured == (asked # {} \/ count > 0) ~> ~Running

\* The run is a delivery of results that stops cleanly (module Session): after
\* a stop at most the one result that had passed the test of ctx (run.go:23) is
\* still stepped, and it is shown and logged like every other before the end.
Phase == IF ~Running THEN "ended"
         ELSE IF cancelled \/ runPc = "closed" THEN "stopping"
         ELSE "running"

Abstract == INSTANCE Session WITH
              phase <- Phase, taken <- (runPc = "stepping"),
              observed <- totalProbes, reported <- handled

ImplementsSession == Abstract!Spec

\* app.go:283 "Permission problem: report with guidance, exit 3": a run in
\* which Main met a permission error exits 3.
PermissionReported == ~Running /\ permErr => exit = 3
==============================================================================
