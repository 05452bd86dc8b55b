# dohping in TLA+

dohping watches one host: it probes it at an interval (ICMP echo or a TCP
connection), folds the results into a status with hysteresis, shows that status
on a terminal, as a line or as a block of lines redrawn in place, and logs every
status that ends. This directory holds its formal model: TLA+ modules translated
from the Go source, TLC configurations that check them on small instances, and
proofs that TLAPS checks for every value of the constants. `PROJECT.json` is the
machine-readable index: which run checks what, which source lines every
definition stands for, the mutants that show each property can fail, the hazards
and the findings.

To check a module: `tlc -config engine.cfg MCEngine.tla` (the pairs are in the
table of runs below). To check a proof: `tlapm EngineProofs.tla`.

## 1. The system

| Part | Source | State it keeps | Operations | Modelled in |
|---|---|---|---|---|
| probe contract | `internal/ping/ping.go` | none | `Outcome`, `Result`, `IsPermissionError` | ProbeResult |
| status engine | `internal/state/state.go` | status and its start, runs of failures and successes, RTT statistics, totals | `Step`, `Stats.Add` | Engine, EngineHistory, Hysteresis |
| probe loop | `internal/app/run.go` | probes left of `--count`, ticker | `Run`: probe, step, send, wait | Monitor, ProbeLoop |
| run loop, shutdown | `internal/app/app.go` | stop reason, permission error, key channel, deferred calls | the start of `Main`, its `select`, `logEvent`, `logFinal`, the key reader, every way out | Startup, Monitor |
| signals | `internal/signalx/*` | channels of capacity 1 | `Listen`, `Winch` | Monitor, Startup |
| ICMP tier chain | `internal/ping/fallback.go` | active tier, which tiers ever worked | `Probe`, `Close` | Fallback, ProbeLoop |
| ICMP echo probe | `internal/ping/icmp.go` | socket, sequence counter | `Probe` | IcmpProbe |
| TCP probe, system ping | `internal/ping/tcp.go`, `pingcmd.go` | none between calls | `Probe` | Classify, ProbeLoop |
| status log | `internal/logx/logx.go` | an open file | `Open`, `Log`, `Close` | LogFile, Monitor |
| command line | `internal/cli/cli.go` | none | `Parse`, `validate` | CommandLine |
| layout | `internal/output/format.go` | HOST width, number of right columns kept | `Resize`, `FormatLine`, `Header` | Layout |
| plain display | `internal/output/display.go` | live line, physical rows it takes, last width, pending resize | `Handle`, `Tick`, `Finalize` | PlainDisplay |
| window display | `internal/output/window.go` | history, live line, last frame, last width, two kinds of pending resize | `Handle`, `Tick`, `Redraw`, `Finalize` | Window |
| colour theme, entry point | `internal/theme`, `cmd/dohping` | none | whether to colour; terminals found, exit | Startup (partly) |
| console, version, debug log, scripts | `internal/console`, `version`, `debugx` | none that behaviour depends on | | not modelled |

How they interact. `Main` reads the command line and sets up one thing after the
other: the probe (for ICMP a chain of up to three tiers), the log file, the raw
terminal with its key reader, a display, the signals, the repaint ticker. Each
leaves a deferred call that gives it back. Then `Main` starts a goroutine for
`Run`. That goroutine calls the probe at the pace of a ticker, steps the engine
with the result and sends the event over a buffered channel of eight. `Main`
receives events, the repaint ticker, signals, SIGWINCH and keys in one `select`,
and passes events to the display and the log. A stop cancels a context that `Run`
and the probe see; `Main` goes on until the channel of events is closed and
drained, then finalizes the display, logs the last status and returns through the
deferred calls. A third goroutine reads keys from a raw terminal, hands one over
and leaves.

What is hard:

- *Three goroutines and a user.* A result may be stepped, or its event sent,
  after the cancellation; the channel may be full when the run is told to stop;
  `Main` lags behind the engine and yet reads it for the last log entry; several
  reasons to stop meet.
- *Counters that stand for a history.* The engine keeps two counters and one
  statistics record, and errors hide a run of answers without ending it.
- *Probes slower than their interval.* The ticker drops ticks, and a call may
  escalate through tiers that each take their own timeout.
- *A lossy network and a shared socket.* Replies are late, duplicated or
  someone else's; a probe inherits what the one before left in the socket.
- *A file that outlives its writers.* Writes are short or fail, the machine
  crashes before a sync, and another run appends to the same file; errors are
  dropped.
- *A terminal that moves the text.* It reflows some time after the program can
  read the new width; the program must not write in between, and must afterwards
  find rows that have moved without asking where they are.

## 2. What makes each part correct

| Part | Properties |
|---|---|
| engine | the counters implement the verdict over the whole history (`ImplementsHysteresis`); counters and status agree (`ThresholdsHold`, `StatsMeaningful`); no sample and no time is lost or counted twice (`SamplesConserved`, `PeriodsPartitionRun`, `StatsDescribePeriod`); a status is one event (`OneEventPerPeriod`) |
| run | nothing observed is skipped or reordered on its way (`DisplayCatchesUp`); the log is a timeline (`LogIsTimeline`); every stop ends the process (`StopHonoured`) with an exit code that has a cause (`ExitHasCause`); `--count` is exact (`CountHonoured`); the whole is an orderly session: what is taken before the stop is still reported, nothing is taken after it (`ImplementsSession`) |
| probe loop and probes | probes keep their cadence and never come in bursts (`Cadence`); a verdict is justified by how the attempt ended, across escalations (`VerdictJustified`); no tier is left that has worked, or during a shutdown (`ProvenTierStays`), each is closed once (`ClosedOnce`), a call returns (`CallReturns`) |
| ICMP probe | up needs this probe's own reply (`UpMeansAnswered`), down its absence (`DownMeansSilence`), a probe returns, whatever arrives (`ProbeReturns`) |
| log file | what was acknowledged stays, whole and in order (`AckedDurable`); a fault spoils no more than the line behind it (`DamageBounded`) |
| command line, start and end | the order of arguments does not matter (`OrderIrrelevant`); what is accepted can be run (`AcceptedIsRunnable`); whatever was set up is given back (`ReleasedOnExit`); stdout gets what was asked for (`OutputAsAsked`) |
| layout | nothing wraps above the floor (`NoWrapAboveFloor`), wider never shows less (`WiderKeepsColumns`) |
| window | what is above the block stays (`AboveUntouched`), the block is rewritten where the terminal moved it (`BlockInPlace`), it shows the latest statuses (`ShowsLatest`), nothing is written mid-reflow (`NoWriteMidReflow`), every hold ends (`Settles`) |
| plain display | the scrollback is exactly the finished lines, and one frozen line or dash per restart (`ScreenExact`), a held line is taken up again (`PlainSettles`) |

## 3. The modules

```
ProbeResult <- Engine <- EngineHistory (refines Hysteresis)  <- MCEngine, EngineProofs
ProbeResult <- Monitor (has an Engine; refines Session)      <- MCMonitor, MonitorProofs
ProbeResult <- Fallback, Classify <- ProbeLoop               <- MCProbeLoop, ProbeLoopProofs
ProbeResult <- IcmpProbe                                     <- MCIcmpProbe, IcmpProbeProofs
LogFile                                                      <- MCLogFile, LogFileProofs
CommandLine <- Startup                                       <- MCStartup, StartupProofs
Layout                                                       <- MCLayout, LayoutProofs
Terminal    <- Display <- Window, PlainDisplay (use Layout)  <- MCWindow, MCPlainDisplay,
                                                                DisplayProofs (both)
```

**ProbeResult** is the contract between probes and engine. An error is its class
(permission or other), a round-trip time a number.

**Engine** is `Step` with one action per outcome (`StepUp`, `StepDown`,
`StepError`) over the fields of the struct, and the injected clock. `ev` is the
event returned by the latest call. **EngineHistory** adds variables that only
watch: all results, when the current status began, and the totals that the events
reported. **Hysteresis** is the abstract specification: no counters, the status
is the outcome of the latest probe that decided.

**Monitor** is the process while it runs. `runPc` is where the goroutine of `Run`
is; each case of the `select` in `Main` is an action; `Shutdown` is what follows the
loop. A probe's return is three steps, as in the code: the test of the context
(`ProbeReturns` or `DropResult`), the step of the engine (`StepResult`), the send
(`Send`); `Main` may cancel between any two of them. The engine is an instance, whose
step is one action because no other goroutine looks at it before the channel is
closed. Here the
ticker of the probe loop is the possibility that an interval passes; the repaint
ticker and SIGWINCH change nothing that Monitor keeps and are actions of the
display modules instead. `asked` is a history variable: the ways in which a stop
was asked for. **Session** is the abstract specification: take a result, observe it,
report it, stop, end. After the stop nothing is taken; a result that was taken before
is still observed and reported.

**Fallback** is the chain of tiers: `Probe` is a loop, one action per tier tried.
**Classify** holds the three tables that make a result of the way an attempt
ended: a TCP dial error in the order of the code's tests, the exit code and the
complaint of the ping command, with the two phrases that the code knows and the
system's text that it does not, a socket's write and read. **ProbeLoop** composes the two with
`Run` in time: a ticker whose channel holds one tick (`Ticker`), calls of `Probe`,
and attempts that take up to their timeout, or for the ping command up to the next
whole second (`CommandWait`). A TCP dial is a chain of one. `began` and `ended` are
the history of the calls.

**IcmpProbe** is one socket over consecutive probes. The network loses, delays and
duplicates replies; other programs' packets reach a raw socket as well. Time is
counted in ticks; the process reads what is there before the next tick, and then
more may come: packets are bounded between two ticks and not in total.

**LogFile** is a file and the processes that append to it. An entry is two pieces
of text of which the second ends the line, so that a write can stop in its midst;
a piece is `safe` once it is on the disk. `Write`, `WriteShort` and `WriteFails` are
what `WriteString` may do, `Sync` and `SyncFails` what follows, `Kill` ends a process
and `Crash` the machine: pieces that were not synced survive, become holes, or are
cut off with the end of the file.

**CommandLine** is `Parse` and `validate` as operators: arguments are flags with
the text of a value, positionals, or `--`; the result is an action and the options.
**Startup** is `Main` around its loop: one action per thing set up, `defers` for the
deferred calls, `held` for what the process has, `Return` for every way out, and
`Kill` for a SIGTERM that nobody listens for. The loop itself is `Display` and
`LoopEnds`; Monitor has its inside.

**Layout** has `Resize` as its one action and the cells of each row as operators.
`Retained` is the loop of `Resize` said by what it ends in. Text, padding and
colours are left out.

**Terminal** is external: a terminal that reflows, modelled from the sequences the
displays send (CR, LF, cursor up and down, clear to the end of line). A row is
whose line it is and how many cells it takes; a line that is longer than the
terminal is wide takes several rows joined by soft wraps; on a change of width the
lines are wrapped anew and the cursor stays at its place in the text.
**Display** is what the displays share: the variables that both keep, the terminal at
the start, and what it makes of a new size.
**Window** and **PlainDisplay** are the two displays over it: `Handle`, `Tick` and
`Finalize` with everything they call (observing the width, holding, the choice
among repaint, reclaim and restart, the walk back, clearing of stale rows), and
as environment resizes, the reflow that follows, and the settle delay.
PlainDisplay's `mode` is live, lines (`--live=off`: a line is printed when it is
finished) or quiet. `kept` says what the program has meant to leave behind; the
properties compare it with what the terminal really holds.

Operators called *mutants* in comments (`ForwardOrDrop`, `TickerPiles`, ...) are
plausible bugs that the specification does not use; putting one in the place of
its original makes the property it is listed with in `PROJECT.json` fail.

## 4. The runs

| Run | Module | Distinct states | What it shows |
|---|---|---|---|
| `engine` | MCEngine | 75,347 | every sequence of up to six results with the clock moving between them |
| `monitor` | MCMonitor | 545,136 | every interleaving of the three goroutines, two signals and a key |
| `fallback` | MCProbeLoop | 540,246 | four calls by a dial or a chain of one to three tiers, in time, cancelled at any point |
| `icmp` | MCIcmpProbe | 80,196 | three probes on one socket, up to two foreign or duplicated packets in every tick |
| `log` | MCLogFile | 1,131,028 | two processes on one file, with two faults and two crashes |
| `startup` | MCStartup | 291,546 | every command line of up to three arguments, and every way through `Main` |
| `layout` | MCLayout | 121 | every resize between two widths of up to 120 cells |
| `window` | MCWindow | 31,302 | three statuses, three resizes among five sizes |
| `plain` | MCPlainDisplay | 15,684 | the same for the plain display, live, not live and quiet |
| `permission_exit`, `icmp_wrap`, `window_home` | | | the findings of section 7 |

Bounds, and why they are enough for what is asked:

- *engine*: thresholds 2 and 3, two round-trip times, six results and two clock
  ticks. Six results are enough for a run of each kind to complete, to be hidden
  by an error and to be completed again. The proofs remove the bound.
- *monitor*: thresholds 1, so that every result changes the status and every event
  matters; a channel of one, so that it is full after one event as the real one is
  after eight; `--count` unlimited or 2, with three probes at most. Two signals
  meet in a channel of one, one key meets both. The proofs remove all of these.
- *fallback*: an interval of 2, a timeout of 3 and a command's wait of 4, so that
  one attempt outlives its interval, an escalation several; three tiers are all
  there are. Four calls prove a tier, break it and go on; 25 units of time are
  longer than the longest four calls.
- *icmp*: eight sequence numbers for three probes, that is a counter that does not
  wrap; `icmp_wrap` has two, that is one that does. `MaxNoise` allows two foreign or
  duplicated packets between any two ticks, for ever: traffic that a deadline set anew
  for each packet would never outlast.
- *log*: two processes (symmetric), two entries each, each started twice: a fragment
  can be followed by the same process, by the other, or by a new start. Two faults
  or crashes meet in one line. `AckedDurable` is proved without bounds.
- *startup*: three arguments of 33 tokens, which include for every flag a value that
  is accepted and, where there is one, a value that is refused; every conflict is
  between two flags, and the third argument is the host.
- *layout*: a host that needs more than the widest HOST column, and widths from
  below the floor to beyond the full line: every number of columns occurs.
- *window, plain*: two lines under a header. The widths are one at which nothing is
  dropped, one or two at which the rows drawn before wrap, and (window) one below
  the floor; of the heights one leaves room for the reflowed block and one does
  not. Three resizes are a drag that ends where it began, or a second drag. Zero
  or five rows are in use before, so that the block starts at the top or scrolls.

`engine`, `monitor`, `fallback`, `icmp` and `log` really stop (results, calls, entries
and time are bounded, or the process exits), so they do not check for deadlock; that
the process ends rather than hangs is `StopHonoured`, `CallReturns` and
`ProbeReturns`. `startup`, `window` and `plain` end in an explicit `Done` and are
checked for deadlock: `Main` never gets stuck on its way out.

### Fairness

- *Monitor*: weak fairness of the goroutine of `Run` and of each case of `Main`'s
  `select`. Go picks among ready cases at random, so none is left for ever, and
  signals and keys are finitely many. A probe returns because it has a timeout.
  The user is under no obligation.
- *ProbeLoop, IcmpProbe*: `Run` goes on, an attempt ends, time passes and a readable
  socket is read. In ProbeLoop `Run` is scheduled within a unit of time; a scheduler
  that delays it longer delays a probe, which is no matter of the code.
- *Window, PlainDisplay*: the run loop's ticker repaints every second, a terminal
  that was resized reflows in the end, time passes. A resize is never obliged, and
  there are finitely many: a user who never stops dragging holds the display for
  ever, in the model as in the code.
- *LogFile, Startup, Engine, Layout*: safety only.

### What the runs assume of the world

*LogFile*: one `write` under `O_APPEND` goes to the end of the file in one piece,
what it takes of its bytes; a sync puts on the disk everything written to the file
so far, also by others; the directory entry of a new file survives a crash. `Main`
drops the errors of `Log` (app.go:378, 392), so that an entry that was not
acknowledged may be missing without a word; the properties are about the others.

*IcmpProbe*: packets come no faster than the process reads them, so that it gets to
see its deadline (the Go runtime would refuse a read behind the deadline even then).

*Displays*: the size is read and the frame written in one step (window.go:194, 350); a
resize between the two is one of which the program could not know. The terminal is at
rest when the first frame is drawn; it has reflowed
to a width that the program knows of before that width's settle delay of 300 ms has
passed; a change of height alone takes effect at once; rows above the screen come
back when there is room. These are the premises of `docs/terminal-rendering.md`,
and without them no bookkeeping could find the block.

Seven further races are switched off in the passing runs (the constant `Races`),
because the code does not handle them. With the name of one in `Races`, TLC finds
a counterexample:

| Module | Race | What then fails |
|---|---|---|
| Window | `home`: a resize between a redraw that cleared rows and the next one | `AboveUntouched` (run `window_home`) |
| Window | `finalize`: the run ends while the terminal reflows | `BlockInPlace` |
| Window, PlainDisplay | `flicker`: a width left and taken up again between two looks at it | `NoWriteMidReflow`; `ScreenExact` |
| PlainDisplay | `change`: a status change or the end while the terminal reflows | `ScreenExact`; it also ends the freeze for the redraws behind it |
| PlainDisplay | `straddle`: a width at which the live line takes one row more than its finished form | `ScreenExact`: the dash replaces the tail of a line of data |
| PlainDisplay | `raw`: without live mode on a terminal that the key reader has made raw | `ScreenExact`: a bare line feed keeps the column (display.go:184) |
| Startup | `kill`: SIGTERM between making the terminal raw (app.go:142) and listening for signals (app.go:189), or on the way out when listening has ended and the mode is not yet restored | `ReleasedOnExit`: the shell gets a raw terminal |

Three of them are spoken of in the repository. `finalize` is accepted by a comment in
`window.go:154-157`. Of `change`, display.go:191 ("finalize must land correctly even
mid-episode") and "Force render" in `docs/terminal-rendering.md` ("The final block has to
land correctly now") say that it is handled, and of `straddle`, display.go:315-324 says
that the row marked is "provably a single row"; the counterexamples show that the code
does not keep what these say. The others are not mentioned. Heights below that of the block are left out: there cursor-up stops at
the top of the screen.

## 5. The proofs

Eight modules, all checked to the last leaf. Nothing is assumed but the named
assumptions on the constants, all of which TLC evaluates in the runs
(`EngineAssumption`: thresholds of at least 1, as the command line enforces;
`LayoutAssumption`: TIME has 8 or 25 cells; `MonitorAssumption`, `FallbackAssumption`,
`ProbeLoopAssumption`, `IcmpAssumption`, `LogFileAssumption`: bounds are numbers and
capacities at least 1; `ProbeResultAssumption` and `ClassifyAssumption` where results
are involved, the latter that a probe can be denied or fail for another reason;
`StartupAssumption`, `DisplayAssumption`, `WindowAssumption`: the tokens are
arguments, the sizes are sizes, a window has a line). Seven theorems have a hypothesis besides, each the
absence of something that the code does not handle (sections 4 and 7): the sequence
counter does not wrap (`DownMeansSilenceCorrect`), nobody sends a SIGTERM while nobody
listens (`ReleasedCorrect`), no width is left and taken up again unseen
(`NoWriteMidReflowCorrect`), the window has more than one line (`ShowsLatestCorrect`), and
for what is on the screen (`AboveUntouchedCorrect`, `BlockInPlaceCorrect`,
`ScreenExactCorrect`) none of the races of section 4 and heights that leave room for what
is rewritten: `Undisturbed`, `PlainCalm`.

- **EngineProofs**: `TypeCorrect`, `HysteresisCorrect`, `StatsCorrect`. The inductive
  invariant is `EngineInv`: the type invariant, `ThresholdsHold` (inductive given
  the types), and two facts about the statistics. `StatsMeaningful` speaks of a
  quotient and is not inductive; `StatsBounded` says the same of products
  (`Count * Min <= Sum <= Count * Max`), which `Add` preserves
  (`AddBounded`) and from which the mean follows (`MeanBetween`). Induction also
  needs `UpHasSample`: the sample is added after the flip.
  `OneEventCorrect` needs the types only.
  `SamplesConservedCorrect`, `PeriodsPartitionCorrect` and `StatsDescribeCorrect`
  come from `HistoryInv`, in which the partition is kept without the clock
  (`TimePartition`: what has been reported ends where the current status starts),
  so that a tick disturbs nothing. The work is in `SamplesAppend` and
  `DescribeAppend`: what one more result does to a set of indices, its
  cardinality and its extremes.
  `RefinementCorrect`: the engine implements the verdict over
  the whole history. The invariant `Refines` says that the counters are the
  cardinalities of the two runs and that the status is the verdict. `RunLast` is
  what one more outcome does to a run, `VerdictLast` what it does to the verdict,
  `EngineDecides` that the engine's guards are the abstract decision.
- **MonitorProofs**: six theorems about a run, for every threshold, capacity of the
  channel, number of probes, signals and keys.
  `CountHonouredCorrect` adds up probes made, probes left and the one whose event is
  being sent (`CountInv`). `ExitHasCauseCorrect` follows a wish to stop through its
  channel: `KeyInv`, `SigInv` and `ErrInv` say that what waits there was asked for,
  `StopInv` that the reason Main has noted was, and that until it notes one `Run`
  leaves only at the end of the count. For the other three the queue `Pending`
  (the channel, and the event whose send blocks) is one sequence to which a step
  of `Run` appends and from which Main takes the head (`PendingSteps`).
  `DisplayCatchesUpCorrect` is that the statuses along it form a chain
  (`ChainGrows`, `ChainShrinks`). `LogIsTimelineCorrect` needs the times along it:
  there is a `g` such that `g[i]` is when the status after the i-th event began, and
  every duration in the queue reaches back to it (`Begins`), so that the log ends at
  `g[0]` and the engine's `start` is the last (`TimeInv`); the lag of the consumer is
  the length of `g`. `ImplementsSessionSafely` maps every step to one of Session or
  to a stutter: the test of the context is `Take`, so that it must not succeed after
  the stop, and the end needs that nothing is in hand. `TypeCorrect` types everything the run keeps, through the engine's own
  actions (`EngineTypes`) and the record of statistics an event carries.
- **ProbeLoopProofs**: five theorems, for every chain, interval and timeout.
  `ChainInv` (types, `ProvenIsCurrent`, `ClosedOnce`) is inductive for Fallback
  whatever its tiers answer, and a step of ProbeLoop is a step of it
  (`LoopStepIsChainStep`), which in a cancelled run keeps its tier
  (`ShutdownKeepsTier`): `ProvenTierStaysCorrect`, `ClosedOnceCorrect`,
  `LoopTypeCorrect`. `CadenceCorrect` needs when the ticker last fired (`LastFire`,
  that is `now - sinceTick`): a tick is in the channel exactly if the ticker fired after
  the latest start, and then it has fired as often as there were starts
  (`TickAfterStart`); a wait is shorter than an interval
  (`WaitIsShort`), and between two starts the ticker has fired (`FiredBetween`).
  `VerdictJustifiedCorrect` takes the tables of Classify one by one
  (`DialJustified`, `CommandJustified`, `SocketJustified`). A permission error is
  equivalent to a denial that is not in `Overlooked`.
- **IcmpProbeProofs**: `UpMeansAnsweredCorrect` for any number of probes and packets:
  every packet in flight or in the socket is a request's reply or a stranger's
  (`PacketsOK`), and the reply to the probe under way is in the socket only if it was
  heard (`UpInv`).
  `DownMeansSilenceCorrect` under `MaxProbes < SeqMod`, the counter does not wrap:
  `DownInv` says that a reply to the probe under way that has arrived in time waits
  in the socket while the deadline is still to come.
- **LogFileProofs**: `AckedDurableCorrect` for any number of processes, entries, faults
  and crashes. `FileOK` types the pieces, `WritingOK` says what of the current entry
  of each process is in the file and what is still to be written, `AckedOK` where an
  acknowledged entry is and that it is safe, `Ordered` that the pieces of one process
  are in the order of its entries. A crash keeps all of it because it cuts the
  file only behind what is safe. `DamageBoundedCorrect` adds `UnbrokenOK`: an entry that
  was not written in parts stands in the file with its two pieces side by side, so that
  only a piece that was in the file before can share its line.
- **LayoutProofs**: `TypeCorrect`, `NoWrapCorrect`, `WiderKeepsCorrect` for every
  width, host and time format. `Retained` is a CHOOSE, so `RetainedIs` first shows
  that a value exists; the invariant is that HOST and the columns are those of the
  latest width.
- **StartupProofs**: `ReleasedCorrect` for every command line and every way through
  `Main`. The invariant (`DefersOK`) is that whatever is held is in the deferred calls
  until the process is gone; `OnlyModeIsLost` is what remains without the hypothesis
  about SIGTERM. `OutputCorrect` ties what has been written to the phase (`OutputInv`).
  `AcceptedCorrect` and `OrderCorrect` are about `Parse` on command lines of every
  length. There `ParseArgs` is a recursive function over the arguments read so far;
  `ParseArgsReads` shows that it exists and steps as written. The induction is on
  properties that no lemma takes as a parameter: `LeastOf` gives the least length at
  which one fails, from the well-founded order of the numbers. A swap of neighbours
  changes two steps of the function and nothing behind them.
- **DisplayProofs**, the window: `NoWriteMidReflowCorrect` from `HoldInv`: while the
  terminal reflows, the display has not seen the width yet or holds its redraws; every
  writer looks first (`RedrawHolds`). `ShowsLatestOpen` and `ShowsLatestCorrect` from what
  the history holds (`PushLatest`: the statuses that have ended, the newest last, cut to
  the visible lines) and what a frame shows of it (`FrameShows`), across every change of
  the number of visible lines.
- **DisplayProofs**, the terminal: what both displays need of rows that wrap. `Displays(t, L)`
  says that the rows of `t` are those of the lines `L` at its width, and that the cursor is
  in the last one, on the screen. Every line has its place among the rows
  (`EveryLinePlaced`), so that `t` is read as `L` again (`DisplaysLogical`) and shows the
  same `L` after any reflow (`RewrappedShows`). A walk up by the rows of the last lines,
  new rows, and the clearing of those they do not cover put new lines in the place of
  the last ones and leave the others (`OverShows`), provided that the walk is as high as
  the old lines are and that all of them are on the screen.
- **DisplayProofs**, what is on the screen: `AboveUntouchedCorrect` and `BlockInPlaceCorrect`
  from `BlockInv`: the terminal displays the user's lines, what restarts left, and the
  block, in this order; unless a resize is pending, `lastPhysRows` is the span of the block
  at the width last drawn for, and a block with room on the screen is on it. These two
  are the provisos of `OverShows`; the rest of the proof is that each of repaint, reclaim
  and restart finds them, also after the terminal has moved the block
  (`DrawKeeps`, `RewrapKeeps`). `ScreenExactCorrect` from `PlainInv` says the same of one
  line in place of a block, with a dash in place of the old one when a restart
  marks it (`MarkShows`); it counts besides what is left behind without live mode
  (`Counted`). The module extends both displays, which is why names that both would have
  begin with Plain in one of them.

The hypotheses are not empty: `Undisturbed` and `PlainCalm` hold of the constants of the
runs `window` and `plain`, and TLC, given `BlockInv` and `PlainInv` as further invariants
there, finds them kept.

Only model-checked: all liveness (`StopHonoured`, `CallReturns`, `ProbeReturns`,
`Settles`, `PlainSettles`) and so the fair half of `ImplementsSession`, because the prover does
not reason about ENABLED. Every invariant of a passing run is a theorem.

## 6. Not modelled

- *Console, version, debug log, scripts*: no behaviour depends on them. Of the theme
  only whether to colour is in Startup, of the entry point only the terminals it
  finds and the exit.
- *How package flag splits an argument* (`-i5`, `--interval=5`, a missing value),
  which texts are numbers, durations and ports beyond the examples in `Numbers` and
  `ProbeChoices`, and the wording of messages, help and summary.
- *Resolution of the host*: it succeeds or not (`BuildProbe`).
- *The text of lines and entries*: padding, colours, animation, CSV and JSON fields.
- *Round-trip times*: parsed from the ping command's output or measured, they are
  any of a set.
- *Terminals* that do not reflow, terminals of unknown size, and the wrap a terminal
  holds pending when a row is exactly full.
- *Two processes with the same 16 bits of pid*, which accept each other's replies:
  IcmpProbe assumes that identifiers are unique on the host.

## 7. Findings

1. `permission_exit`: after a permission error every later signal or key
   overwrites the reason of the stop, and the process exits 143, 130 or 0 without
   the guidance that `app.go:283` promises ("exit 3").
2. `icmp_wrap`: the sequence counter grows without bound but is compared with the
   16 bits that come back; from probe 65,536 on a host that answers is down.
3. `window_home`: a redraw that cleared rows leaves the cursor in column 0; when
   the next resize wraps that row, the next reclaim walks one row too far and
   overwrites a row that is not the program's.

Seen while modelling, without a run of its own:

- A probe that waits for its ICMP reply does not see the cancellation and waits out
  its timeout (`icmp.go:131`); `ping.go:40` asks for a prompt return.
- A window of a single row is never rewritten in place, since the return to column 0
  is only written together with a cursor-up (`window.go:306`); with one visible line
  `Finalize` has no row for the last status and the block ends blank
  (`window.go:250`).
- On a change to down the log entry of the up period carries the failures of the
  down period that follows (`state.go:196`; the comment says it describes the
  state that ended, the test pins what the code does).
- A second key pressed while the reader hands over a Ctrl-D raises no signal and
  is read by nobody.
- `--window=false --window-lines 5` turns the window on, although "never silently
  resolve ambiguity" (`cli.go:269`); `--color=always` has no effect off a terminal,
  where it is the same as `auto`.
- Two denials lose their class and are errors like any other, so that the run goes on
  in error instead of ending with guidance: the system's "Permission denied", while
  `permissionMessage` looks for the phrase in lower case (`pingcmd.go:111`), and a ping
  command that may not be started, whose error is formatted with `%v`
  (`pingcmd.go:91`). They are `Overlooked` in ProbeLoop, and `VerdictJustified` says of
  them what the code does.
- The ping command's `-W` takes whole seconds, so that replies after the
  timeout still count as up.
- On a ping socket `WriteTo` is given a `*net.IPAddr`, which an unprivileged socket
  may refuse; the chain then goes on to the next tier. A tier that silently receives
  nothing is proven by its first down result and kept (`fallback.go:45`, documented
  as intended in `fallback.go:25-30`).
- `--` protects one argument only: flags are looked for again behind it.
- Comments in `format.go` give the essentials floor as 47 cells; the rows the code
  writes take 46, as the documentation says.

## 8. Plan

1. **Displays**: a window of one line and heights below the block; the SIGWINCH
   channel in front of Tick.
2. **Monitor**: the second key; a larger channel, which the proofs already cover; the
   turns of `Main`'s loop that change nothing, so that a spin could be seen.
3. **Fallback over IcmpProbe**: a tier that opens but never receives, to decide what
   a first down should prove.
4. **Proofs**: how far a display is from `ScreenExact` under each race, rather than
   that it is without them.
