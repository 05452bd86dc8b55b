------------------------------- MODULE Startup -------------------------------
(***************************************************************************)
(* Main (internal/app/app.go) around its loop: the command line is read, the *)
(* probe, the log, the raw terminal, the display and the signals are set up  *)
(* one after the other, each with the deferred call that gives it back, and  *)
(* every return runs the deferred calls, the latest first.  What happens in   *)
(* the loop is module Monitor.                                               *)
(***************************************************************************)
EXTENDS CommandLine

CONSTANTS Tokens,    \* bound: the arguments that occur
          MaxArgs,   \* bound: how many of them
          Races      \* "kill": SIGTERM also while the terminal is raw and the signal unhandled

ASSUME StartupAssumption ==
  /\ \A a \in Tokens : IsArgument(a)
  /\ MaxArgs \in Nat
  /\ Races \subseteq {"kill"}

VARIABLES args,
          phase,      \* what Main does next
          opts,       \* the options, with what they were given as
          env,        \* stdin and stdout are terminals, NO_COLOR is set, TERM is dumb
          defers,     \* the deferred calls, by what they give back
          held,       \* what the process has: open files, the raw mode, handlers
          readerLeft, \* the key reader has gone
          window, live, color,   \* the display, and whether it is to be coloured
          wrote,      \* what has been written to stdout
          exit        \* the exit code; NotYet, or Killed

vars == <<args, phase, opts, env, defers, held, readerLeft, window, live, color, wrote, exit>>

NotYet == -1
Killed == -15

Environments == [stdin : BOOLEAN, stdout : BOOLEAN, noColor : BOOLEAN, dumb : BOOLEAN]

On(flag) == opts[flag] = "true"

Init ==
  /\ args \in UNION {[1..n -> Tokens] : n \in 0..MaxArgs}
  /\ phase = "parse"
  /\ opts = Defaults
  /\ env = [stdin |-> FALSE, stdout |-> FALSE, noColor |-> FALSE, dumb |-> FALSE]
  /\ defers = <<>> /\ held = {} /\ readerLeft = FALSE
  /\ window = FALSE /\ live = FALSE /\ color = FALSE
  /\ wrote = {} /\ exit = NotYet

------------------------------------------------------------------------------
\* A return: the deferred calls are still to be made.  The mutant leaves at once.
ReturnAtOnce(code) == exit' = code /\ phase' = "gone"

Return(code) == exit' = code /\ phase' = "returning"

\* Something is set up, and given back by a deferred call.
Acquire(what) == held' = held \cup {what} /\ defers' = Append(defers, what)

\* The command line decides: it is refused, asks for help or the version, or a run
\* starts.  The process forgets it, and meets its environment.
ReadCommandLine ==
  /\ phase = "parse"
  /\ \E p \in {Parse(args)} :
       /\ opts' = p.opts
       /\ CASE p.action = "usage"                -> Return(2) /\ UNCHANGED wrote
            [] p.action \in {"help", "version"}  -> Return(0) /\ wrote' = {p.action}
            [] p.action = "run"                  -> phase' = "probe" /\ UNCHANGED <<wrote, exit>>
       /\ IF p.action = "run" THEN env' \in Environments ELSE UNCHANGED env
  /\ args' = <<>>
  /\ UNCHANGED <<defers, held, readerLeft, window, live, color>>

\* buildProbe: the host is resolved and a socket opened, or not.
BuildProbe ==
  /\ phase = "probe"
  /\ \/ Acquire("probe") /\ phase' = "log" /\ UNCHANGED exit
     \/ Return(3) /\ UNCHANGED <<defers, held>>
  /\ UNCHANGED <<args, opts, env, readerLeft, window, live, color, wrote>>

OpenLog ==
  /\ phase = "log"
  /\ IF opts["log-file"] = ""
     THEN phase' = "keys" /\ UNCHANGED <<defers, held, exit>>
     ELSE \/ Acquire("log") /\ phase' = "keys" /\ UNCHANGED exit
          \/ Return(1) /\ UNCHANGED <<defers, held>>
  /\ UNCHANGED <<args, opts, env, readerLeft, window, live, color, wrote>>

\* theme.Enabled.  In the mutant an explicit "always" is stronger than the terminal.
ColorEnabledAlways ==
  ~On("no-color") /\ (opts["color"] = "always" \/ (opts["color"] = "auto" /\ env.stdout))

ColorEnabled ==
  /\ ~On("no-color") /\ opts["color"] # "never"
  /\ ~env.noColor /\ env.stdout /\ ~env.dumb

\* startKeyReader: a terminal on stdin is made raw, or there is a warning.
StartKeyReader ==
  /\ phase = "keys"
  /\ color' = ColorEnabled
  /\ live' = (~On("no-live") /\ (opts["live"] = "on" \/ (opts["live"] = "auto" /\ env.stdout)))
  /\ \/ env.stdin /\ Acquire("raw")
     \/ UNCHANGED <<defers, held>>
  /\ phase' = "display"
  /\ UNCHANGED <<args, opts, env, readerLeft, window, wrote, exit>>

\* A window needs a terminal; either display is told of resizes if it can redraw.
ChooseDisplay ==
  /\ phase = "display"
  /\ window' = (On("window") /\ env.stdout)
  /\ IF window' \/ live THEN Acquire("winch") ELSE UNCHANGED <<defers, held>>
  /\ phase' = "signals"
  /\ UNCHANGED <<args, opts, env, readerLeft, live, color, wrote, exit>>

\* signalx.Listen, with the context before it.
Listen ==
  /\ phase = "signals"
  /\ held' = held \cup {"context", "signals"}
  /\ defers' = defers \o <<"context", "signals">>
  /\ phase' = "ticker"
  /\ UNCHANGED <<args, opts, env, readerLeft, window, live, color, wrote, exit>>

StartTicker ==
  /\ phase = "ticker"
  /\ IF ~On("quiet") /\ (live \/ window) THEN Acquire("ticker") ELSE UNCHANGED <<defers, held>>
  /\ phase' = "loop"
  /\ UNCHANGED <<args, opts, env, readerLeft, window, live, color, wrote, exit>>

------------------------------------------------------------------------------
(* The loop and its end *)

\* What the displays write: a block or a live line with cursor control, or lines.
Drawn == (IF window \/ live THEN {"control"} ELSE {"lines"}) \cup (IF color THEN {"color"} ELSE {})

\* The first event is displayed; quiet displays ignore it.
Display ==
  /\ phase = "loop" /\ wrote = {} /\ ~On("quiet")
  /\ wrote' = wrote \cup Drawn
  /\ UNCHANGED <<args, phase, opts, env, defers, held, readerLeft, window, live, color, exit>>

\* The key reader hands over its key and leaves, restoring the terminal.
ReaderLeaves ==
  /\ phase # "gone" /\ "raw" \in held
  /\ readerLeft' = TRUE
  /\ held' = held \ {"raw"}
  /\ UNCHANGED <<args, phase, opts, env, defers, window, live, color, wrote, exit>>

Codes == [count |-> 0, quit |-> 0, interrupt |-> 130, term |-> 143, perm |-> 3]

\* The loop ends for a reason: the display is finalized, the log gets its last
\* entry, and a run that was not denied permission prints its summary.
LoopEnds(reason) ==
  /\ phase = "loop"
  /\ reason = "count" => opts["count"] # "0"
  /\ wrote' = IF reason # "perm" /\ ~On("quiet") /\ env.stdout
              THEN wrote \cup {"summary"} ELSE wrote
  /\ Return(Codes[reason])
  /\ UNCHANGED <<args, opts, env, defers, held, readerLeft, window, live, color>>

\* The latest deferred call.
Unwind ==
  /\ phase = "returning" /\ defers # <<>>
  /\ held' = held \ {Last(defers)}
  /\ defers' = Front(defers)
  /\ UNCHANGED <<args, phase, opts, env, readerLeft, window, live, color, wrote, exit>>

Leave ==
  /\ phase = "returning" /\ defers = <<>>
  /\ phase' = "gone"
  /\ UNCHANGED <<args, opts, env, defers, held, readerLeft, window, live, color, wrote, exit>>

\* SIGTERM while nobody listens for it: the system gives back everything but the
\* mode of the terminal.
Kill ==
  /\ phase \notin {"parse", "gone"} /\ "signals" \notin held
  /\ "raw" \in held => "kill" \in Races
  /\ phase' = "gone" /\ exit' = Killed
  /\ held' = held \cap {"raw"} /\ defers' = <<>>
  /\ UNCHANGED <<args, opts, env, readerLeft, window, live, color, wrote>>

Done == phase = "gone" /\ UNCHANGED vars

Next == \/ ReadCommandLine \/ BuildProbe \/ OpenLog \/ StartKeyReader \/ ChooseDisplay
        \/ Listen \/ StartTicker \/ Display \/ ReaderLeaves
        \/ \E reason \in DOMAIN Codes : LoopEnds(reason)
        \/ Unwind \/ Leave \/ Kill \/ Done

Spec == Init /\ [][Next]_vars

------------------------------------------------------------------------------
(* Properties *)

\* The test TestFlagsBeforeOrAfterHost, for every command line: flags and host may be
\* given in any order.  Two neighbours that set different things, swapped, lead to the
\* same action with the same options.
Swapped(a, i) == [a EXCEPT ![i] = a[i + 1], ![i + 1] = a[i]]

OrderIrrelevant ==
  \A i \in 1..(Len(args) - 1) :
    /\ Dashes \notin Range(args)
    /\ args[i].kind = "positional" \/ args[i].flag # args[i + 1].flag
    => Parse(Swapped(args, i)) = Parse(args)

\* What validate lets pass is what the rest of the program counts on: thresholds,
\* times and lines of at least 1 (EngineAssumption, ProbeLoopAssumption,
\* WindowAssumption), a count of 0 only for a run without limit, and no two wishes that
\* contradict each other.
AcceptedIsRunnable ==
  phase = "parse" =>
    LET p == Parse(args)
    IN  p.action = "run" =>
          /\ \A f \in {"interval", "timeout", "down-after", "up-after", "window-lines"} :
                Numbers[p.opts[f]] >= 1
          /\ Numbers[p.opts["count"]] >= IF "count" \in p.given THEN 1 ELSE 0
          /\ ~(p.opts["no-window"] = "true" /\ p.opts["window"] = "true")
          /\ ~(p.opts["no-color"] = "true" /\ p.opts["color"] = "always")
          /\ ~(p.opts["no-live"] = "true" /\ p.opts["live"] = "on")

\* help.go "SIGINT and SIGTERM trigger a graceful shutdown", app.go:341 "The terminal is
\* restored": however far the program came and however it ends, nothing it has opened,
\* subscribed to or changed outlives it.
ReleasedOnExit == phase = "gone" => held = {} /\ defers = <<>>

\* What reaches stdout is what was asked for: nothing from a quiet run, nor where the
\* command line is refused or the log cannot be opened, no summary of a run that ends
\* for want of a probe or of permission, no cursor control for a reader that is no
\* terminal unless --live=on wants it, and no colour for such a reader or against a wish
\* for none.
OutputAsAsked ==
  /\ exit \in {1, 2} => wrote = {}
  /\ exit = 3 => "summary" \notin wrote
  /\ On("quiet") => wrote \subseteq {"help", "version"}
  /\ "control" \in wrote => env.stdout \/ opts["live"] = "on"
  /\ "color" \in wrote => env.stdout /\ ~env.noColor /\ ~On("no-color") /\ opts["color"] # "never"
==============================================================================
