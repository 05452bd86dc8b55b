------------------------------ MODULE CommandLine ------------------------------
(***************************************************************************)
(* The command line (internal/cli/cli.go): what Parse makes of a sequence of *)
(* arguments, and what validate lets pass.  An argument is a flag with the   *)
(* text of its value, a positional argument, or "--".  A long flag stands for *)
(* its short form as well; all reasons to refuse are one.                    *)
(***************************************************************************)
EXTENDS Integers, Sequences, FiniteSets, SequencesExt

FlagArg(flag, val) == [kind |-> "flag", flag |-> flag, val |-> val]
Positional(val) == [kind |-> "positional", flag |-> "", val |-> val]
Dashes == [kind |-> "dashes", flag |-> "", val |-> "--"]

IsArgument(a) == a = FlagArg(a.flag, a.val) \/ a = Positional(a.val) \/ a = Dashes

BoolFlags == {"help", "version", "quiet", "no-header", "no-color", "no-live", "window",
              "no-window"}
NumberFlags == {"interval", "timeout", "count", "down-after", "up-after", "window-lines"}
TextFlags == {"probe", "color", "live", "timestamp-format", "log-file", "log-format"}

Flags == BoolFlags \cup NumberFlags \cup TextFlags

\* The texts of numbers and ports that occur.  An interval or a timeout is a number of
\* seconds, a fraction or a duration with a unit among them.
Numbers == [s \in {"-1", "0", "1", "2", "10"} |->
              CASE s = "-1" -> -1 [] s = "0" -> 0 [] s = "1" -> 1 [] s = "2" -> 2
                [] s = "10" -> 10]

WellFormed(flag, val) ==
  /\ flag \in Flags
  /\ flag \in BoolFlags => val \in {"true", "false"}
  /\ flag \in NumberFlags => val \in DOMAIN Numbers

DefaultOf(f) ==
  CASE f \in BoolFlags                                -> "false"
    [] f \in {"interval", "down-after", "up-after"}   -> "1"
    [] f = "timeout"                                  -> "2"
    [] f = "count"                                    -> "0"
    [] f = "window-lines"                             -> "10"
    [] f = "probe"                                    -> "icmp"
    [] f \in {"color", "live"}                        -> "auto"
    [] f = "timestamp-format"                         -> "HH:MM:SS"
    [] f = "log-file"                                 -> ""
    [] f = "log-format"                               -> "csv"

Defaults == [f \in Flags |-> DefaultOf(f)]

------------------------------------------------------------------------------
(* Parse *)

\* What has been read: the values, the flags that were given, the positionals; the
\* next argument is positional whatever it is; or a flag that cannot be read.
Parsed == [val |-> Defaults, given |-> {}, positionals |-> <<>>, literal |-> FALSE,
           failed |-> FALSE]

\* Flags are looked for behind a positional as well, and behind "--" again from the
\* second argument on.  In the mutant everything behind the first positional is one.
ParseArgToHost(s, a) ==
  IF s.failed \/ s.positionals # <<>> \/ a.kind # "flag"
  THEN [s EXCEPT !.positionals = Append(@, a.val)]
  ELSE IF ~WellFormed(a.flag, a.val) THEN [s EXCEPT !.failed = TRUE]
  ELSE [s EXCEPT !.val[a.flag] = a.val, !.given = @ \cup {a.flag}]

ParseArg(s, a) ==
  CASE s.failed -> s
    [] ~s.failed /\ (s.literal \/ a.kind = "positional") ->
         [s EXCEPT !.positionals = Append(@, a.val), !.literal = FALSE]
    [] ~s.failed /\ ~s.literal /\ a.kind = "dashes" -> [s EXCEPT !.literal = TRUE]
    [] ~s.failed /\ ~s.literal /\ a.kind = "flag" ->
         IF WellFormed(a.flag, a.val)
         THEN [s EXCEPT !.val[a.flag] = a.val, !.given = @ \cup {a.flag}]
         ELSE [s EXCEPT !.failed = TRUE]

\* One argument after the other.
ParseArgs(args) ==
  LET s[k \in 0..Len(args)] == IF k = 0 THEN Parsed ELSE ParseArg(s[k - 1], args[k])
  IN  s[Len(args)]

------------------------------------------------------------------------------
(* validate *)

\* parseProbe; a port is a number between 1 and 65535.
ProbeChoices == {"icmp", "tcp", "tcp:1", "tcp:65535"}

\* Conflicts are between flags that were given, also when one says "false".
Conflict(s) ==
  \/ {"no-window", "window-lines"} \subseteq s.given
  \/ {"no-window", "window"} \subseteq s.given
  \/ {"no-color", "color"} \subseteq s.given /\ s.val["color"] = "always"
  \/ {"no-live", "live"} \subseteq s.given /\ s.val["live"] = "on"

\* The ranges of the numbers; the mutant takes a count of 0 that was given for the
\* default.
InRangeAnyCount(s) ==
  \A f \in NumberFlags \ {"count"} : Numbers[s.val[f]] >= 1

InRange(s) ==
  /\ \A f \in NumberFlags \ {"count"} : Numbers[s.val[f]] >= 1
  /\ "count" \in s.given => Numbers[s.val["count"]] >= 1

Valid(s) ==
  /\ Len(s.positionals) = 1 /\ s.positionals[1] # ""
  /\ ~Conflict(s)
  /\ InRange(s)
  /\ s.val["color"] \in {"auto", "always", "never"}
  /\ s.val["live"] \in {"auto", "on", "off"}
  /\ s.val["log-format"] \in {"csv", "json"}
  /\ s.val["timestamp-format"] \in {"HH:MM:SS", "rfc3339"}
  /\ s.val["probe"] \in ProbeChoices

\* --window-lines implies --window.
Inferred(s) ==
  [s.val EXCEPT !["window"] = IF "window-lines" \in s.given THEN "true" ELSE @]

\* The action, and the options of a run.
Outcome(action, opts, given) == [action |-> action, opts |-> opts, given |-> given]
Refused == Outcome("usage", Defaults, {})

Parse(args) ==
  LET s == ParseArgs(args)
  IN  IF s.failed THEN Refused
      ELSE IF s.val["help"] = "true" THEN Outcome("help", Defaults, {})
      ELSE IF s.val["version"] = "true" THEN Outcome("version", Defaults, {})
      ELSE IF Valid(s) THEN Outcome("run", Inferred(s), s.given)
      ELSE Refused
==============================================================================
