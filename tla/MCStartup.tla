------------------------------ MODULE MCStartup ------------------------------
(***************************************************************************)
(* Command lines of up to three arguments: a host, one that is empty or that *)
(* follows "--", and of every flag values that are accepted and refused.     *)
(***************************************************************************)
EXTENDS Startup

MCTokens ==
  {Positional("host"), Positional(""), Dashes}
    \cup {FlagArg(f, "true") : f \in BoolFlags}
    \cup {FlagArg("window", "false"), FlagArg("no-window", "maybe")}
    \cup {FlagArg("interval", v) : v \in {"0", "2", "x"}}
    \cup {FlagArg("count", v) : v \in {"0", "2"}}
    \cup {FlagArg("timeout", "-1"), FlagArg("down-after", "0"), FlagArg("up-after", "2")}
    \cup {FlagArg("window-lines", v) : v \in {"0", "1"}}
    \cup {FlagArg("probe", v) : v \in {"tcp", "tcp:0", "udp"}}
    \cup {FlagArg("color", v) : v \in {"always", "never", "pink"}}
    \cup {FlagArg("live", v) : v \in {"on", "off", "yes"}}
    \cup {FlagArg("timestamp-format", "rfc3339"), FlagArg("log-file", "events.log"),
          FlagArg("log-format", "xml")}
==============================================================================
