---------------------------- MODULE StartupProofs ----------------------------
(***************************************************************************)
(* Proofs about the command line and about what Main sets up and gives back, *)
(* for command lines of any length and any arguments.                        *)
(***************************************************************************)
EXTENDS Startup, SequenceTheorems, WellFoundedInduction, TLAPS

------------------------------------------------------------------------------
(* What is given back *)

Things == {"probe", "log", "raw", "winch", "context", "signals", "ticker"}

\* Everything held is given back by a deferred call, until the process is gone; then
\* a kill may have left the mode of the terminal.
DefersOK ==
  /\ defers \in Seq(Things)
  /\ phase # "gone" => \A x \in held : \E i \in 1..Len(defers) : defers[i] = x
  /\ phase = "gone" => /\ defers = <<>> /\ held \subseteq {"raw"}
                       /\ held # {} => exit = Killed /\ "kill" \in Races

\* Parse ends in one of four actions.
LEMMA ActionIs ==
  ASSUME NEW a
  PROVE  Parse(a).action \in {"usage", "help", "version", "run"}
BY DEF Parse, Refused, Outcome

\* A deferred call more, and the latest one less.
LEMMA OneMore ==
  ASSUME NEW s \in Seq(Things), NEW x \in Things
  PROVE  /\ Append(s, x) \in Seq(Things)
         /\ \E i \in 1..Len(Append(s, x)) : Append(s, x)[i] = x
         /\ \A y : (\E i \in 1..Len(s) : s[i] = y) => \E i \in 1..Len(Append(s, x)) : Append(s, x)[i] = y
<1>1. /\ Append(s, x) \in Seq(Things) /\ Len(s) \in Nat /\ Len(Append(s, x)) = Len(s) + 1
      /\ \A i \in 1..Len(s) : Append(s, x)[i] = s[i]
      /\ Append(s, x)[Len(s) + 1] = x
  BY AppendProperties
<1>2. Len(s) + 1 \in 1..Len(Append(s, x)) /\ 1..Len(s) \subseteq 1..Len(Append(s, x))
  BY <1>1
<1>3. QED
  BY <1>1, <1>2

LEMMA OneLess ==
  ASSUME NEW s \in Seq(Things), s # <<>>
  PROVE  /\ Front(s) \in Seq(Things)
         /\ \A y : (\E i \in 1..Len(s) : s[i] = y) /\ y # Last(s)
                     => \E i \in 1..Len(Front(s)) : Front(s)[i] = y
<1>1. Len(s) \in Nat /\ Len(s) # 0
  BY EmptySeq
<1> DEFINE n == Len(s) - 1
           f == SubSeq(s, 1, n)
<1>2. f \in Seq(Things) /\ Len(f) = n /\ \A i \in 1..n : f[i] = s[i]
  <2>1. n \in Nat /\ \A i \in 1..n : s[i] \in Things
    BY <1>1
  <2> HIDE DEF n
  <2>2. /\ f \in Seq(Things) /\ Len(f) = IF 1 <= n THEN n - 1 + 1 ELSE 0
        /\ \A i \in 1..(n - 1 + 1) : f[i] = s[1 + i - 1]
    BY <2>1, SubSeqProperties
  <2> HIDE DEF f
  <2>3. Len(f) = n
    BY <2>1, <2>2
  <2>4. \A i \in 1..n : f[i] = s[i]
    BY <2>1, <2>2
  <2>5. QED
    BY <2>2, <2>3, <2>4
<1>3. /\ Front(s) \in Seq(Things) /\ Len(Front(s)) = Len(s) - 1
      /\ \A i \in 1..(Len(s) - 1) : Front(s)[i] = s[i]
  BY <1>1, <1>2 DEF Front
<1>4. Last(s) = s[Len(s)]
  BY DEF Last
<1>5. \A i \in 1..Len(s) : s[i] # Last(s) => i \in 1..(Len(s) - 1)
  BY <1>1, <1>4
<1>6. QED
  BY <1>3, <1>5

\* What a step takes, it defers to give back.
LEMMA AcquireStep ==
  ASSUME DefersOK, NEW x \in Things, Acquire(x), phase # "gone", phase' # "gone"
  PROVE  DefersOK'
<1>1. /\ defers \in Seq(Things) /\ held' = held \cup {x} /\ defers' = Append(defers, x)
      /\ \A y \in held : \E i \in 1..Len(defers) : defers[i] = y
  BY DEF DefersOK, Acquire
<1>2. /\ defers' \in Seq(Things) /\ \E i \in 1..Len(defers') : defers'[i] = x
      /\ \A y : (\E i \in 1..Len(defers) : defers[i] = y) => \E i \in 1..Len(defers') : defers'[i] = y
  BY <1>1, OneMore
<1>3. \A y \in held' : \E i \in 1..Len(defers') : defers'[i] = y
  BY <1>1, <1>2
<1>4. QED
  BY <1>2, <1>3 DEF DefersOK

\* A step that opens and closes nothing, or closes before its time.
LEMMA KeepStep ==
  ASSUME DefersOK, defers' = defers, held' \subseteq held, phase # "gone", phase' # "gone"
  PROVE  DefersOK'
BY DEF DefersOK

LEMMA DefersInit == Init => DefersOK
<1>1. <<>> \in Seq(Things)
  BY EmptySeq
<1>2. QED
  BY <1>1 DEF Init, DefersOK

LEMMA DefersNext ==
  ASSUME DefersOK, [Next]_vars
  PROVE  DefersOK'
<1>1. CASE UNCHANGED vars
  BY <1>1 DEF vars, DefersOK
<1>2. CASE ReadCommandLine
  <2>1. phase = "parse" /\ phase' \in {"returning", "probe"} /\ UNCHANGED <<defers, held>>
    BY <1>2, ActionIs DEF ReadCommandLine, Return
  <2>2. QED
    BY <2>1, KeepStep
<1>3. CASE BuildProbe
  BY <1>3, KeepStep, AcquireStep DEF BuildProbe, Return, Things
<1>4. CASE OpenLog
  BY <1>4, KeepStep, AcquireStep DEF OpenLog, Return, Things
<1>5. CASE StartKeyReader
  BY <1>5, KeepStep, AcquireStep DEF StartKeyReader, Things
<1>6. CASE ChooseDisplay
  BY <1>6, KeepStep, AcquireStep DEF ChooseDisplay, Things
<1>7. CASE Listen
  <2>1. /\ defers \in Seq(Things) /\ phase # "gone" /\ phase' # "gone"
        /\ held' = held \cup {"context", "signals"}
        /\ defers' = defers \o <<"context", "signals">>
        /\ \A y \in held : \E i \in 1..Len(defers) : defers[i] = y
    BY <1>7 DEF DefersOK, Listen
  <2>2. defers' = Append(Append(defers, "context"), "signals")
    BY <2>1
  <2> DEFINE d == Append(defers, "context")
  <2>3. /\ d \in Seq(Things) /\ \E i \in 1..Len(d) : d[i] = "context"
        /\ \A y : (\E i \in 1..Len(defers) : defers[i] = y) => \E i \in 1..Len(d) : d[i] = y
    BY <2>1, OneMore DEF Things
  <2> HIDE DEF d
  <2>4. /\ Append(d, "signals") \in Seq(Things)
        /\ \E i \in 1..Len(Append(d, "signals")) : Append(d, "signals")[i] = "signals"
        /\ \A y : (\E i \in 1..Len(d) : d[i] = y)
                    => \E i \in 1..Len(Append(d, "signals")) : Append(d, "signals")[i] = y
    BY <2>3, OneMore DEF Things
  <2>5. defers' = Append(d, "signals")
    BY <2>2 DEF d
  <2>6. QED
    BY <2>1, <2>3, <2>4, <2>5 DEF DefersOK
<1>8. CASE StartTicker
  BY <1>8, KeepStep, AcquireStep DEF StartTicker, Things
<1>9. CASE Display
  BY <1>9, KeepStep DEF Display
<1>10. CASE ReaderLeaves
  BY <1>10, KeepStep DEF ReaderLeaves
<1>11. ASSUME NEW reason \in DOMAIN Codes, LoopEnds(reason)
       PROVE  DefersOK'
  BY <1>11, KeepStep DEF LoopEnds, Return
<1>12. CASE Unwind
  <2>1. /\ defers \in Seq(Things) /\ defers # <<>> /\ phase = "returning" /\ phase' = "returning"
        /\ held' = held \ {Last(defers)} /\ defers' = Front(defers)
        /\ \A y \in held : \E i \in 1..Len(defers) : defers[i] = y
    BY <1>12 DEF DefersOK, Unwind
  <2>2. /\ defers' \in Seq(Things)
        /\ \A y : (\E i \in 1..Len(defers) : defers[i] = y) /\ y # Last(defers)
                    => \E i \in 1..Len(defers') : defers'[i] = y
    BY <2>1, OneLess
  <2>3. QED
    BY <2>1, <2>2 DEF DefersOK
<1>13. CASE Leave
  <2>1. /\ defers = <<>> /\ defers' = <<>> /\ held' = held /\ phase' = "gone"
        /\ \A x \in held : \E i \in 1..Len(defers) : defers[i] = x
    BY <1>13 DEF DefersOK, Leave
  <2>2. held = {}
    BY <2>1
  <2>3. QED
    BY <2>1, <2>2, EmptySeq DEF DefersOK
<1>14. CASE Kill
  BY <1>14, EmptySeq DEF Kill, DefersOK
<1>15. CASE Done
  BY <1>15 DEF Done, vars, DefersOK
<1>16. QED
  BY <1>1, <1>2, <1>3, <1>4, <1>5, <1>6, <1>7, <1>8, <1>9, <1>10, <1>11, <1>12, <1>13, <1>14,
     <1>15 DEF Next

\* However far Main came and however it ends, all that it opened, subscribed to or changed
\* is given back, if no SIGTERM comes while the terminal is raw and nobody listens.
THEOREM ReleasedCorrect ==
  ASSUME "kill" \notin Races
  PROVE  Spec => []ReleasedOnExit
<1>1. DefersOK => ReleasedOnExit
  BY DEF DefersOK, ReleasedOnExit
<1>2. QED
  BY <1>1, DefersInit, DefersNext, PTL DEF Spec

\* And if one comes, then all but the mode of the terminal: every other way to end,
\* refused, failed, counted out, interrupted or terminated, restores the mode as well.
THEOREM OnlyModeIsLost ==
  Spec => [](phase = "gone" => held \subseteq {"raw"} /\ (exit # Killed => held = {}))
<1>1. DefersOK => (phase = "gone" => held \subseteq {"raw"} /\ (exit # Killed => held = {}))
  BY DEF DefersOK
<1>2. QED
  BY <1>1, DefersInit, DefersNext, PTL DEF Spec

------------------------------------------------------------------------------
(* What is written *)

Before == {"parse", "probe", "log", "keys", "display", "signals", "ticker"}

\* Nothing is written, nor an exit code set, before the loop; the displays were chosen
\* from the options and the environment that are still there.
WritingOK ==
  /\ phase \in Before => wrote = {}
  /\ phase \in Before \cup {"loop"} => exit = NotYet /\ "summary" \notin wrote
  /\ phase = "parse" => ~window /\ ~live /\ ~color
  /\ window => env.stdout
  /\ live => env.stdout \/ opts["live"] = "on"
  /\ color => ColorEnabled

OutputInv == WritingOK /\ OutputAsAsked

LEMMA OutputInit == Init => OutputInv
BY DEF Init, OutputInv, WritingOK, OutputAsAsked, Before, On, NotYet

\* A step towards the loop writes nothing and sets no exit code; or it gives up with one.
LEMMA SetupOutput ==
  ASSUME OutputInv, UNCHANGED <<opts, env, wrote>>, phase \in Before,
         phase' \in (Before \ {"parse"}) \cup {"loop", "returning"},
         phase' # "returning" => exit' = exit,
         window' => env.stdout, live' => env.stdout \/ opts["live"] = "on", color' => ColorEnabled
  PROVE  OutputInv'
<1>1. ColorEnabled' <=> ColorEnabled
  BY DEF ColorEnabled, On
<1>2. wrote = {} /\ wrote' = {} /\ exit = NotYet
  BY DEF OutputInv, WritingOK
<1>3. WritingOK'
  BY <1>1, <1>2 DEF WritingOK, Before
<1>4. OutputAsAsked'
  BY <1>2 DEF OutputAsAsked
<1>5. QED
  BY <1>3, <1>4 DEF OutputInv

\* A step that changes nothing of what the output depends on.
LEMMA KeepOutput ==
  ASSUME OutputInv, UNCHANGED <<opts, env, window, live, color, wrote>>, phase \notin Before,
         phase' = phase \/ phase' \notin Before \cup {"loop"},
         exit' = exit
  PROVE  OutputInv'
<1>1. ColorEnabled' <=> ColorEnabled
  BY DEF ColorEnabled, On
<1>2. WritingOK'
  BY <1>1 DEF OutputInv, WritingOK, Before
<1>3. OutputAsAsked'
  BY DEF OutputInv, OutputAsAsked, On
<1>4. QED
  BY <1>2, <1>3 DEF OutputInv

\* What the displays write is what they were chosen for.
LEMMA DrawnIsAllowed ==
  ASSUME OutputInv
  PROVE  /\ "control" \in Drawn => env.stdout \/ opts["live"] = "on"
         /\ "color" \in Drawn => env.stdout /\ ~env.noColor /\ ~On("no-color") /\ opts["color"] # "never"
         /\ "summary" \notin Drawn
BY DEF Drawn, OutputInv, WritingOK, ColorEnabled

LEMMA OutputNext ==
  ASSUME OutputInv, [Next]_vars
  PROVE  OutputInv'
<1>1. CASE UNCHANGED vars \/ Done
  BY <1>1 DEF vars, Done, OutputInv, WritingOK, OutputAsAsked, ColorEnabled, On
<1>2. CASE ReadCommandLine
  <2>1. /\ phase = "parse" /\ wrote = {} /\ exit = NotYet /\ ~window /\ ~live /\ ~color
        /\ UNCHANGED <<window, live, color>>
    BY <1>2 DEF ReadCommandLine, OutputInv, WritingOK, Before
  <2>2. \/ wrote' = {} /\ phase' = "returning"
        \/ wrote' \in {{"help"}, {"version"}} /\ phase' = "returning" /\ exit' = 0
        \/ wrote' = {} /\ phase' = "probe" /\ exit' = NotYet
    BY <1>2, <2>1, ActionIs DEF ReadCommandLine, Return
  <2>3. WritingOK'
    BY <2>1, <2>2 DEF WritingOK, Before
  <2>4. OutputAsAsked'
    BY <2>2 DEF OutputAsAsked
  <2>5. QED
    BY <2>3, <2>4 DEF OutputInv
<1>3. CASE BuildProbe \/ OpenLog \/ Listen \/ StartTicker
  <2>1. /\ UNCHANGED <<opts, env, wrote, window, live, color>> /\ phase \in Before
        /\ phase' \in (Before \ {"parse"}) \cup {"loop", "returning"}
        /\ phase' # "returning" => exit' = exit
    BY <1>3 DEF BuildProbe, OpenLog, Listen, StartTicker, Return, Before
  <2>2. /\ window' => env.stdout
        /\ live' => env.stdout \/ opts["live"] = "on"
        /\ color' => ColorEnabled
    BY <2>1 DEF OutputInv, WritingOK
  <2>3. QED
    BY <2>1, <2>2, SetupOutput
<1>4. CASE StartKeyReader
  <2>1. /\ UNCHANGED <<opts, env, wrote, window, exit>> /\ phase = "keys" /\ phase' = "display"
        /\ live' => env.stdout \/ opts["live"] = "on"
        /\ color' => ColorEnabled
    BY <1>4 DEF StartKeyReader
  <2>2. window' => env.stdout
    BY <2>1 DEF OutputInv, WritingOK
  <2>3. QED
    BY <2>1, <2>2, SetupOutput DEF Before
<1>5. CASE ChooseDisplay
  <2>1. /\ UNCHANGED <<opts, env, wrote, live, color, exit>> /\ phase = "display" /\ phase' = "signals"
        /\ window' => env.stdout
    BY <1>5 DEF ChooseDisplay
  <2>2. /\ live' => env.stdout \/ opts["live"] = "on"
        /\ color' => ColorEnabled
    BY <2>1 DEF OutputInv, WritingOK
  <2>3. QED
    BY <2>1, <2>2, SetupOutput DEF Before
<1>6. CASE Display
  <2>1. /\ phase = "loop" /\ phase' = phase /\ exit' = exit /\ ~On("quiet") /\ wrote' = wrote \cup Drawn
        /\ UNCHANGED <<opts, env, window, live, color>>
    BY <1>6 DEF Display
  <2>2. exit = NotYet
    BY <2>1 DEF OutputInv, WritingOK
  <2>3. WritingOK'
    BY <2>1, DrawnIsAllowed DEF OutputInv, WritingOK, Before, ColorEnabled, On
  <2>4. OutputAsAsked'
    BY <2>1, <2>2, DrawnIsAllowed DEF OutputInv, OutputAsAsked, On, NotYet
  <2>5. QED
    BY <2>3, <2>4 DEF OutputInv
<1>7. ASSUME NEW reason \in DOMAIN Codes, LoopEnds(reason)
      PROVE  OutputInv'
  <2>1. /\ phase = "loop" /\ phase' = "returning" /\ exit' = Codes[reason]
        /\ \/ wrote' = wrote
           \/ wrote' = wrote \cup {"summary"} /\ ~On("quiet") /\ reason # "perm"
        /\ "summary" \notin wrote
        /\ UNCHANGED <<opts, env, window, live, color>>
    BY <1>7 DEF LoopEnds, Return, OutputInv, WritingOK
  <2>2. Codes[reason] \notin {1, 2} /\ (Codes[reason] = 3 => reason = "perm")
    BY DEF Codes
  <2>3. WritingOK'
    BY <2>1 DEF OutputInv, WritingOK, Before, ColorEnabled, On
  <2>4. OutputAsAsked'
    BY <2>1, <2>2 DEF OutputInv, OutputAsAsked, On
  <2>5. QED
    BY <2>3, <2>4 DEF OutputInv
<1>8. CASE Unwind \/ Leave
  BY <1>8, KeepOutput DEF Unwind, Leave, Before
<1>9. CASE ReaderLeaves \/ Kill
  <2>1. /\ UNCHANGED <<opts, env, window, live, color, wrote>>
        /\ \/ phase' = phase /\ exit' = exit
           \/ phase' = "gone" /\ exit' = Killed
    BY <1>9 DEF ReaderLeaves, Kill
  <2>2. ColorEnabled' <=> ColorEnabled
    BY <2>1 DEF ColorEnabled, On
  <2>3. WritingOK'
    BY <2>1, <2>2 DEF OutputInv, WritingOK, Before
  <2>4. OutputAsAsked'
    BY <2>1 DEF OutputInv, OutputAsAsked, On, Killed
  <2>5. QED
    BY <2>3, <2>4 DEF OutputInv
<1>10. QED
  BY <1>1, <1>2, <1>3, <1>4, <1>5, <1>6, <1>7, <1>8, <1>9 DEF Next

\* Whatever the arguments, the environment and the end of the run: nothing is written that
\* was not asked for, and no summary of a run that lacked a probe or permission.
THEOREM OutputCorrect == Spec => []OutputAsAsked
<1>1. OutputInv => OutputAsAsked
  BY DEF OutputInv
<1>2. QED
  BY <1>1, OutputInit, OutputNext, PTL DEF Spec

------------------------------------------------------------------------------
(* Induction.  The library's theorems on it take an operator, which the provers cannot
   instantiate; the least element of a set they can use.                         *)

LEMMA LeastOf ==
  ASSUME NEW T \in SUBSET Nat, T # {}
  PROVE  \E x \in T : \A y \in T : x <= y
<1> DEFINE R == {ss \in Nat \X Nat : ss[1] < ss[2]}
<1>1. IsWellFoundedOn(R, Nat)
  BY NatLessThanWellFounded DEF OpToRel
<1> HIDE DEF R
<1>2. PICK x \in T : \A y \in T : ~ (<<y, x>> \in R)
  BY <1>1, WFMin
<1>3. ASSUME NEW y \in T
      PROVE  x <= y
  <2>1. x \in Nat /\ y \in Nat /\ <<y, x>> \in Nat \X Nat /\ <<y, x>>[1] = y /\ <<y, x>>[2] = x
    OBVIOUS
  <2>2. ~ (y < x)
    BY <1>2, <2>1 DEF R
  <2>3. QED
    BY <2>1, <2>2
<1>4. QED
  BY <1>3

\* A set with m that holds k + 1 with k, below n, holds all from m to n.
LEMMA UpTo ==
  ASSUME NEW m \in Nat, NEW n \in Nat, NEW S, m \in S,
         \A k \in m..(n - 1) : k \in S => k + 1 \in S
  PROVE  \A k \in m..n : k \in S
<1>1. SUFFICES ASSUME {k \in m..n : k \notin S} # {}
               PROVE  FALSE
  OBVIOUS
<1>2. {k \in m..n : k \notin S} \in SUBSET Nat
  OBVIOUS
<1>3. PICK x \in {k \in m..n : k \notin S} : \A y \in {k \in m..n : k \notin S} : x <= y
  BY <1>1, <1>2, LeastOf
<1>4. x \in m..n /\ x # m /\ x - 1 \in m..(n - 1) /\ x - 1 \in m..n /\ ~(x <= x - 1) /\ x - 1 + 1 = x
  BY <1>3
<1>5. x - 1 \in S
  BY <1>3, <1>4
<1>6. QED
  BY <1>3, <1>4, <1>5

------------------------------------------------------------------------------
(* Parsing, one argument after the other *)

Texts == {a.val : a \in Tokens} \cup {Defaults[f] : f \in Flags}

States == [val : [Flags -> Texts], given : SUBSET Flags, positionals : Seq(Texts),
           literal : BOOLEAN, failed : BOOLEAN]

\* What is read of the first arguments, for every number of them.
Reads(s, a) ==
  s = [k \in 0..Len(a) |-> IF k = 0 THEN Parsed ELSE ParseArg(s[k - 1], a[k])]

LEMMA ParseArgsReads ==
  ASSUME NEW a \in Seq(Tokens)
  PROVE  \E s : Reads(s, a) /\ ParseArgs(a) = s[Len(a)]
<1> DEFINE L == Len(a)
           Upto(n, s) == s = [k \in 0..n |-> IF k = 0 THEN Parsed ELSE ParseArg(s[k - 1], a[k])]
           S == {n \in 0..L : \E s : Upto(n, s)}
<1>1. L \in Nat
  OBVIOUS
<1>2. 0 \in S
  <2>1. Upto(0, [k \in 0..0 |-> Parsed])
    OBVIOUS
  <2> HIDE DEF Upto
  <2>2. QED
    BY <1>1, <2>1
<1>3. ASSUME NEW n \in 0..(L - 1), n \in S
      PROVE  n + 1 \in S
  <2>1. PICK s : Upto(n, s)
    BY <1>3
  <2> DEFINE t == [k \in 0..(n + 1) |-> IF k = 0 THEN Parsed ELSE ParseArg(s[k - 1], a[k])]
  <2>2. \A k \in 0..n : t[k] = s[k]
    BY <1>1, <2>1
  <2>3. t = [k \in 0..(n + 1) |-> IF k = 0 THEN Parsed ELSE ParseArg(t[k - 1], a[k])]
    <3>1. \A k \in 0..(n + 1) : k # 0 => k - 1 \in 0..n
      BY <1>1
    <3>2. \A k \in 0..(n + 1) : k # 0 => t[k - 1] = s[k - 1]
      <4> HIDE DEF t
      <4>1. QED
        BY <2>2, <3>1
    <3>3. QED
      BY <3>2
  <2>4. Upto(n + 1, t)
    BY <2>3
  <2> HIDE DEF Upto, t
  <2>5. QED
    BY <1>1, <2>4
<1>4. L \in S
  <2> HIDE DEF S
  <2>1. \A k \in 0..L : k \in S
    BY <1>1, <1>2, <1>3, UpTo
  <2>2. QED
    BY <1>1, <2>1
<1>5. \E s : Reads(s, a)
  BY <1>4 DEF Reads
<1>6. Reads(CHOOSE s : Reads(s, a), a)
  BY <1>5
<1>7. ParseArgs(a) = (CHOOSE s : Reads(s, a))[Len(a)]
  BY DEF ParseArgs, Reads
<1>8. QED
  BY <1>6, <1>7

\* The arguments before the first one, and those after the k-th.
LEMMA ReadsStep ==
  ASSUME NEW a \in Seq(Tokens), NEW s, Reads(s, a)
  PROVE  /\ s[0] = Parsed
         /\ \A k \in 1..Len(a) : s[k] = ParseArg(s[k - 1], a[k])
         /\ \A k \in 0..(Len(a) - 1) : s[k + 1] = ParseArg(s[k], a[k + 1])
<1>1. Len(a) \in Nat
  OBVIOUS
<1>2. \A k \in 0..Len(a) : s[k] = IF k = 0 THEN Parsed ELSE ParseArg(s[k - 1], a[k])
  BY DEF Reads
<1>3. \A k \in 1..Len(a) : k \in 0..Len(a) /\ k # 0
  BY <1>1
<1>4. \A k \in 0..(Len(a) - 1) : k + 1 \in 1..Len(a) /\ k + 1 - 1 = k
  BY <1>1
<1>5. 0 \in 0..Len(a)
  BY <1>1
<1>6. s[0] = Parsed
  BY <1>2, <1>5
<1>7. \A k \in 1..Len(a) : s[k] = ParseArg(s[k - 1], a[k])
  BY <1>2, <1>3
<1>8. \A k \in 0..(Len(a) - 1) : s[k + 1] = ParseArg(s[k], a[k + 1])
  BY <1>4, <1>7
<1>9. QED
  BY <1>6, <1>7, <1>8

LEMMA ParsedIs ==
  /\ Parsed \in States /\ Parsed.val = Defaults /\ Parsed.given = {} /\ Parsed.positionals = <<>>
  /\ Parsed.literal = FALSE /\ Parsed.failed = FALSE
<1>1. Defaults \in [Flags -> Texts]
  <2>1. Defaults = [f \in Flags |-> Defaults[f]]
    BY Zenon DEF Defaults
  <2>2. \A f \in Flags : Defaults[f] \in Texts
    BY DEF Texts
  <2>3. QED
    BY <2>1, <2>2
<1>2. <<>> \in Seq(Texts)
  BY EmptySeq
<1>3. QED
  BY <1>1, <1>2 DEF Parsed, States

\* What one argument does to what has been read.
LEMMA ArgumentIs ==
  ASSUME NEW a \in Tokens
  PROVE  /\ a.val \in Texts
         /\ a.kind \in {"flag", "positional", "dashes"}
         /\ a.kind = "dashes" => a = Dashes
<1>1. a = FlagArg(a.flag, a.val) \/ a = Positional(a.val) \/ a = Dashes
  BY StartupAssumption DEF IsArgument
<1>2. /\ FlagArg(a.flag, a.val).kind = "flag" /\ Positional(a.val).kind = "positional"
      /\ Dashes.kind = "dashes"
  BY DEF FlagArg, Positional, Dashes
<1>3. a.kind \in {"flag", "positional", "dashes"} /\ (a.kind = "dashes" => a = Dashes)
  BY <1>1, <1>2
<1>4. QED
  BY <1>3 DEF Texts

TakesPositional(s, a) == s.literal \/ a.kind = "positional"

LEMMA ParseArgIs ==
  ASSUME NEW s \in States, NEW a \in Tokens
  PROVE  LET t == ParseArg(s, a)
         IN  /\ s.failed => t = s
             /\ ~s.failed /\ TakesPositional(s, a) =>
                  t = [s EXCEPT !.positionals = Append(@, a.val), !.literal = FALSE]
             /\ ~s.failed /\ ~TakesPositional(s, a) /\ a.kind = "dashes" => t = [s EXCEPT !.literal = TRUE]
             /\ ~s.failed /\ ~TakesPositional(s, a) /\ a.kind = "flag" /\ WellFormed(a.flag, a.val) =>
                  t = [s EXCEPT !.val[a.flag] = a.val, !.given = @ \cup {a.flag}]
             /\ ~s.failed /\ ~TakesPositional(s, a) /\ a.kind = "flag" /\ ~WellFormed(a.flag, a.val) =>
                  t = [s EXCEPT !.failed = TRUE]
             /\ t \in States
<1>1. /\ s.val \in [Flags -> Texts] /\ s.given \in SUBSET Flags /\ s.positionals \in Seq(Texts)
      /\ a.val \in Texts /\ a.kind \in {"flag", "positional", "dashes"}
  BY ArgumentIs DEF States
<1>2. CASE s.failed
  BY <1>2 DEF ParseArg
<1>3. CASE ~s.failed /\ TakesPositional(s, a)
  <2>1. ParseArg(s, a) = [s EXCEPT !.positionals = Append(@, a.val), !.literal = FALSE]
    BY <1>3 DEF ParseArg, TakesPositional
  <2>2. Append(s.positionals, a.val) \in Seq(Texts)
    BY <1>1
  <2>3. [s EXCEPT !.positionals = Append(@, a.val), !.literal = FALSE] \in States
    BY <2>2 DEF States
  <2>4. QED
    BY <1>3, <2>1, <2>3
<1>4. CASE ~s.failed /\ ~TakesPositional(s, a) /\ a.kind = "dashes"
  <2>1. ParseArg(s, a) = [s EXCEPT !.literal = TRUE]
    BY <1>4 DEF ParseArg, TakesPositional
  <2>2. [s EXCEPT !.literal = TRUE] \in States
    BY DEF States
  <2>3. QED
    BY <1>4, <2>1, <2>2
<1>5. CASE ~s.failed /\ ~TakesPositional(s, a) /\ a.kind = "flag"
  <2>1. ParseArg(s, a) = IF WellFormed(a.flag, a.val)
                         THEN [s EXCEPT !.val[a.flag] = a.val, !.given = @ \cup {a.flag}]
                         ELSE [s EXCEPT !.failed = TRUE]
    BY <1>5 DEF ParseArg, TakesPositional
  <2>2. [s EXCEPT !.failed = TRUE] \in States
    BY DEF States
  <2>3. WellFormed(a.flag, a.val) => [s EXCEPT !.val[a.flag] = a.val, !.given = @ \cup {a.flag}] \in States
    BY <1>1 DEF States, WellFormed
  <2>4. QED
    BY <1>5, <2>1, <2>2, <2>3
<1>6. a.kind = "positional" => TakesPositional(s, a)
  BY DEF TakesPositional
<1>7. QED
  BY <1>1, <1>2, <1>3, <1>4, <1>5, <1>6

\* A flag that was not given has its default; what has been read is a state.
LEMMA ReadsSound ==
  ASSUME NEW a \in Seq(Tokens), NEW s, Reads(s, a)
  PROVE  \A k \in 0..Len(a) :
           s[k] \in States /\ \A f \in Flags : f \notin s[k].given => s[k].val[f] = Defaults[f]
<1> DEFINE Sound(t) == t \in States /\ \A f \in Flags : f \notin t.given => t.val[f] = Defaults[f]
           S == {k \in 0..Len(a) : Sound(s[k])}
<1>1. Len(a) \in Nat
  OBVIOUS
<1>2. 0 \in S
  BY <1>1, ParsedIs, ReadsStep
<1>3. ASSUME NEW k \in 0..(Len(a) - 1), k \in S
      PROVE  k + 1 \in S
  <2>1. s[k + 1] = ParseArg(s[k], a[k + 1]) /\ a[k + 1] \in Tokens /\ k + 1 \in 0..Len(a)
    BY <1>1, ReadsStep
  <2> DEFINE t == s[k]
             b == a[k + 1]
  <2>2. Sound(t)
    BY <1>3
  <2> HIDE DEF t, b
  <2>3. t \in States /\ b \in Tokens
    BY <2>1, <2>2 DEF b
  <2>4. ParseArg(t, b) \in States
    BY <2>3, ParseArgIs
  <2>5. \A f \in Flags : f \notin ParseArg(t, b).given => ParseArg(t, b).val[f] = Defaults[f]
    <3>1. \/ ParseArg(t, b).val = t.val /\ ParseArg(t, b).given = t.given
          \/ /\ ParseArg(t, b).val = [t.val EXCEPT ![b.flag] = b.val]
             /\ ParseArg(t, b).given = t.given \cup {b.flag}
      <4> DEFINE u == ParseArg(t, b)
      <4>1. b.kind \in {"flag", "positional", "dashes"} /\ (b.kind = "positional" => TakesPositional(t, b))
        BY <2>3, ArgumentIs DEF TakesPositional
      <4>2. \/ u = t
            \/ u = [t EXCEPT !.positionals = Append(@, b.val), !.literal = FALSE]
            \/ u = [t EXCEPT !.literal = TRUE]
            \/ u = [t EXCEPT !.val[b.flag] = b.val, !.given = @ \cup {b.flag}]
            \/ u = [t EXCEPT !.failed = TRUE]
        BY <2>3, <4>1, ParseArgIs
      <4> HIDE DEF u
      <4>3. \/ u.val = t.val /\ u.given = t.given
            \/ u.val = [t.val EXCEPT ![b.flag] = b.val] /\ u.given = t.given \cup {b.flag}
        BY <2>3, <4>2 DEF States
      <4>4. QED
        BY <4>3 DEF u
    <3>2. t.val \in [Flags -> Texts]
      BY <2>3 DEF States
    <3>3. QED
      BY <2>2, <3>1, <3>2
  <2>6. Sound(s[k + 1])
    BY <2>1, <2>4, <2>5 DEF t, b
  <2>7. QED
    BY <2>1, <2>6
<1>4. \A k \in 0..Len(a) : k \in S
  <2> HIDE DEF S
  <2>1. QED
    BY <1>1, <1>2, <1>3, UpTo
<1>5. QED
  BY <1>4

------------------------------------------------------------------------------
(* What validate lets pass *)

ArgsOK == args \in Seq(Tokens)

LEMMA ArgsInit == Init => ArgsOK
<1> SUFFICES ASSUME Init PROVE ArgsOK
  OBVIOUS
<1>1. PICK n \in 0..MaxArgs : args \in [1..n -> Tokens]
  BY DEF Init
<1>2. n \in Nat
  BY <1>1, StartupAssumption
<1>3. QED
  BY <1>1, <1>2, IsASeq DEF ArgsOK

LEMMA ArgsNext ==
  ASSUME ArgsOK, [Next]_vars
  PROVE  ArgsOK'
<1>1. args' = args \/ args' = <<>>
  BY DEF Next, vars, ReadCommandLine, BuildProbe, OpenLog, StartKeyReader, ChooseDisplay, Listen,
         StartTicker, Display, ReaderLeaves, LoopEnds, Unwind, Leave, Kill, Done
<1>2. QED
  BY <1>1, EmptySeq DEF ArgsOK

\* The defaults that the conflicts and the count depend on.
LEMMA SomeDefaults ==
  /\ {"no-window", "window", "no-color", "color", "no-live", "live", "count"} \subseteq Flags
  /\ Defaults["no-window"] = "false" /\ Defaults["window"] = "false"
  /\ Defaults["no-color"] = "false" /\ Defaults["color"] = "auto"
  /\ Defaults["no-live"] = "false" /\ Defaults["live"] = "auto"
  /\ Defaults["count"] = "0" /\ Numbers["0"] = 0
<1>1. {"no-window", "window", "no-color", "color", "no-live", "live", "count"} \subseteq Flags
  BY DEF Flags, BoolFlags, NumberFlags, TextFlags
<1>2. /\ DefaultOf("no-window") = "false" /\ DefaultOf("window") = "false"
      /\ DefaultOf("no-color") = "false" /\ DefaultOf("no-live") = "false"
  BY DEF DefaultOf, BoolFlags
<1>3. DefaultOf("color") = "auto" /\ DefaultOf("live") = "auto"
  BY DEF DefaultOf, BoolFlags
<1>4. DefaultOf("count") = "0"
  BY DEF DefaultOf, BoolFlags
<1>5. Numbers["0"] = 0
  BY DEF Numbers
<1>6. QED
  BY <1>1, <1>2, <1>3, <1>4, <1>5 DEF Defaults

\* What a run is started with keeps the promises of AcceptedIsRunnable.
LEMMA ValidIsRunnable ==
  ASSUME NEW s \in States, \A f \in Flags : f \notin s.given => s.val[f] = Defaults[f], Valid(s)
  PROVE  LET o == Inferred(s)
         IN  /\ \A f \in {"interval", "timeout", "down-after", "up-after", "window-lines"} :
                  Numbers[o[f]] >= 1
             /\ Numbers[o["count"]] >= IF "count" \in s.given THEN 1 ELSE 0
             /\ ~(o["no-window"] = "true" /\ o["window"] = "true")
             /\ ~(o["no-color"] = "true" /\ o["color"] = "always")
             /\ ~(o["no-live"] = "true" /\ o["live"] = "on")
<1> DEFINE o == Inferred(s)
<1>1. s.val \in [Flags -> Texts] /\ "window" \in Flags
  BY SomeDefaults DEF States
<1>2. /\ \A f \in Flags : f # "window" => o[f] = s.val[f]
      /\ o["window"] = IF "window-lines" \in s.given THEN "true" ELSE s.val["window"]
  BY <1>1 DEF Inferred
<1> HIDE DEF o
<1>3. ~Conflict(s) /\ InRange(s)
  BY DEF Valid
<1>4. \A f \in {"interval", "timeout", "down-after", "up-after", "window-lines"} : Numbers[o[f]] >= 1
  <2>1. \A f \in {"interval", "timeout", "down-after", "up-after", "window-lines"} :
          f \in NumberFlags \ {"count"} /\ f \in Flags /\ f # "window"
    BY DEF Flags, NumberFlags
  <2>2. QED
    BY <1>2, <1>3, <2>1 DEF InRange
<1>5. Numbers[o["count"]] >= IF "count" \in s.given THEN 1 ELSE 0
  <2>1. o["count"] = s.val["count"]
    BY <1>2, SomeDefaults
  <2>2. CASE "count" \in s.given
    BY <1>3, <2>1, <2>2 DEF InRange
  <2>3. CASE "count" \notin s.given
    <3>1. Numbers[o["count"]] = 0
      BY <2>1, <2>3, SomeDefaults
    <3>2. QED
      BY <2>3, <3>1
  <2>4. QED
    BY <2>2, <2>3
<1>6. ~(o["no-window"] = "true" /\ o["window"] = "true")
  <2>1. o["no-window"] = s.val["no-window"]
    BY <1>2, SomeDefaults
  <2>2. s.val["no-window"] = "true" => "no-window" \in s.given
    BY SomeDefaults
  <2>3. s.val["window"] = "true" => "window" \in s.given
    BY SomeDefaults
  <2>4. QED
    BY <1>2, <1>3, <2>1, <2>2, <2>3 DEF Conflict
<1>7. ~(o["no-color"] = "true" /\ o["color"] = "always")
  <2>1. o["no-color"] = s.val["no-color"] /\ o["color"] = s.val["color"]
    BY <1>2, SomeDefaults
  <2>2. /\ s.val["no-color"] = "true" => "no-color" \in s.given
        /\ s.val["color"] = "always" => "color" \in s.given
    BY SomeDefaults
  <2>3. QED
    BY <1>3, <2>1, <2>2 DEF Conflict
<1>8. ~(o["no-live"] = "true" /\ o["live"] = "on")
  <2>1. o["no-live"] = s.val["no-live"] /\ o["live"] = s.val["live"]
    BY <1>2, SomeDefaults
  <2>2. /\ s.val["no-live"] = "true" => "no-live" \in s.given
        /\ s.val["live"] = "on" => "live" \in s.given
    BY SomeDefaults
  <2>3. QED
    BY <1>3, <2>1, <2>2 DEF Conflict
<1>9. QED
  BY <1>4, <1>5, <1>6, <1>7, <1>8 DEF o

\* Thresholds, times and lines of a run that is accepted are at least 1, its count is 0
\* only by default, and none of its wishes contradicts another: for every command line.
THEOREM AcceptedCorrect == Spec => []AcceptedIsRunnable
<1>1. ArgsOK => AcceptedIsRunnable
  <2> SUFFICES ASSUME ArgsOK, Parse(args).action = "run"
               PROVE  /\ \A f \in {"interval", "timeout", "down-after", "up-after", "window-lines"} :
                           Numbers[Parse(args).opts[f]] >= 1
                      /\ Numbers[Parse(args).opts["count"]] >= IF "count" \in Parse(args).given THEN 1 ELSE 0
                      /\ ~(Parse(args).opts["no-window"] = "true" /\ Parse(args).opts["window"] = "true")
                      /\ ~(Parse(args).opts["no-color"] = "true" /\ Parse(args).opts["color"] = "always")
                      /\ ~(Parse(args).opts["no-live"] = "true" /\ Parse(args).opts["live"] = "on")
    BY DEF AcceptedIsRunnable
  <2>1. PICK s : Reads(s, args) /\ ParseArgs(args) = s[Len(args)]
    BY ParseArgsReads DEF ArgsOK
  <2> DEFINE t == ParseArgs(args)
  <2>2. t \in States /\ \A f \in Flags : f \notin t.given => t.val[f] = Defaults[f]
    BY <2>1, ReadsSound DEF ArgsOK
  <2>3. Valid(t) /\ Parse(args).opts = Inferred(t) /\ Parse(args).given = t.given
    BY DEF Parse, Refused, Outcome
  <2> HIDE DEF t
  <2>4. QED
    BY <2>2, <2>3, ValidIsRunnable
<1>2. QED
  BY <1>1, ArgsInit, ArgsNext, PTL DEF Spec

------------------------------------------------------------------------------
(* The order of the arguments *)

\* Two states from which parsing ends in the same way: both have failed, or they differ
\* at most in the order of positional arguments of which there are too many.
Alike(s, t) ==
  \/ s.failed /\ t.failed
  \/ /\ ~s.failed /\ ~t.failed
     /\ s.val = t.val /\ s.given = t.given /\ s.literal = t.literal
     /\ Len(s.positionals) = Len(t.positionals)
     /\ Len(s.positionals) < 2 => s.positionals = t.positionals

\* The same argument keeps them alike.
LEMMA AlikeStep ==
  ASSUME NEW s \in States, NEW t \in States, NEW a \in Tokens, Alike(s, t)
  PROVE  Alike(ParseArg(s, a), ParseArg(t, a))
<1> DEFINE u == ParseArg(s, a)
           v == ParseArg(t, a)
<1>0. /\ s.positionals \in Seq(Texts) /\ t.positionals \in Seq(Texts) /\ a.val \in Texts
      /\ s.val \in [Flags -> Texts] /\ t.val \in [Flags -> Texts]
      /\ a.kind \in {"flag", "positional", "dashes"}
  BY ArgumentIs DEF States
<1>1. CASE s.failed /\ t.failed
  <2>1. u = s /\ v = t
    BY <1>1, ParseArgIs
  <2>2. QED
    BY <1>1, <2>1 DEF Alike
<1>2. CASE ~s.failed /\ ~t.failed /\ TakesPositional(s, a)
  <2>1. TakesPositional(t, a)
    BY <1>2 DEF Alike, TakesPositional
  <2>2. /\ u = [s EXCEPT !.positionals = Append(@, a.val), !.literal = FALSE]
        /\ v = [t EXCEPT !.positionals = Append(@, a.val), !.literal = FALSE]
    BY <1>2, <2>1, ParseArgIs
  <2> DEFINE p == Append(s.positionals, a.val)
             q == Append(t.positionals, a.val)
  <2>3. /\ Len(p) = Len(s.positionals) + 1 /\ Len(q) = Len(t.positionals) + 1
        /\ Len(s.positionals) \in Nat
    BY <1>0
  <2>4. Len(p) = Len(q) /\ (Len(p) < 2 => p = q)
    BY <1>2, <2>3 DEF Alike
  <2> HIDE DEF p, q
  <2>5. /\ u.failed = s.failed /\ u.val = s.val /\ u.given = s.given
        /\ u.literal = FALSE /\ u.positionals = p
    BY <2>2 DEF States, p
  <2>6. /\ v.failed = t.failed /\ v.val = t.val /\ v.given = t.given
        /\ v.literal = FALSE /\ v.positionals = q
    BY <2>2 DEF States, q
  <2> HIDE DEF u, v
  <2>7. QED
    BY <1>2, <2>4, <2>5, <2>6 DEF Alike, u, v
<1>3. CASE ~s.failed /\ ~t.failed /\ ~TakesPositional(s, a)
  <2>1. ~TakesPositional(t, a) /\ a.kind \in {"flag", "dashes"}
    BY <1>0, <1>3 DEF Alike, TakesPositional
  <2>2. CASE a.kind = "dashes"
    <3>1. u = [s EXCEPT !.literal = TRUE] /\ v = [t EXCEPT !.literal = TRUE]
      BY <1>3, <2>1, <2>2, ParseArgIs
    <3>2. QED
      BY <1>3, <3>1 DEF Alike, States
  <2>3. CASE a.kind = "flag" /\ WellFormed(a.flag, a.val)
    <3>1. /\ u = [s EXCEPT !.val[a.flag] = a.val, !.given = @ \cup {a.flag}]
          /\ v = [t EXCEPT !.val[a.flag] = a.val, !.given = @ \cup {a.flag}]
      BY <1>3, <2>1, <2>3, ParseArgIs
    <3>2. QED
      BY <1>0, <1>3, <3>1 DEF Alike, States
  <2>4. CASE a.kind = "flag" /\ ~WellFormed(a.flag, a.val)
    <3>1. u = [s EXCEPT !.failed = TRUE] /\ v = [t EXCEPT !.failed = TRUE]
      BY <1>3, <2>1, <2>4, ParseArgIs
    <3>2. QED
      BY <3>1 DEF Alike, States
  <2>5. QED
    BY <2>1, <2>2, <2>3, <2>4
<1>4. QED
  BY <1>1, <1>2, <1>3 DEF Alike

\* What an argument that is not "--" makes of a state behind which no "--" has been read.
Bad(a) == a.kind = "flag" /\ ~WellFormed(a.flag, a.val)

LEMMA PlainStep ==
  ASSUME NEW s \in States, NEW a \in Tokens, ~s.literal, ~s.failed, a # Dashes
  PROVE  LET u == ParseArg(s, a)
         IN  /\ u \in States /\ ~u.literal
             /\ u.failed <=> Bad(a)
             /\ ~Bad(a) /\ a.kind = "positional" =>
                  u.positionals = Append(s.positionals, a.val) /\ u.val = s.val /\ u.given = s.given
             /\ ~Bad(a) /\ a.kind # "positional" =>
                  /\ u.val = [s.val EXCEPT ![a.flag] = a.val] /\ u.given = s.given \cup {a.flag}
                  /\ u.positionals = s.positionals
<1> DEFINE u == ParseArg(s, a)
<1>1. a.kind \in {"flag", "positional"} /\ u \in States
  BY ArgumentIs, ParseArgIs
<1>2. CASE a.kind = "positional"
  <2>1. u = [s EXCEPT !.positionals = Append(@, a.val), !.literal = FALSE]
    BY <1>2, ParseArgIs DEF TakesPositional
  <2>2. QED
    BY <1>1, <1>2, <2>1 DEF States, Bad
<1>3. CASE a.kind = "flag" /\ Bad(a)
  <2>1. u = [s EXCEPT !.failed = TRUE]
    BY <1>3, ParseArgIs DEF TakesPositional, Bad
  <2>2. QED
    BY <1>1, <1>3, <2>1 DEF States
<1>4. CASE a.kind = "flag" /\ ~Bad(a)
  <2>1. u = [s EXCEPT !.val[a.flag] = a.val, !.given = @ \cup {a.flag}]
    BY <1>4, ParseArgIs DEF TakesPositional, Bad
  <2>2. QED
    BY <1>1, <1>4, <2>1 DEF States
<1>5. QED
  BY <1>1, <1>2, <1>3, <1>4

\* Two arguments that set different things, in one order and in the other.
LEMMA SwapStep ==
  ASSUME NEW s \in States, NEW a \in Tokens, NEW b \in Tokens, ~s.literal,
         a # Dashes, b # Dashes, a.kind = "positional" \/ a.flag # b.flag
  PROVE  Alike(ParseArg(ParseArg(s, a), b), ParseArg(ParseArg(s, b), a))
<1> DEFINE u == ParseArg(s, a)
           v == ParseArg(s, b)
           x == ParseArg(u, b)
           y == ParseArg(v, a)
<1>1. CASE s.failed
  <2>1. u = s /\ v = s
    BY <1>1, ParseArgIs
  <2>2. x = s /\ y = s
    BY <1>1, <2>1, ParseArgIs
  <2>3. QED
    BY <1>1, <2>2 DEF Alike
<1>2. CASE ~s.failed
  <2>1. /\ u \in States /\ ~u.literal /\ (u.failed <=> Bad(a))
        /\ ~Bad(a) /\ a.kind = "positional" =>
             u.positionals = Append(s.positionals, a.val) /\ u.val = s.val /\ u.given = s.given
        /\ ~Bad(a) /\ a.kind # "positional" =>
             /\ u.val = [s.val EXCEPT ![a.flag] = a.val] /\ u.given = s.given \cup {a.flag}
             /\ u.positionals = s.positionals
    BY <1>2, PlainStep
  <2>2. /\ v \in States /\ ~v.literal /\ (v.failed <=> Bad(b))
        /\ ~Bad(b) /\ b.kind = "positional" =>
             v.positionals = Append(s.positionals, b.val) /\ v.val = s.val /\ v.given = s.given
        /\ ~Bad(b) /\ b.kind # "positional" =>
             /\ v.val = [s.val EXCEPT ![b.flag] = b.val] /\ v.given = s.given \cup {b.flag}
             /\ v.positionals = s.positionals
    BY <1>2, PlainStep
  <2> HIDE DEF u, v
  <2>3. CASE Bad(a)
    <3>1. u.failed /\ x = u
      BY <2>1, <2>3, ParseArgIs
    <3>2. y.failed
      <4>1. CASE Bad(b)
        BY <2>2, <4>1, ParseArgIs
      <4>2. CASE ~Bad(b)
        BY <2>2, <2>3, <4>2, PlainStep
      <4>3. QED
        BY <4>1, <4>2
    <3>3. QED
      BY <3>1, <3>2 DEF Alike, u, v
  <2>4. CASE ~Bad(a) /\ Bad(b)
    <3>1. v.failed /\ y = v
      BY <2>2, <2>4, ParseArgIs
    <3>2. x.failed
      BY <2>1, <2>4, PlainStep
    <3>3. QED
      BY <3>1, <3>2 DEF Alike, u, v
  <2>5. CASE ~Bad(a) /\ ~Bad(b)
    <3>1. /\ ~x.literal /\ ~x.failed /\ x \in States
          /\ b.kind = "positional" =>
               x.positionals = Append(u.positionals, b.val) /\ x.val = u.val /\ x.given = u.given
          /\ b.kind # "positional" =>
               /\ x.val = [u.val EXCEPT ![b.flag] = b.val] /\ x.given = u.given \cup {b.flag}
               /\ x.positionals = u.positionals
      BY <2>1, <2>5, PlainStep
    <3>2. /\ ~y.literal /\ ~y.failed /\ y \in States
          /\ a.kind = "positional" =>
               y.positionals = Append(v.positionals, a.val) /\ y.val = v.val /\ y.given = v.given
          /\ a.kind # "positional" =>
               /\ y.val = [v.val EXCEPT ![a.flag] = a.val] /\ y.given = v.given \cup {a.flag}
               /\ y.positionals = v.positionals
      BY <2>2, <2>5, PlainStep
    <3> HIDE DEF x, y
    <3>3. x.literal = y.literal
      BY <3>1, <3>2 DEF States
    <3>4. x.given = y.given
      BY <2>1, <2>2, <2>5, <3>1, <3>2
    <3>5. x.val = y.val
      <4>1. CASE a.kind = "positional" \/ b.kind = "positional"
        BY <2>1, <2>2, <2>5, <3>1, <3>2, <4>1
      <4>2. CASE a.kind # "positional" /\ b.kind # "positional"
        <5>1. /\ x.val = [[s.val EXCEPT ![a.flag] = a.val] EXCEPT ![b.flag] = b.val]
              /\ y.val = [[s.val EXCEPT ![b.flag] = b.val] EXCEPT ![a.flag] = a.val]
          BY <2>1, <2>2, <2>5, <3>1, <3>2, <4>2
        <5>2. a.flag # b.flag /\ s.val \in [Flags -> Texts]
          BY <4>2 DEF States
        <5>3. QED
          BY <5>1, <5>2
      <4>3. QED
        BY <4>1, <4>2
    <3>6. /\ Len(x.positionals) = Len(y.positionals)
          /\ Len(x.positionals) < 2 => x.positionals = y.positionals
      <4>0. s.positionals \in Seq(Texts) /\ a.val \in Texts /\ b.val \in Texts
        BY ArgumentIs DEF States
      <4>1. CASE a.kind = "positional" /\ b.kind = "positional"
        <5>1. /\ x.positionals = Append(Append(s.positionals, a.val), b.val)
              /\ y.positionals = Append(Append(s.positionals, b.val), a.val)
          BY <2>1, <2>2, <2>5, <3>1, <3>2, <4>1
        <5>2. Len(x.positionals) = Len(s.positionals) + 2 /\ Len(y.positionals) = Len(s.positionals) + 2
              /\ Len(s.positionals) \in Nat
          BY <4>0, <5>1
        <5>3. QED
          BY <5>2
      <4>2. CASE a.kind # "positional"
        BY <2>1, <2>2, <2>5, <3>1, <3>2, <4>2
      <4>3. CASE b.kind # "positional"
        BY <2>1, <2>2, <2>5, <3>1, <3>2, <4>3
      <4>4. QED
        BY <4>1, <4>2, <4>3
    <3>7. QED
      BY <3>1, <3>2, <3>3, <3>4, <3>5, <3>6 DEF Alike, u, v, x, y
  <2>6. QED
    BY <2>3, <2>4, <2>5
<1>3. QED
  BY <1>1, <1>2

\* What Parse decides depends only on that.
Decision(s) ==
  IF s.failed THEN Refused
  ELSE IF s.val["help"] = "true" THEN Outcome("help", Defaults, {})
  ELSE IF s.val["version"] = "true" THEN Outcome("version", Defaults, {})
  ELSE IF Valid(s) THEN Outcome("run", Inferred(s), s.given)
  ELSE Refused

LEMMA AlikeDecides ==
  ASSUME NEW s \in States, NEW t \in States, Alike(s, t)
  PROVE  Decision(s) = Decision(t)
<1>1. CASE s.failed /\ t.failed
  BY <1>1 DEF Decision
<1>2. CASE ~s.failed /\ ~t.failed
  <2>1. /\ s.val = t.val /\ s.given = t.given /\ Len(s.positionals) = Len(t.positionals)
        /\ Len(s.positionals) < 2 => s.positionals = t.positionals
    BY <1>2 DEF Alike
  <2>2. Conflict(s) <=> Conflict(t)
    BY <2>1 DEF Conflict
  <2>3. InRange(s) <=> InRange(t)
    BY <2>1 DEF InRange
  <2>4. (Len(s.positionals) = 1 /\ s.positionals[1] # "") <=> (Len(t.positionals) = 1 /\ t.positionals[1] # "")
    <3>1. CASE Len(s.positionals) = 1
      <4>1. s.positionals = t.positionals
        BY <2>1, <3>1
      <4>2. QED
        BY <4>1
    <3>2. CASE Len(s.positionals) # 1
      BY <2>1, <3>2
    <3>3. QED
      BY <3>1, <3>2
  <2>5. Valid(s) <=> Valid(t)
    BY <2>1, <2>2, <2>3, <2>4 DEF Valid
  <2>6. Inferred(s) = Inferred(t)
    BY <2>1 DEF Inferred
  <2>7. QED
    BY <1>2, <2>1, <2>5, <2>6 DEF Decision
<1>3. QED
  BY <1>1, <1>2 DEF Alike

\* Without a "--" no argument is taken literally.
LEMMA NeverLiteral ==
  ASSUME NEW a \in Seq(Tokens), NEW s, Reads(s, a), \A k \in 1..Len(a) : a[k] # Dashes
  PROVE  \A k \in 0..Len(a) : ~s[k].literal
<1> DEFINE S == {k \in 0..Len(a) : ~s[k].literal}
<1>1. Len(a) \in Nat
  OBVIOUS
<1>2. 0 \in S
  BY <1>1, ParsedIs, ReadsStep
<1>3. ASSUME NEW k \in 0..(Len(a) - 1), k \in S
      PROVE  k + 1 \in S
  <2>1. /\ s[k + 1] = ParseArg(s[k], a[k + 1]) /\ a[k + 1] \in Tokens /\ a[k + 1] # Dashes
        /\ k + 1 \in 0..Len(a)
    BY <1>1, ReadsStep
  <2>2. s[k] \in States /\ ~s[k].literal
    BY <1>1, <1>3, ReadsSound
  <2>3. ~s[k + 1].literal
    <3>1. CASE s[k].failed
      BY <2>1, <2>2, <3>1, ParseArgIs
    <3>2. CASE ~s[k].failed
      BY <2>1, <2>2, <3>2, PlainStep
    <3>3. QED
      BY <3>1, <3>2
  <2>4. QED
    BY <2>1, <2>3
<1>4. \A k \in 0..Len(a) : k \in S
  <2> HIDE DEF S
  <2>1. QED
    BY <1>1, <1>2, <1>3, UpTo
<1>5. QED
  BY <1>4

LEMMA SwappedIs ==
  ASSUME NEW a \in Seq(Tokens), NEW i \in 1..(Len(a) - 1)
  PROVE  /\ Swapped(a, i) \in Seq(Tokens) /\ Len(Swapped(a, i)) = Len(a)
         /\ Swapped(a, i)[i] = a[i + 1] /\ Swapped(a, i)[i + 1] = a[i]
         /\ \A k \in 1..Len(a) : k # i /\ k # i + 1 => Swapped(a, i)[k] = a[k]
<1> DEFINE b == Swapped(a, i)
<1>1. Len(a) \in Nat /\ i \in 1..Len(a) /\ i + 1 \in 1..Len(a) /\ i # i + 1
      /\ a \in [1..Len(a) -> Tokens]
  OBVIOUS
<1>2. /\ b \in [1..Len(a) -> Tokens]
      /\ b[i] = a[i + 1] /\ b[i + 1] = a[i]
      /\ \A k \in 1..Len(a) : k # i /\ k # i + 1 => b[k] = a[k]
  BY <1>1 DEF Swapped
<1> HIDE DEF b
<1>3. b \in Seq(Tokens) /\ Len(b) = Len(a)
  BY <1>1, <1>2, IsASeq, LenProperties
<1>4. QED
  BY <1>2, <1>3 DEF b

LEMMA SwapIrrelevant ==
  ASSUME NEW a \in Seq(Tokens), NEW i \in 1..(Len(a) - 1), \A k \in 1..Len(a) : a[k] # Dashes,
         a[i].kind = "positional" \/ a[i].flag # a[i + 1].flag
  PROVE  Parse(Swapped(a, i)) = Parse(a)
<1> DEFINE b == Swapped(a, i)
           L == Len(a)
<1>1. /\ b \in Seq(Tokens) /\ Len(b) = L /\ b[i] = a[i + 1] /\ b[i + 1] = a[i]
      /\ \A k \in 1..L : k # i /\ k # i + 1 => b[k] = a[k]
      /\ L \in Nat /\ i \in 1..L /\ i + 1 \in 1..L
  BY SwappedIs
<1> HIDE DEF b
<1>2. PICK s : Reads(s, a) /\ ParseArgs(a) = s[L]
  BY ParseArgsReads
<1>3. PICK t : Reads(t, b) /\ ParseArgs(b) = t[L]
  BY <1>1, ParseArgsReads
<1>4. /\ s[0] = Parsed /\ \A k \in 1..L : s[k] = ParseArg(s[k - 1], a[k])
      /\ \A k \in 0..(L - 1) : s[k + 1] = ParseArg(s[k], a[k + 1])
      /\ \A k \in 0..L : s[k] \in States
      /\ \A k \in 0..L : ~s[k].literal
  BY <1>2, ReadsStep, ReadsSound, NeverLiteral
<1>5. /\ t[0] = Parsed /\ \A k \in 1..L : t[k] = ParseArg(t[k - 1], b[k])
      /\ \A k \in 0..(L - 1) : t[k + 1] = ParseArg(t[k], b[k + 1])
      /\ \A k \in 0..L : t[k] \in States
  BY <1>1, <1>3, ReadsStep, ReadsSound
<1>6. \A k \in 0..(i - 1) : s[k] = t[k]
  <2> DEFINE S == {k \in 0..(i - 1) : s[k] = t[k]}
  <2>1. 0 \in S /\ i - 1 \in Nat
    BY <1>1, <1>4, <1>5
  <2>2. ASSUME NEW k \in 0..((i - 1) - 1), k \in S
        PROVE  k + 1 \in S
    <3>1. k \in 0..(L - 1) /\ k + 1 \in 1..L /\ k + 1 # i /\ k + 1 # i + 1 /\ k + 1 \in 0..(i - 1)
      BY <1>1, <2>2
    <3>2. b[k + 1] = a[k + 1]
      BY <1>1, <3>1
    <3>3. QED
      BY <1>4, <1>5, <2>2, <3>1, <3>2
  <2> HIDE DEF S
  <2>3. \A k \in 0..(i - 1) : k \in S
    BY <2>1, <2>2, UpTo
  <2>4. QED
    BY <2>3 DEF S
<1>7. Alike(s[i + 1], t[i + 1])
  <2> DEFINE r == s[i - 1]
             c == a[i]
             d == a[i + 1]
  <2>1. i - 1 \in 0..L /\ i - 1 \in 0..(i - 1) /\ i \in 0..(L - 1) /\ i \in 1..L /\ i + 1 \in 1..L
    BY <1>1
  <2>2. r \in States /\ ~r.literal /\ c \in Tokens /\ d \in Tokens /\ c # Dashes /\ d # Dashes
    BY <1>4, <2>1
  <2>3. t[i - 1] = r
    BY <1>6, <2>1
  <2>4. s[i] = ParseArg(r, c) /\ t[i] = ParseArg(r, d)
    BY <1>1, <1>4, <1>5, <2>1, <2>3
  <2>5. s[i + 1] = ParseArg(s[i], d) /\ t[i + 1] = ParseArg(t[i], c)
    BY <1>1, <1>4, <1>5, <2>1
  <2>6. c.kind = "positional" \/ c.flag # d.flag
    OBVIOUS
  <2> HIDE DEF r, c, d
  <2>7. Alike(ParseArg(ParseArg(r, c), d), ParseArg(ParseArg(r, d), c))
    BY <2>2, <2>6, SwapStep
  <2>8. QED
    BY <2>4, <2>5, <2>7
<1>8. \A k \in (i + 1)..L : Alike(s[k], t[k])
  <2> DEFINE S == {k \in (i + 1)..L : Alike(s[k], t[k])}
  <2>1. i + 1 \in S /\ i + 1 \in Nat
    BY <1>1, <1>7
  <2>2. ASSUME NEW k \in (i + 1)..(L - 1), k \in S
        PROVE  k + 1 \in S
    <3>1. k \in 0..(L - 1) /\ k \in 0..L /\ k + 1 \in 1..L /\ k + 1 # i /\ k + 1 # i + 1
          /\ k + 1 \in (i + 1)..L
      BY <1>1, <2>2
    <3>2. b[k + 1] = a[k + 1] /\ a[k + 1] \in Tokens
      BY <1>1, <3>1
    <3>3. s[k + 1] = ParseArg(s[k], a[k + 1]) /\ t[k + 1] = ParseArg(t[k], a[k + 1])
      BY <1>4, <1>5, <3>1, <3>2
    <3>4. s[k] \in States /\ t[k] \in States /\ Alike(s[k], t[k])
      BY <1>4, <1>5, <2>2, <3>1
    <3>5. Alike(s[k + 1], t[k + 1])
      BY <3>2, <3>3, <3>4, AlikeStep
    <3>6. QED
      BY <3>1, <3>5
  <2> HIDE DEF S
  <2>3. \A k \in (i + 1)..L : k \in S
    BY <1>1, <2>1, <2>2, UpTo
  <2>4. QED
    BY <2>3 DEF S
<1>9. L \in (i + 1)..L /\ L \in 0..L
  BY <1>1
<1>10. Decision(s[L]) = Decision(t[L])
  BY <1>4, <1>5, <1>8, <1>9, AlikeDecides
<1>11. Parse(a) = Decision(ParseArgs(a)) /\ Parse(b) = Decision(ParseArgs(b))
  BY DEF Parse, Decision
<1>12. QED
  BY <1>2, <1>3, <1>10, <1>11 DEF b

\* Flags and host may be given in any order: for every command line without "--", two
\* neighbours that set different things, swapped, change nothing of what Parse makes of it.
THEOREM OrderCorrect == Spec => []OrderIrrelevant
<1>1. ArgsOK => OrderIrrelevant
  <2> SUFFICES ASSUME ArgsOK, NEW i \in 1..(Len(args) - 1), Dashes \notin Range(args),
                      args[i].kind = "positional" \/ args[i].flag # args[i + 1].flag
               PROVE  Parse(Swapped(args, i)) = Parse(args)
    BY DEF OrderIrrelevant
  <2>1. args \in Seq(Tokens) /\ DOMAIN args = 1..Len(args)
    BY DEF ArgsOK
  <2>2. \A k \in 1..Len(args) : args[k] # Dashes
    BY <2>1 DEF Range
  <2>3. QED
    BY <2>1, <2>2, SwapIrrelevant
<1>2. QED
  BY <1>1, ArgsInit, ArgsNext, PTL DEF Spec
==============================================================================
