------------------------------ MODULE ProbeLoop ------------------------------
(***************************************************************************)
(* Run (internal/app/run.go) over a probe in time: a ticker whose channel     *)
(* holds one tick, the calls of Probe it paces, and the attempts they make,   *)
(* through the chain of ICMP tiers (module Fallback) or of a single TCP dial, *)
(* which is the same as a chain of one.  An attempt takes some time, up to    *)
(* its timeout, and ends in a way that module Classify turns into a result.   *)
(*                                                                         *)
(* Run and the probe are scheduled within a unit of time.                    *)
(***************************************************************************)
EXTENDS Fallback, Classify

CONSTANTS Interval, Timeout,   \* --interval, --timeout
          Second,              \* units of time in a second
          MaxTime              \* bound: length of the run

ASSUME ProbeLoopAssumption ==
  /\ Interval \in Nat \ {0} /\ Timeout \in Nat \ {0}
  /\ Second \in Nat \ {0}
  /\ MaxTime \in Nat

VARIABLES now,
          kinds,      \* what each tier is
          elapsed,    \* how long the running attempt has taken
          run,        \* where Run is: start, probing, waiting, over
          ticks,      \* the ticks in the ticker's channel
          sinceTick,  \* how long ago the ticker fired, or was started
          end,        \* history: how the latest attempt ended
          began,      \* history: when each call of Probe was made
          ended       \* history: when each returned

loopVars == <<now, kinds, elapsed, run, ticks, sinceTick, end, began, ended>>

allVars == <<vars, loopVars>>

\* A dial is alone; the ping command comes last.
LoopInit ==
  /\ Init
  /\ kinds \in [Tiers -> Kinds]
  /\ \A i \in Tiers : /\ kinds[i] = "dial" => tiers = 1
                      /\ kinds[i] = "command" => i = tiers
  /\ tiers = 3 => kinds[3] = "command"
  /\ now = 0 /\ elapsed = 0 /\ run = "start" /\ ticks = 0 /\ sinceTick = 0
  /\ end = <<>> /\ began = <<>> /\ ended = <<>>

------------------------------------------------------------------------------
(* Run *)

\* The first probe starts at once, each further one with a tick, even if the run
\* has been cancelled as well.
StartProbe ==
  /\ Call
  /\ \/ run = "start" /\ UNCHANGED ticks
     \/ run = "waiting" /\ ticks > 0 /\ ticks' = ticks - 1
  /\ run' = "probing"
  /\ elapsed' = 0
  /\ began' = Append(began, now)
  /\ UNCHANGED <<now, kinds, sinceTick, end, ended>>

\* A result that comes after the cancellation is dropped; so ends the last probe
\* of --count.
ProbeReturned ==
  /\ run' = IF cancelled \/ calls = MaxCalls THEN "over" ELSE "waiting"
  /\ ended' = Append(ended, now)

WaitCancelled ==
  /\ run = "waiting" /\ cancelled
  /\ run' = "over"
  /\ UNCHANGED <<vars, now, kinds, elapsed, ticks, sinceTick, end, began, ended>>

CloseProbe ==
  /\ run = "over" /\ Close
  /\ UNCHANGED loopVars

------------------------------------------------------------------------------
(* An attempt of the active tier *)

\* pingWaitSeconds: the command takes whole seconds, at least as many as the timeout
\* has.
CommandWait == ((Timeout + Second - 1) \div Second) * Second

Limit == IF kinds[cur] = "command" THEN CommandWait ELSE Timeout

\* When an attempt may end in which way: a deadline has passed, a dial is canceled
\* with the run, the command gives up by itself.
CanEnd(e) ==
  /\ e \in EndsOf(kinds[cur])
  /\ e \in {<<"timeout">>, <<"deadline">>} => elapsed = Limit
  /\ e = <<"canceled">> => cancelled

\* It ends, and the chain returns its result or goes on with the next tier.
AttemptEnds ==
  /\ run = "probing"
  /\ \E rtt \in RTTs, e \in UNION {EndsOf(k) : k \in Kinds} :
       /\ CanEnd(e)
       /\ TierReturns(ResultOf(kinds[cur], e, rtt, cancelled))
       /\ end' = e
  /\ elapsed' = 0
  /\ IF pc' = "idle" THEN ProbeReturned ELSE UNCHANGED <<run, ended>>
  /\ UNCHANGED <<now, kinds, ticks, sinceTick, began>>

------------------------------------------------------------------------------
(* The clock *)

\* The channel of the ticker holds one tick, further ones are dropped; in the
\* mutant they pile up.
Fires == sinceTick + 1 = Interval

TickerPiles ==
  /\ sinceTick' = IF Fires THEN 0 ELSE sinceTick + 1
  /\ ticks' = IF Fires THEN ticks + 1 ELSE ticks

Ticker ==
  /\ sinceTick' = IF Fires THEN 0 ELSE sinceTick + 1
  /\ ticks' = IF Fires THEN 1 ELSE ticks

\* Time passes while Run has nothing to do, or its attempt is within its limit.
Tick ==
  /\ now < MaxTime
  /\ \/ run = "waiting" /\ ticks = 0 /\ ~cancelled
     \/ run = "probing" /\ elapsed < Limit
  /\ now' = now + 1
  /\ elapsed' = IF run = "probing" THEN elapsed + 1 ELSE 0
  /\ Ticker
  /\ UNCHANGED <<vars, kinds, run, end, began, ended>>

LoopCancel == Cancel /\ UNCHANGED loopVars

LoopNext == StartProbe \/ AttemptEnds \/ WaitCancelled \/ CloseProbe \/ Tick \/ LoopCancel

\* Run and the attempts go on, and so does time.
LoopFairness ==
  /\ WF_allVars(StartProbe \/ WaitCancelled \/ CloseProbe)
  /\ WF_allVars(AttemptEnds)
  /\ WF_allVars(Tick)

LoopSpec == LoopInit /\ [][LoopNext]_allVars /\ LoopFairness

------------------------------------------------------------------------------
(* Properties *)

\* The variables of the chain and of the loop have their types.
LoopTypeOK ==
  /\ TypeOK
  /\ now \in Nat /\ elapsed \in 0..CommandWait
  /\ kinds \in [Tiers -> Kinds]
  /\ run \in {"start", "probing", "waiting", "over"}
  /\ (run = "probing") = (pc = "trying")
  /\ ticks \in Nat /\ sinceTick \in 0..(Interval - 1)
  /\ end \in {<<>>} \cup UNION {EndsOf(k) : k \in Kinds}
  /\ began \in Seq(Nat) /\ ended \in Seq(Nat)

\* run.go:11-12 "fixed-rate cadence (interval between probe starts, never
\* overlapping - a probe that outlives the interval delays the next start)": the
\* n-th probe never starts before its turn, the next one starts when it should or
\* when the slow one before it is over, and a delay is made up for by at most one
\* early start, never by a burst.
Cadence ==
  \A n \in 1..Len(began) :
    /\ began[n] >= (n - 1) * Interval
    /\ n > 1 => began[n] \in ended[n-1]..(IF ended[n-1] > began[n-1] + Interval
                                          THEN ended[n-1] ELSE began[n-1] + Interval)
    /\ n > 2 => began[n] >= began[n-2] + Interval

\* Ends that are denials, and two of them that the code cannot tell from other
\* failures: the system's text for EACCES begins with a capital letter that
\* pingcmd.go:111 does not look for, and the error of a command that could not be
\* started is formatted with %v (pingcmd.go:91).
Denials == {Local("permission"), <<"readFailed", "permission">>,
            <<"exit", 2, "Operation not permitted">>, <<"exit", 2, "permission denied">>,
            <<"exit", 2, "Permission denied">>, <<"notStarted", "permission">>}

Overlooked == {<<"exit", 2, "Permission denied">>, <<"notStarted", "permission">>}

\* ping.go:7-10: up is reported exactly when the host answered, be it with a
\* refusal, and down exactly when it let the time pass; a local failure is never
\* either.  A permission error, which ends the run, is reported for denials only,
\* and for all of them but the overlooked ones, which are errors like any other.
\* An error is reported only when no tier could do better: the tier has worked
\* before, or every other one has failed.  A result of a run that is being
\* cancelled is nobody's.
VerdictJustified ==
  pc = "idle" /\ calls > 0 /\ ~cancelled =>
    /\ result.outcome = "up" <=>
         end \in {<<"connected">>, <<"refused">>, <<"reset">>, <<"exit", 0>>, <<"reply">>}
    /\ result.outcome = "down" <=> end \in {<<"timeout">>, <<"exit", 1>>, <<"deadline">>}
    /\ IsPermissionError(result.err) <=> end \in Denials \ Overlooked
    /\ result.outcome = "error" =>
         everWorked[cur] \/ \A i \in Tiers : i \in failed \/ closings[i] = 1
==============================================================================
