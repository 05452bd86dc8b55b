------------------------------- MODULE Engine --------------------------------
(***************************************************************************)
(* The status engine (internal/state/state.go): it folds probe results,     *)
(* one at a time, into a status with hysteresis, into the round-trip        *)
(* statistics of the current status, and into one semantic event per        *)
(* result.  It is not concurrent: one goroutine steps it.  The clock is     *)
(* injected (the t of Step) and monotonic.                                  *)
(***************************************************************************)
EXTENDS Integers, ProbeResult

CONSTANTS DownAfter,   \* failures before the status flips to down
          UpAfter,     \* successes before the status flips to up
          MaxProbes,   \* bound: how many results are stepped
          MaxTime      \* bound: how far the clock runs

\* Both thresholds are at least 1: the command line refuses anything else.
ASSUME EngineAssumption ==
  /\ DownAfter \in Nat \ {0}
  /\ UpAfter \in Nat \ {0}
  /\ MaxProbes \in Nat
  /\ MaxTime \in Nat

VARIABLES status,        \* Engine.status
          start,         \* Engine.start: when the current status began
          fails,         \* Engine.fails
          successes,     \* Engine.successes
          stats,         \* Engine.stats
          totalProbes,   \* Engine.totalProbes
          totalOK,       \* Engine.totalOK
          totalFail,     \* Engine.totalFail
          ev,            \* the event the latest Step returned
          now            \* the injected clock

counters == <<fails, successes, totalProbes, totalOK, totalFail>>
engineVars == <<status, start, stats, counters, ev>>
vars == <<engineVars, now>>

Statuses == {"unknown", "up", "down", "error"}
Kinds == {"none", "probeSuccess", "probeFailure", "probeError",
          "statusChange", "error"}

------------------------------------------------------------------------------
(* Stats: the zero value, folding in one sample, the mean. *)

NoStats == [Count |-> 0, Min |-> 0, Max |-> 0, Sum |-> 0]

\* Mutants of Add: the extremes start from zero; the maximum is never raised.
AddFromZero(s, rtt) ==
  [Count |-> s.Count + 1,
   Min   |-> IF rtt < s.Min THEN rtt ELSE s.Min,
   Max   |-> IF rtt > s.Max THEN rtt ELSE s.Max,
   Sum   |-> s.Sum + rtt]

AddMaxOnce(s, rtt) ==
  [Count |-> s.Count + 1,
   Min   |-> IF s.Count = 0 \/ rtt < s.Min THEN rtt ELSE s.Min,
   Max   |-> IF s.Count = 0 THEN rtt ELSE s.Max,
   Sum   |-> s.Sum + rtt]

Add(s, rtt) ==
  [Count |-> s.Count + 1,
   Min   |-> IF s.Count = 0 \/ rtt < s.Min THEN rtt ELSE s.Min,
   Max   |-> IF s.Count = 0 \/ rtt > s.Max THEN rtt ELSE s.Max,
   Sum   |-> s.Sum + rtt]

Avg(s) == IF s.Count = 0 THEN 0 ELSE s.Sum \div s.Count

------------------------------------------------------------------------------
(* Step, by outcome. *)

\* The start of the status the result arrives in: the first result of all
\* anchors the unknown status at its own time (the mutant does not).
AnchorAtZero == start

Anchor == IF totalProbes = 0 THEN now ELSE start

\* The result of each outcome that changes the status, and mutants of the
\* conditions: one result late, or without the test of the status.
FlipsUpLate == status # "up" /\ successes + 1 > UpAfter

FlipsUp == status # "up" /\ successes + 1 >= UpAfter

FlipsDownLate == status # "down" /\ fails + 1 > DownAfter

FlipsDown == status # "down" /\ fails + 1 >= DownAfter

FlipsErrorAgain == TRUE

FlipsError == status # "error"

\* transition: the new status begins now, with no samples.
Transition(flips, s) ==
  /\ status' = IF flips THEN s ELSE status
  /\ start' = IF flips THEN now ELSE Anchor

\* The statistics it leaves, to which a success then adds its sample; the
\* mutant forgets the reset.
CarriedOver(flips) == stats

Carried(flips) == IF flips THEN NoStats ELSE stats

\* The event: the duration and statistics of the status that just ended are
\* there only when it did end.  The mutant counts the failures before this one.
EmitBefore(kind, res, f, flips) ==
  ev' = [kind |-> kind, time |-> now, prevStatus |-> status, status |-> status',
         rtt |-> res.rtt, err |-> res.err, fails |-> f - 1,
         duration  |-> IF flips THEN now - Anchor ELSE 0,
         prevStats |-> IF flips THEN stats ELSE NoStats,
         stats     |-> stats']

Emit(kind, res, f, flips) ==
  ev' = [kind |-> kind, time |-> now, prevStatus |-> status, status |-> status',
         rtt |-> res.rtt, err |-> res.err, fails |-> f,
         duration  |-> IF flips THEN now - Anchor ELSE 0,
         prevStats |-> IF flips THEN stats ELSE NoStats,
         stats     |-> stats']

\* A success: the flip to up comes first, so that this sample is the first of
\* the new status; the event then carries the failures it ended.
StepUp(res) ==
  /\ res.outcome = "up"
  /\ totalProbes' = totalProbes + 1
  /\ totalOK' = totalOK + 1
  /\ successes' = successes + 1
  /\ fails' = 0
  /\ Transition(FlipsUp, "up")
  /\ stats' = Add(Carried(FlipsUp), res.rtt)
  /\ Emit(IF FlipsUp THEN "statusChange" ELSE "probeSuccess", res,
          IF FlipsUp THEN fails ELSE 0, FlipsUp)
  /\ UNCHANGED totalFail

\* A probe that got no answer.
StepDown(res) ==
  /\ res.outcome = "down"
  /\ totalProbes' = totalProbes + 1
  /\ totalFail' = totalFail + 1
  /\ fails' = fails + 1
  /\ successes' = 0
  /\ Transition(FlipsDown, "down")
  /\ stats' = Carried(FlipsDown)
  /\ Emit(IF FlipsDown THEN "statusChange" ELSE "probeFailure", res, fails + 1,
          FlipsDown)
  /\ UNCHANGED totalOK

\* An operational error: enters the error status at once, and leaves the
\* counters of consecutive results as they are.
StepError(res) ==
  /\ res.outcome = "error"
  /\ totalProbes' = totalProbes + 1
  /\ Transition(FlipsError, "error")
  /\ stats' = Carried(FlipsError)
  /\ Emit(IF FlipsError THEN "error" ELSE "probeError", res, fails, FlipsError)
  /\ UNCHANGED <<fails, successes, totalOK, totalFail>>

Step(res) == StepUp(res) \/ StepDown(res) \/ StepError(res)

------------------------------------------------------------------------------
NoEvent == [kind |-> "none", time |-> 0, prevStatus |-> "unknown",
            status |-> "unknown", rtt |-> 0, err |-> "none", fails |-> 0,
            duration |-> 0, prevStats |-> NoStats, stats |-> NoStats]

\* New: no status yet.  start is the zero time until the first Step.
Init ==
  /\ status = "unknown"
  /\ start = 0
  /\ fails = 0
  /\ successes = 0
  /\ stats = NoStats
  /\ totalProbes = 0
  /\ totalOK = 0
  /\ totalFail = 0
  /\ ev = NoEvent
  /\ now = 0

\* The clock of the caller advances between two results.
ClockTick == now < MaxTime /\ now' = now + 1 /\ UNCHANGED engineVars

Result(res) == totalProbes < MaxProbes /\ Step(res) /\ UNCHANGED now

Next == ClockTick \/ \E res \in Results : Result(res)

Spec == Init /\ [][Next]_vars

------------------------------------------------------------------------------
\* Every variable has its type.
StatsType == [Count : Nat, Min : Nat, Max : Nat, Sum : Nat]

EventType ==
  [kind : Kinds, time : Nat, prevStatus : Statuses, status : Statuses,
   rtt : Nat, err : {"none", "permission", "other"}, fails : Nat,
   duration : Nat, prevStats : StatsType, stats : StatsType]

TypeOK ==
  /\ status \in Statuses
  /\ now \in 0..MaxTime
  /\ start \in 0..now
  /\ fails \in Nat /\ successes \in Nat
  /\ stats \in StatsType
  /\ totalProbes \in 0..MaxProbes /\ totalOK \in Nat /\ totalFail \in Nat
  /\ ev \in EventType

\* The hysteresis counters and the status agree after every result, in
\* whatever order successes, failures and errors came: the two runs exclude
\* each other, and a status that is not down never sits on a run of failures
\* long enough to be down (nor one that is not up on a run of successes),
\* except behind an error, whose status hides both runs.
RunsExclude == fails = 0 \/ successes = 0
DownOnTime == status \in {"unknown", "up"} => fails < DownAfter
UpOnTime == status \in {"unknown", "down"} => successes < UpAfter

ThresholdsHold == RunsExclude /\ DownOnTime /\ UpOnTime

\* What the live line prints is meaningful: a host shown up has at least one
\* sample, and the mean lies between the extremes, also for the samples that
\* successes below the threshold leave in another status.
StatsMeaningful ==
  /\ status = "up" => stats.Count > 0
  /\ stats.Count = 0 => stats = NoStats
  /\ stats.Count > 0 => stats.Min <= Avg(stats) /\ Avg(stats) <= stats.Max
==============================================================================
