---------------------------- MODULE EngineHistory ----------------------------
(***************************************************************************)
(* The status engine beside the record of everything that happened to it:   *)
(* the history variables never influence a step.  What the log and the      *)
(* display are told, event by event, is compared with what happened.        *)
(***************************************************************************)
EXTENDS Engine, Sequences, FiniteSets

VARIABLES results,   \* every result stepped so far, oldest first
          first,     \* the time of the first of them
          since,     \* the index of the one the current status began with
          closed     \* what the events said of the statuses that ended, in total

histVars == <<results, first, since, closed>>
hVars == <<vars, histVars>>

Ends(event) == event.kind \in {"statusChange", "error"}

HInit ==
  /\ Init
  /\ results = <<>>
  /\ first = 0
  /\ since = 1
  /\ closed = [Count |-> 0, Sum |-> 0, duration |-> 0]

HResult(res) ==
  /\ Result(res)
  /\ results' = Append(results, res)
  /\ first' = IF totalProbes = 0 THEN now ELSE first
  /\ since' = IF Ends(ev') THEN Len(results') ELSE since
  /\ closed' = [Count    |-> closed.Count + ev'.prevStats.Count,
                Sum      |-> closed.Sum + ev'.prevStats.Sum,
                duration |-> closed.duration + ev'.duration]

HClockTick == ClockTick /\ UNCHANGED histVars

HNext == HClockTick \/ \E res \in Results : HResult(res)

HSpec == HInit /\ [][HNext]_hVars

------------------------------------------------------------------------------
\* The successful probes among rs, from one index on.
Samples(rs, from) == {i \in from..Len(rs) : rs[i].outcome = "up"}

\* No round-trip sample is lost, and none is counted twice: what the events
\* handed over as statistics of ended statuses, with the statistics still
\* running, accounts for every successful probe.  A success below the
\* threshold and the success that flips the status are the ones at risk.
SamplesConserved ==
  /\ closed.Count + stats.Count = totalOK
  /\ totalOK = Cardinality(Samples(results, 1))

\* The durations of the ended statuses and of the running one partition the
\* time since the first probe: the log of a run has no gap and no overlap.
PeriodsPartitionRun ==
  totalProbes > 0 => closed.duration + (now - start) = now - first

\* The running statistics are those of the successes since the current status
\* began, the one that began it included.
StatsDescribe(s, rs, from) ==
  /\ s.Count = Cardinality(Samples(rs, from))
  /\ \A i \in Samples(rs, from) : s.Min <= rs[i].rtt /\ rs[i].rtt <= s.Max
  /\ Samples(rs, from) # {} =>
       \E i, j \in Samples(rs, from) : rs[i].rtt = s.Min /\ rs[j].rtt = s.Max

StatsDescribePeriod == StatsDescribe(stats, results, since)

\* A status ends exactly when an event says so, and the same status never
\* begins twice in a row: repeated errors are one period, one line, one entry.
OneEventPerPeriod ==
  [][results' # results =>
       (Ends(ev') <=> status' # status) /\ ev'.status = status']_hVars

\* The engine's counters implement the verdict over the whole history.
Outcome(i) == results[i].outcome

Abstract == INSTANCE Hysteresis WITH
              outcomes <- [i \in 1..Len(results) |-> Outcome(i)]

ImplementsHysteresis == Abstract!Spec
==============================================================================
