---------------------------- MODULE EngineProofs -----------------------------
(***************************************************************************)
(* Proofs about the status engine, for every threshold, every set of       *)
(* round-trip times and every length of the run: its types, counters and   *)
(* statistics; then that its events and statistics account for everything  *)
(* that happened; then that it implements the verdict over the whole history*)
(* of outcomes (module Hysteresis).                                        *)
(***************************************************************************)
EXTENDS EngineHistory, FiniteSetTheorems, SequenceTheorems, TLAPS

------------------------------------------------------------------------------
(* The types of what the engine handles. *)

\* A result, whatever its outcome, has a natural RTT and a class of error.
LEMMA ResultShape ==
  ASSUME NEW res \in Results
  PROVE  /\ res.outcome \in Outcomes
         /\ res.rtt \in Nat
         /\ res.err \in {"none", "permission", "other"}
BY ProbeResultAssumption
   DEF Results, UpResult, DownResult, ErrorResult, Outcomes

\* The empty statistics and one more sample are statistics.
LEMMA StatsClosed ==
  /\ NoStats \in StatsType
  /\ \A s \in StatsType, r \in Nat : Add(s, r) \in StatsType
BY DEF NoStats, StatsType, Add

\* The initial states have their types.
LEMMA InitType == Init => TypeOK
BY EngineAssumption, StatsClosed
   DEF Init, TypeOK, NoEvent, EventType, Kinds, Statuses

\* Every engine step keeps the types.
LEMMA NextType ==
  ASSUME TypeOK, [Next]_vars
  PROVE  TypeOK'
<1> USE DEF TypeOK, vars, engineVars, counters
<1>1. CASE UNCHANGED vars
  BY <1>1
<1>2. CASE ClockTick
  BY <1>2, EngineAssumption DEF ClockTick
<1>3. ASSUME NEW res \in Results, Result(res)
      PROVE  TypeOK'
  <2>1. /\ res.rtt \in Nat
        /\ res.err \in {"none", "permission", "other"}
    BY ResultShape
  <2>2. /\ now' = now /\ totalProbes < MaxProbes
        /\ Anchor \in 0..now
        /\ now - Anchor \in Nat
    BY <1>3, EngineAssumption DEF Result, Anchor
  <2>3. CASE StepUp(res)
    <3>1. Carried(FlipsUp) \in StatsType
      BY StatsClosed DEF Carried
    <3>2. stats' \in StatsType
      BY <2>1, <2>3, <3>1, StatsClosed DEF StepUp
    <3>3. status' \in Statuses /\ start' \in 0..now
      BY <2>2, <2>3, EngineAssumption DEF StepUp, FlipsUp, Transition, Statuses
    <3>4. ev' \in EventType
      BY <2>1, <2>2, <2>3, <3>2, <3>3, StatsClosed
         DEF StepUp, Emit, EventType, Kinds
    <3>5. QED
      BY <1>3, <2>2, <2>3, <3>2, <3>3, <3>4, EngineAssumption DEF StepUp
  <2>4. CASE StepDown(res)
    <3>1. stats' \in StatsType
      BY <2>4, StatsClosed DEF StepDown, Carried
    <3>2. status' \in Statuses /\ start' \in 0..now
      BY <2>2, <2>4, EngineAssumption DEF StepDown, Transition, Statuses
    <3>3. ev' \in EventType
      BY <2>1, <2>2, <2>4, <3>1, <3>2, StatsClosed
         DEF StepDown, Emit, EventType, Kinds
    <3>4. QED
      BY <1>3, <2>2, <2>4, <3>1, <3>2, <3>3, EngineAssumption DEF StepDown
  <2>5. CASE StepError(res)
    <3>1. stats' \in StatsType
      BY <2>5, StatsClosed DEF StepError, Carried
    <3>2. status' \in Statuses /\ start' \in 0..now
      BY <2>2, <2>5, EngineAssumption DEF StepError, Transition, Statuses
    <3>3. ev' \in EventType
      BY <2>1, <2>2, <2>5, <3>1, <3>2, StatsClosed
         DEF StepError, Emit, EventType, Kinds
    <3>4. QED
      BY <1>3, <2>2, <2>5, <3>1, <3>2, <3>3, EngineAssumption DEF StepError
  <2>6. QED
    BY <1>3, <2>3, <2>4, <2>5 DEF Result, Step
<1>4. QED
  BY <1>1, <1>2, <1>3 DEF Next

------------------------------------------------------------------------------
(* The hysteresis counters. *)

\* The counters and the status agree initially, and every step keeps them so.
LEMMA InitThresholds == Init => ThresholdsHold
BY EngineAssumption
   DEF Init, ThresholdsHold, RunsExclude, DownOnTime, UpOnTime

LEMMA NextThresholds ==
  ASSUME TypeOK, ThresholdsHold, [Next]_vars
  PROVE  ThresholdsHold'
<1> USE EngineAssumption DEF ThresholdsHold, RunsExclude, DownOnTime, UpOnTime
<1>1. CASE UNCHANGED vars
  BY <1>1 DEF vars, engineVars, counters
<1>2. CASE ClockTick
  BY <1>2 DEF ClockTick, engineVars, counters
<1>3. ASSUME NEW res \in Results, Result(res)
      PROVE  ThresholdsHold'
  <2>1. CASE StepUp(res)
    BY <2>1 DEF StepUp, FlipsUp, Transition, TypeOK
  <2>2. CASE StepDown(res)
    BY <2>2 DEF StepDown, FlipsDown, Transition, TypeOK
  <2>3. CASE StepError(res)
    BY <2>3 DEF StepError, Transition, TypeOK
  <2>4. QED
    BY <1>3, <2>1, <2>2, <2>3 DEF Result, Step
<1>4. QED
  BY <1>1, <1>2, <1>3 DEF Next

------------------------------------------------------------------------------
(* The statistics.  That the mean lies between the extremes is not           *)
(* inductive; that the sum lies between Count times each extreme is.         *)

StatsBounded(s) ==
  /\ s.Count = 0 => s = NoStats
  /\ s.Min <= s.Max
  /\ s.Count * s.Min <= s.Sum
  /\ s.Sum <= s.Count * s.Max

UpHasSample == status = "up" => stats.Count > 0

\* A product of naturals is a natural, and distributes over a successor.
LEMMA ProductNat ==
  ASSUME NEW n \in Nat, NEW a \in Nat
  PROVE  /\ n * a \in Nat
         /\ n * (a + 1) = n * a + n
         /\ (n + 1) * a = n * a + a
         /\ 0 * a = 0
OBVIOUS

\* A product of naturals grows with each of its factors.
LEMMA ProductMonotone ==
  ASSUME NEW n \in Nat, NEW a \in Nat, NEW b \in Nat, a <= b
  PROVE  n * a <= n * b
<1>1. PICK d \in Nat : b = a + d
  <2> WITNESS b - a \in Nat
  <2> QED OBVIOUS
<1>2. n * b = n * a + n * d
  BY <1>1
<1>3. n * d \in Nat
  OBVIOUS
<1>4. n * a \in Nat /\ n * b \in Nat
  OBVIOUS
<1>5. QED
  BY <1>2, <1>3, <1>4

\* One more sample keeps the bounds.
LEMMA AddBounded ==
  ASSUME NEW s \in StatsType, StatsBounded(s), NEW r \in Nat
  PROVE  StatsBounded(Add(s, r)) /\ Add(s, r).Count > 0
<1> DEFINE a == Add(s, r)
<1>1. /\ s.Count \in Nat /\ s.Min \in Nat /\ s.Max \in Nat /\ s.Sum \in Nat
  BY DEF StatsType
<1>2. /\ a.Count = s.Count + 1
      /\ a.Sum = s.Sum + r
      /\ a.Min \in Nat /\ a.Min <= r
      /\ a.Max \in Nat /\ r <= a.Max
      /\ s.Count # 0 => a.Min <= s.Min /\ s.Max <= a.Max
  BY <1>1 DEF Add
<1> HIDE DEF a
<1>3. s.Count * a.Min <= s.Sum /\ s.Sum <= s.Count * a.Max
  <2>1. CASE s.Count = 0
    <3>1. s.Sum = 0
      BY <2>1 DEF StatsBounded, NoStats
    <3>2. 0 * a.Min = 0 /\ 0 * a.Max = 0
      BY <1>2, ProductNat
    <3>3. QED
      BY <2>1, <3>1, <3>2
  <2>2. CASE s.Count # 0
    <3>1. s.Count * a.Min <= s.Count * s.Min
      BY <1>1, <1>2, <2>2, ProductMonotone
    <3>2. s.Count * s.Max <= s.Count * a.Max
      BY <1>1, <1>2, <2>2, ProductMonotone
    <3>3. /\ s.Count * s.Min \in Nat /\ s.Count * a.Min \in Nat
          /\ s.Count * s.Max \in Nat /\ s.Count * a.Max \in Nat
      BY <1>1, <1>2, ProductNat
    <3>4. s.Count * s.Min <= s.Sum /\ s.Sum <= s.Count * s.Max
      BY DEF StatsBounded
    <3>5. QED
      BY <1>1, <3>1, <3>2, <3>3, <3>4
  <2>3. QED
    BY <2>1, <2>2
<1>4. /\ a.Count * a.Min = s.Count * a.Min + a.Min
      /\ a.Count * a.Max = s.Count * a.Max + a.Max
  <2>1. /\ (s.Count + 1) * a.Min = s.Count * a.Min + a.Min
        /\ (s.Count + 1) * a.Max = s.Count * a.Max + a.Max
    BY <1>1, <1>2, ProductNat
  <2>2. a.Count = s.Count + 1
    BY <1>2
  <2>3. QED
    BY ONLY <2>1, <2>2, Zenon
<1>5. s.Count * a.Min \in Nat /\ s.Count * a.Max \in Nat
  BY <1>1, <1>2, ProductNat
<1>6. a.Count * a.Min <= a.Sum /\ a.Sum <= a.Count * a.Max
  BY <1>1, <1>2, <1>3, <1>4, <1>5
<1>7. a.Count > 0 /\ a.Min <= a.Max
  BY <1>1, <1>2
<1>8. QED
  BY <1>6, <1>7 DEF StatsBounded, a

\* Bounded statistics have their mean between their extremes.
LEMMA MeanBetween ==
  ASSUME NEW s \in StatsType, StatsBounded(s), s.Count > 0
  PROVE  s.Min <= Avg(s) /\ Avg(s) <= s.Max
<1>1. /\ s.Count \in Nat \ {0} /\ s.Min \in Nat /\ s.Max \in Nat /\ s.Sum \in Nat
  BY DEF StatsType
<1> DEFINE q == s.Sum \div s.Count
<1>2. q \in Nat /\ s.Count * q <= s.Sum /\ s.Sum < s.Count * (q + 1)
  BY <1>1
<1>3. Avg(s) = q
  BY <1>1 DEF Avg
<1> HIDE DEF q
<1>4. s.Min <= q
  <2>1. SUFFICES ASSUME q + 1 <= s.Min PROVE FALSE
    BY <1>1, <1>2
  <2>2. s.Count * (q + 1) <= s.Count * s.Min
    BY <1>1, <1>2, <2>1, ProductMonotone
  <2>3. s.Count * (q + 1) \in Nat /\ s.Count * s.Min \in Nat
    BY <1>1, <1>2, ProductNat
  <2>4. QED
    BY <1>1, <1>2, <2>2, <2>3 DEF StatsBounded
<1>5. q <= s.Max
  <2>1. SUFFICES ASSUME s.Max + 1 <= q PROVE FALSE
    BY <1>1, <1>2
  <2>2. s.Count * (s.Max + 1) <= s.Count * q
    BY <1>1, <1>2, <2>1, ProductMonotone
  <2>3. s.Count * (s.Max + 1) = s.Count * s.Max + s.Count
    BY <1>1, ProductNat
  <2>4. s.Count * s.Max \in Nat /\ s.Count * q \in Nat
    BY <1>1, <1>2, ProductNat
  <2>5. QED
    BY <1>1, <1>2, <2>2, <2>3, <2>4 DEF StatsBounded
<1>6. QED
  BY <1>3, <1>4, <1>5

\* The statistics are bounded initially, and every step keeps them so.
LEMMA InitStats == Init => StatsBounded(stats) /\ UpHasSample
BY DEF Init, StatsBounded, NoStats, UpHasSample

LEMMA NextStats ==
  ASSUME TypeOK, StatsBounded(stats), UpHasSample, [Next]_vars
  PROVE  StatsBounded(stats)' /\ UpHasSample'
<1>1. CASE UNCHANGED vars
  BY <1>1 DEF vars, engineVars, StatsBounded, UpHasSample
<1>2. CASE ClockTick
  BY <1>2 DEF ClockTick, engineVars, StatsBounded, UpHasSample
<1>3. ASSUME NEW res \in Results, Result(res)
      PROVE  StatsBounded(stats)' /\ UpHasSample'
  <2>1. StatsBounded(NoStats)
    BY DEF StatsBounded, NoStats
  <2>2. \A flips \in BOOLEAN :
           StatsBounded(Carried(flips)) /\ Carried(flips) \in StatsType
    BY <2>1, StatsClosed DEF Carried, TypeOK
  <2>3. CASE StepUp(res)
    <3>1. res.rtt \in Nat
      BY ResultShape
    <3>2. stats' = Add(Carried(FlipsUp), res.rtt)
      BY <2>3 DEF StepUp
    <3>3. FlipsUp \in BOOLEAN
      BY DEF FlipsUp
    <3>4. StatsBounded(stats') /\ stats'.Count > 0
      BY <2>2, <3>1, <3>2, <3>3, AddBounded
    <3>5. QED
      BY <3>4 DEF StatsBounded, UpHasSample
  <2>4. CASE StepDown(res)
    BY <2>1, <2>4 DEF StepDown, Carried, Transition, StatsBounded, UpHasSample
  <2>5. CASE StepError(res)
    BY <2>1, <2>5 DEF StepError, Carried, Transition, StatsBounded, UpHasSample
  <2>6. QED
    BY <1>3, <2>3, <2>4, <2>5 DEF Result, Step
<1>4. QED
  BY <1>1, <1>2, <1>3 DEF Next

\* The bounds imply what the display relies on.
LEMMA BoundedMeaningful ==
  ASSUME TypeOK, StatsBounded(stats), UpHasSample
  PROVE  StatsMeaningful
BY MeanBetween DEF TypeOK, StatsBounded, UpHasSample, StatsMeaningful

------------------------------------------------------------------------------
(* The specification of the engine alone. *)

EngineInv == TypeOK /\ ThresholdsHold /\ StatsBounded(stats) /\ UpHasSample

LEMMA EngineInductive == Spec => []EngineInv
<1>1. Init => EngineInv
  BY InitType, InitThresholds, InitStats DEF EngineInv
<1>2. EngineInv /\ [Next]_vars => EngineInv'
  BY NextType, NextThresholds, NextStats DEF EngineInv
<1>3. QED
  BY <1>1, <1>2, PTL DEF Spec

\* The history variables only watch: every behaviour with them is one of the
\* engine.
LEMMA HistoryWatches == HSpec => Spec
<1>1. HInit => Init
  BY DEF HInit
<1>2. [HNext]_hVars => [Next]_vars
  BY DEF HNext, HClockTick, HResult, Next, hVars
<1>3. QED
  BY <1>1, <1>2, PTL DEF HSpec, Spec

\* Whatever results arrive, the engine's state, event and statistics keep
\* their types.
THEOREM TypeCorrect == HSpec => []TypeOK
<1>1. EngineInv => TypeOK
  BY DEF EngineInv
<1>2. QED
  BY <1>1, EngineInductive, HistoryWatches, PTL

\* The two run counters exclude each other, and no status survives a run long
\* enough to flip it: state.go flips on the very result that completes a run.
THEOREM HysteresisCorrect == HSpec => []ThresholdsHold
<1>1. EngineInv => ThresholdsHold
  BY DEF EngineInv
<1>2. QED
  BY <1>1, EngineInductive, HistoryWatches, PTL

\* A host shown up has a sample, and the mean printed lies between the
\* minimum and the maximum printed beside it.
THEOREM StatsCorrect == HSpec => []StatsMeaningful
<1>1. EngineInv => StatsMeaningful
  BY BoundedMeaningful DEF EngineInv
<1>2. QED
  BY <1>1, EngineInductive, HistoryWatches, PTL

------------------------------------------------------------------------------
(***************************************************************************)
(* Events and statistics account for every result, whatever its outcome and*)
(* its time.                                                               *)
(***************************************************************************)

HTypeOK ==
  /\ results \in Seq(Results)
  /\ first \in Nat
  /\ since \in 1..(Len(results) + 1)
  /\ closed \in [Count : Nat, Sum : Nat, duration : Nat]

------------------------------------------------------------------------------
(* What every result does, whatever its outcome: the form the history       *)
(* invariants are proved from.                                              *)

Effect(res, flips) ==
  /\ flips \in BOOLEAN
  /\ flips <=> status' # status
  /\ Ends(ev') <=> flips
  /\ ev'.status = status'
  /\ ev'.duration = IF flips THEN now - Anchor ELSE 0
  /\ ev'.prevStats = IF flips THEN stats ELSE NoStats
  /\ start' = IF flips THEN now ELSE Anchor
  /\ now' = now
  /\ totalProbes' = totalProbes + 1
  /\ stats' = IF res.outcome = "up" THEN Add(Carried(flips), res.rtt)
                                    ELSE Carried(flips)
  /\ totalOK' = IF res.outcome = "up" THEN totalOK + 1 ELSE totalOK

LEMMA ResultEffect ==
  ASSUME NEW res \in Results, Result(res)
  PROVE  \E flips \in BOOLEAN : Effect(res, flips)
<1> USE DEF Effect, Emit, Transition, Ends
<1>1. CASE StepUp(res)
  <2>1. Effect(res, FlipsUp)
    BY <1>1 DEF Result, StepUp, FlipsUp
  <2>2. QED
    BY <2>1
<1>2. CASE StepDown(res)
  <2>1. Effect(res, FlipsDown)
    BY <1>2 DEF Result, StepDown, FlipsDown
  <2>2. QED
    BY <2>1
<1>3. CASE StepError(res)
  <2>1. Effect(res, FlipsError)
    BY <1>3 DEF Result, StepError, FlipsError
  <2>2. QED
    BY <2>1
<1>4. QED
  BY <1>1, <1>2, <1>3 DEF Result, Step

\* A status ends exactly when an event says so.
THEOREM OneEventCorrect == HSpec => OneEventPerPeriod
<1>1. ASSUME [HNext]_hVars, results' # results
      PROVE  (Ends(ev') <=> status' # status) /\ ev'.status = status'
  <2>1. PICK res \in Results : HResult(res)
    BY <1>1 DEF HNext, HClockTick, hVars, histVars
  <2>2. QED
    BY <2>1, ResultEffect DEF HResult, Effect
<1>2. QED
  BY <1>1, PTL DEF HSpec, OneEventPerPeriod

------------------------------------------------------------------------------
(* Samples of a sequence that grows by one result. *)

LEMMA SamplesAppend ==
  ASSUME NEW rs \in Seq(Results), NEW res \in Results,
         NEW from \in 1..(Len(rs) + 1)
  PROVE  /\ Samples(Append(rs, res), from) =
              Samples(rs, from)
                \cup (IF res.outcome = "up" THEN {Len(rs) + 1} ELSE {})
         /\ Len(rs) + 1 \notin Samples(rs, from)
         /\ Samples(rs, Len(rs) + 1) = {}
         /\ IsFiniteSet(Samples(rs, from))
<1> DEFINE n == Len(rs)
           as == Append(rs, res)
<1>1. n \in Nat /\ Len(as) = n + 1
  BY AppendProperties
<1>2. as[n + 1] = res /\ \A i \in 1..n : as[i] = rs[i]
  BY AppendProperties
<1>3. from..(n + 1) = (from..n) \cup {n + 1}
  BY <1>1
<1>4. from..n \subseteq 1..n
  BY <1>1
<1>5. \A i : i \in from..n => as[i] = rs[i]
  BY <1>2, <1>4
<1>6. Samples(as, from) =
        Samples(rs, from) \cup (IF res.outcome = "up" THEN {n + 1} ELSE {})
  BY <1>1, <1>2, <1>3, <1>5 DEF Samples
<1>7. IsFiniteSet(from..n)
  BY <1>1, FS_Interval
<1>8. IsFiniteSet(Samples(rs, from))
  BY <1>7, FS_Subset DEF Samples
<1>9. n + 1 \notin from..n /\ (n + 1)..n = {}
  BY <1>1
<1>10. QED
  BY <1>6, <1>8, <1>9 DEF Samples

\* One result, stepped without a flip, keeps the statistics true of the period.
LEMMA DescribeAppend ==
  ASSUME NEW rs \in Seq(Results), NEW res \in Results,
         NEW from \in 1..(Len(rs) + 1), NEW s \in StatsType,
         StatsDescribe(s, rs, from)
  PROVE  StatsDescribe(IF res.outcome = "up" THEN Add(s, res.rtt) ELSE s,
                       Append(rs, res), from)
<1> DEFINE P == Samples(rs, from)
           Q == Samples(Append(rs, res), from)
           n == Len(rs) + 1
           as == Append(rs, res)
           a == Add(s, res.rtt)
<1>1. /\ Q = P \cup (IF res.outcome = "up" THEN {n} ELSE {})
      /\ \A i \in P : as[i] = rs[i]
      /\ as[n] = res
      /\ n \notin P
      /\ IsFiniteSet(P)
  <2>1. Q = P \cup (IF res.outcome = "up" THEN {n} ELSE {})
    BY SamplesAppend
  <2>2. \A i \in P : as[i] = rs[i]
    BY AppendProperties DEF Samples
  <2>3. as[n] = res
    BY AppendProperties
  <2>4. n \notin P /\ IsFiniteSet(P)
    BY SamplesAppend
  <2>5. QED
    BY <2>1, <2>2, <2>3, <2>4
<1>2. /\ s.Count = Cardinality(P)
      /\ \A i \in P : s.Min <= rs[i].rtt /\ rs[i].rtt <= s.Max
      /\ P # {} => \E i, j \in P : rs[i].rtt = s.Min /\ rs[j].rtt = s.Max
  BY DEF StatsDescribe
<1>3. /\ s.Count \in Nat /\ s.Min \in Nat /\ s.Max \in Nat
      /\ res.rtt \in Nat
  BY ResultShape DEF StatsType
<1>4. \A i \in P : rs[i].rtt \in Nat
  <2>1. \A i \in P : rs[i] \in Results
    BY DEF Samples
  <2>2. QED
    BY <2>1, ResultShape
<1> HIDE DEF P, Q, n, as
<1>5. CASE res.outcome # "up"
  <2>1. Q = P
    BY <1>1, <1>5
  <2>2. /\ s.Count = Cardinality(Q)
        /\ \A i \in Q : s.Min <= as[i].rtt /\ as[i].rtt <= s.Max
        /\ Q # {} => \E i, j \in Q : as[i].rtt = s.Min /\ as[j].rtt = s.Max
    BY <1>1, <1>2, <2>1
  <2>3. QED
    BY <1>5, <2>2 DEF StatsDescribe, Q, as
<1>6. CASE res.outcome = "up"
  <2>1. Q = P \cup {n}
    BY <1>1, <1>6
  <2>2. a.Count = Cardinality(Q)
    BY <1>1, <1>2, <2>1, FS_AddElement DEF Add
  <2>3. s.Count = 0 <=> P = {}
    BY <1>1, <1>2, FS_EmptySet
  <2>4. /\ a.Min = IF P = {} \/ res.rtt < s.Min THEN res.rtt ELSE s.Min
        /\ a.Max = IF P = {} \/ res.rtt > s.Max THEN res.rtt ELSE s.Max
    BY <2>3 DEF Add
  <2> HIDE DEF a
  <2>5. \A i \in Q : a.Min <= as[i].rtt /\ as[i].rtt <= a.Max
    <3>1. a.Min \in Nat /\ a.Max \in Nat /\ a.Min <= res.rtt /\ res.rtt <= a.Max
      BY <1>3, <2>4
    <3>2. ASSUME NEW i \in P
          PROVE  a.Min <= rs[i].rtt /\ rs[i].rtt <= a.Max
      BY <1>2, <1>3, <1>4, <2>4, <3>2
    <3>3. QED
      BY <1>1, <2>1, <3>1, <3>2
  <2>6. \E i \in Q : as[i].rtt = a.Min
    BY <1>1, <1>2, <2>1, <2>4
  <2>7. \E j \in Q : as[j].rtt = a.Max
    BY <1>1, <1>2, <2>1, <2>4
  <2>8. QED
    BY <1>6, <2>2, <2>5, <2>6, <2>7 DEF StatsDescribe, Q, as, a
<1>7. QED
  BY <1>5, <1>6

\* No samples at all describe a period that has none.
LEMMA DescribeEmpty ==
  ASSUME NEW rs \in Seq(Results)
  PROVE  StatsDescribe(NoStats, rs, Len(rs) + 1)
<1>1. Len(rs) \in Nat
  OBVIOUS
<1>2. Samples(rs, Len(rs) + 1) = {}
  BY <1>1 DEF Samples
<1>3. QED
  BY <1>2, FS_EmptySet DEF StatsDescribe, NoStats

------------------------------------------------------------------------------
(* The inductive invariant of the engine with its history. *)

\* The closed periods and the running one start where the run started; before
\* the first result nothing is closed.
TimePartition ==
  /\ first <= now
  /\ totalProbes > 0 => closed.duration = start - first
  /\ totalProbes = 0 => closed.duration = 0

HistoryInv ==
  HTypeOK /\ TimePartition /\ SamplesConserved /\ StatsDescribePeriod

\* Nothing has happened initially.
LEMMA InitHistory == HInit => HistoryInv
<1> SUFFICES ASSUME HInit PROVE HistoryInv
  OBVIOUS
<1> USE DEF HInit, Init
<1>1. HTypeOK
  BY DEF HTypeOK
<1>2. TimePartition
  BY DEF TimePartition
<1>3. StatsDescribe(NoStats, <<>>, 1)
  <2>1. Len(<<>>) + 1 = 1 /\ <<>> \in Seq(Results)
    OBVIOUS
  <2>2. StatsDescribe(NoStats, <<>>, Len(<<>>) + 1)
    BY <2>1, DescribeEmpty
  <2>3. QED
    BY ONLY <2>1, <2>2, Zenon
<1>4. Samples(results, 1) = {}
  BY DEF Samples
<1>5. SamplesConserved
  BY <1>4, FS_EmptySet DEF SamplesConserved, NoStats
<1>6. QED
  BY <1>1, <1>2, <1>3, <1>5 DEF HistoryInv, StatsDescribePeriod

\* One result keeps the accounts straight.
LEMMA ResultHistory ==
  ASSUME TypeOK, HistoryInv, NEW res \in Results, HResult(res)
  PROVE  HistoryInv'
<1>1. PICK flips \in BOOLEAN : Effect(res, flips)
  BY ResultEffect DEF HResult
<1>2. /\ results \in Seq(Results)
      /\ results' = Append(results, res)
      /\ results' \in Seq(Results)
      /\ Len(results') = Len(results) + 1
      /\ Len(results) \in Nat
      /\ since \in 1..(Len(results) + 1)
  BY AppendProperties DEF HResult, HistoryInv, HTypeOK
<1>3. since' = IF flips THEN Len(results) + 1 ELSE since
  BY <1>1, <1>2 DEF HResult, Effect
<1>4. /\ closed'.Count = closed.Count + ev'.prevStats.Count
      /\ closed'.Sum = closed.Sum + ev'.prevStats.Sum
      /\ closed'.duration = closed.duration + ev'.duration
      /\ closed' \in [Count : {closed.Count + ev'.prevStats.Count},
                      Sum : {closed.Sum + ev'.prevStats.Sum},
                      duration : {closed.duration + ev'.duration}]
  BY DEF HResult
<1>5. /\ closed.Count \in Nat /\ closed.Sum \in Nat /\ closed.duration \in Nat
      /\ stats \in StatsType /\ NoStats \in StatsType
      /\ now \in Nat /\ start \in 0..now /\ first \in Nat /\ totalProbes \in Nat
      /\ totalOK \in Nat /\ res.rtt \in Nat
  BY StatsClosed, ResultShape, EngineAssumption DEF TypeOK, HistoryInv, HTypeOK
<1>6. ev'.prevStats.Count \in Nat /\ ev'.prevStats.Sum \in Nat /\ ev'.duration \in Nat
  BY <1>1, <1>5 DEF Effect, StatsType, Anchor
<1>7. HTypeOK'
  <2>1. first' \in Nat
    BY <1>5 DEF HResult
  <2>2. since' \in 1..(Len(results') + 1)
    BY <1>2, <1>3
  <2>3. closed' \in [Count : Nat, Sum : Nat, duration : Nat]
    BY <1>4, <1>5, <1>6
  <2>4. QED
    BY <1>2, <2>1, <2>2, <2>3 DEF HTypeOK
<1>8. TimePartition'
  <2>1. first' = IF totalProbes = 0 THEN now ELSE first
    BY DEF HResult
  <2>2. QED
    BY <1>1, <1>4, <1>5, <2>1 DEF HistoryInv, TimePartition, Effect, Anchor
<1>9. SamplesConserved'
  <2>1. /\ Samples(results', 1) =
             Samples(results, 1)
               \cup (IF res.outcome = "up" THEN {Len(results) + 1} ELSE {})
        /\ Len(results) + 1 \notin Samples(results, 1)
        /\ IsFiniteSet(Samples(results, 1))
    BY <1>2, SamplesAppend
  <2>2. Cardinality(Samples(results', 1)) =
          IF res.outcome = "up" THEN Cardinality(Samples(results, 1)) + 1
                                ELSE Cardinality(Samples(results, 1))
    BY <2>1, FS_AddElement
  <2>3. totalOK' = Cardinality(Samples(results', 1))
    BY <1>1, <2>2 DEF Effect, HistoryInv, SamplesConserved
  <2>4. closed'.Count + stats'.Count = totalOK'
    <3>1. /\ stats.Count \in Nat
          /\ NoStats.Count = 0
          /\ \A s \in StatsType : Add(s, res.rtt).Count = s.Count + 1
      BY <1>5 DEF StatsType, NoStats, Add
    <3>2. closed.Count + stats.Count = totalOK
      BY DEF HistoryInv, SamplesConserved
    <3>3. CASE flips
      BY <1>1, <1>4, <1>5, <3>1, <3>2, <3>3 DEF Effect, Carried
    <3>4. CASE ~flips
      BY <1>1, <1>4, <1>5, <3>1, <3>2, <3>4 DEF Effect, Carried
    <3>5. QED
      BY <3>3, <3>4
  <2>5. QED
    BY <2>3, <2>4 DEF SamplesConserved
<1>10. StatsDescribePeriod'
  <2>1. CASE flips
    <3>1. StatsDescribe(NoStats, results, Len(results) + 1)
      BY <1>2, DescribeEmpty
    <3>2. StatsDescribe(IF res.outcome = "up" THEN Add(NoStats, res.rtt) ELSE NoStats,
                        Append(results, res), Len(results) + 1)
      BY <1>2, <1>5, <3>1, DescribeAppend
    <3>3. QED
      BY <1>1, <1>2, <1>3, <2>1, <3>2 DEF Effect, Carried, StatsDescribePeriod
  <2>2. CASE ~flips
    <3>1. StatsDescribe(IF res.outcome = "up" THEN Add(stats, res.rtt) ELSE stats,
                        Append(results, res), since)
      BY <1>2, <1>5, DescribeAppend DEF HistoryInv, StatsDescribePeriod
    <3>2. QED
      BY <1>1, <1>2, <1>3, <2>2, <3>1 DEF Effect, Carried, StatsDescribePeriod
  <2>3. QED
    BY <2>1, <2>2
<1>11. QED
  BY <1>7, <1>8, <1>9, <1>10 DEF HistoryInv

\* So does the clock.
LEMMA NextHistory ==
  ASSUME TypeOK, HistoryInv, [HNext]_hVars
  PROVE  HistoryInv'
<1> USE DEF HistoryInv, HTypeOK, TimePartition, SamplesConserved,
            StatsDescribePeriod, histVars
<1>1. CASE UNCHANGED hVars
  BY <1>1 DEF hVars, vars, engineVars, counters
<1>2. CASE HClockTick
  <2>1. UNCHANGED <<results, first, since, closed, start, stats, totalProbes, totalOK>>
    BY <1>2 DEF HClockTick, ClockTick, engineVars, counters
  <2>2. now' = now + 1 /\ now \in Nat
    BY <1>2, EngineAssumption DEF HClockTick, ClockTick, TypeOK
  <2>3. QED
    BY <2>1, <2>2
<1>3. ASSUME NEW res \in Results, HResult(res)
      PROVE  HistoryInv'
  BY <1>3, ResultHistory
<1>4. QED
  BY <1>1, <1>2, <1>3 DEF HNext

LEMMA HistoryInductive == HSpec => []HistoryInv
<1>1. TypeOK /\ HistoryInv /\ [HNext]_hVars => HistoryInv'
  BY NextHistory
<1>2. QED
  BY <1>1, InitHistory, TypeCorrect, PTL DEF HSpec

\* Every successful probe is in exactly one period's statistics.
THEOREM SamplesConservedCorrect == HSpec => []SamplesConserved
<1>1. HistoryInv => SamplesConserved
  BY DEF HistoryInv
<1>2. QED
  BY <1>1, HistoryInductive, PTL

\* The durations told of the ended statuses and the age of the running one
\* add up to the time since the first probe.
THEOREM PeriodsPartitionCorrect == HSpec => []PeriodsPartitionRun
<1>1. TypeOK /\ HistoryInv => PeriodsPartitionRun
  BY EngineAssumption
     DEF TypeOK, HistoryInv, HTypeOK, TimePartition, PeriodsPartitionRun
<1>2. QED
  BY <1>1, HistoryInductive, TypeCorrect, PTL

\* The statistics of the current status are those of its own successes, the
\* one that began it included.
THEOREM StatsDescribeCorrect == HSpec => []StatsDescribePeriod
<1>1. HistoryInv => StatsDescribePeriod
  BY DEF HistoryInv
<1>2. QED
  BY <1>1, HistoryInductive, PTL

------------------------------------------------------------------------------
(***************************************************************************)
(* The two counters and the status implement the verdict over the history. *)
(***************************************************************************)

Hist == [i \in 1..Len(results) |-> Outcome(i)]

\* The abstract definitions of a run and of a verdict, by their own names.
Members(h, i, x) == Abstract!RunMembers(h, i, x)
Run(h, i, x)     == Abstract!Run(h, i, x)
Decides(h, i)    == Abstract!Decides(h, i)
Verdict(h, s)    == Abstract!Verdict(h, s)

Answers == {"up", "down"}

------------------------------------------------------------------------------
(* A history that grows by one outcome. *)

\* What Append does to a history.
LEMMA Grown ==
  ASSUME NEW h \in Seq(Outcomes), NEW o \in Outcomes
  PROVE  /\ Append(h, o) \in Seq(Outcomes)
         /\ Len(h) \in Nat
         /\ Len(Append(h, o)) = Len(h) + 1
         /\ Append(h, o)[Len(h) + 1] = o
         /\ \A i \in 1..Len(h) : Append(h, o)[i] = h[i]
BY AppendProperties

\* A run that ends before the new outcome does not see it.
LEMMA MembersPrefix ==
  ASSUME NEW h \in Seq(Outcomes), NEW o \in Outcomes, NEW x \in Answers,
         NEW i \in 0..Len(h)
  PROVE  Members(Append(h, o), i, x) = Members(h, i, x)
<1> DEFINE g == Append(h, o)
<1>1. Len(h) \in Nat /\ \A k \in 1..Len(h) : g[k] = h[k]
  BY Grown
<1> HIDE DEF g
<1>2. \A k \in 1..i : k \in 1..Len(h) /\ \A j \in k..i : j \in 1..Len(h)
  BY <1>1
<1>3. \A k \in 1..i : g[k] = h[k] /\ \A j \in k..i : g[j] = h[j]
  BY <1>1, <1>2
<1>4. QED
  BY <1>3 DEF Members, Abstract!RunMembers, g

\* The new outcome extends its own run, ends the opposite one, and leaves
\* both alone when it is an error.
LEMMA MembersLast ==
  ASSUME NEW h \in Seq(Outcomes), NEW o \in Outcomes, NEW x \in Answers
  PROVE  Members(Append(h, o), Len(h) + 1, x) =
           IF o = x THEN Members(h, Len(h), x) \cup {Len(h) + 1}
           ELSE IF o = "error" THEN Members(h, Len(h), x)
           ELSE {}
<1> DEFINE g == Append(h, o)
           n == Len(h)
           opp == Abstract!Opposite(x)
<1>1. n \in Nat /\ g[n + 1] = o /\ \A k \in 1..n : g[k] = h[k]
  BY Grown
<1>2. opp # x /\ opp # "error" /\ x # "error" /\ (o = x \/ o = opp \/ o = "error")
  BY DEF Answers, Outcomes, Abstract!Opposite
<1> HIDE DEF g, n, opp
<1>3. ASSUME NEW k \in 1..(n + 1)
      PROVE  k \in Members(g, n + 1, x) <=>
               (k = n + 1 \/ k \in Members(h, n, x)) /\ g[k] = x /\ o # opp
  <2>1. k \in Members(g, n + 1, x) <=>
          g[k] = x /\ \A j \in k..(n + 1) : g[j] # opp
    BY DEF Members, Abstract!RunMembers, opp
  <2>2. CASE k = n + 1
    <3>1. k..(n + 1) = {n + 1}
      BY <1>1, <2>2
    <3>2. QED
      BY <1>1, <2>1, <2>2, <3>1
  <2>3. CASE k \in 1..n
    <3>1. k..(n + 1) = (k..n) \cup {n + 1} /\ k..n \subseteq 1..n
      BY <1>1, <2>3
    <3>2. k \in Members(h, n, x) <=> h[k] = x /\ \A j \in k..n : h[j] # opp
      BY <2>3 DEF Members, Abstract!RunMembers, opp
    <3>3. \A j \in k..n : g[j] = h[j]
      BY <1>1, <3>1
    <3>4. g[k] = h[k] /\ k # n + 1
      BY <1>1, <2>3
    <3>5. QED
      BY <1>1, <2>1, <3>1, <3>2, <3>3, <3>4
  <2>4. QED
    BY <1>1, <2>2, <2>3
<1>4. /\ Members(g, n + 1, x) \subseteq 1..(n + 1)
      /\ Members(h, n, x) \subseteq 1..n
      /\ \A k \in Members(h, n, x) : h[k] = x
  BY DEF Members, Abstract!RunMembers
<1>5. /\ 1..n \subseteq 1..(n + 1)
      /\ n + 1 \in 1..(n + 1)
      /\ \A k \in Members(h, n, x) : g[k] = x /\ k \in 1..(n + 1)
  BY <1>1, <1>4
<1>6. CASE o = x
  <2>1. \A k : k \in Members(g, n + 1, x) <=> k \in Members(h, n, x) \cup {n + 1}
    BY <1>1, <1>2, <1>3, <1>4, <1>5, <1>6
  <2>2. QED
    BY <1>6, <2>1 DEF g, n
<1>7. CASE o = "error"
  <2>1. \A k : k \in Members(g, n + 1, x) <=> k \in Members(h, n, x)
    BY <1>1, <1>2, <1>3, <1>4, <1>5, <1>7
  <2>2. QED
    BY <1>2, <1>7, <2>1 DEF g, n
<1>8. CASE o = opp
  <2>1. Members(g, n + 1, x) = {}
    BY <1>3, <1>4, <1>8
  <2>2. QED
    BY <1>2, <1>8, <2>1 DEF g, n
<1>9. QED
  BY <1>2, <1>6, <1>7, <1>8

\* Runs are finite, so they are counted.
LEMMA MembersFinite ==
  ASSUME NEW h \in Seq(Outcomes), NEW x \in Answers
  PROVE  /\ IsFiniteSet(Members(h, Len(h), x))
         /\ Len(h) + 1 \notin Members(h, Len(h), x)
<1>1. Len(h) \in Nat
  OBVIOUS
<1>2. IsFiniteSet(1..Len(h))
  BY <1>1, FS_Interval
<1>3. Members(h, Len(h), x) \in SUBSET (1..Len(h))
  BY DEF Members, Abstract!RunMembers
<1>4. IsFiniteSet(Members(h, Len(h), x))
  BY <1>2, <1>3, FS_Subset
<1>5. QED
  BY <1>1, <1>3, <1>4

\* The length of a run is what the engine's counter for it does.
LEMMA RunLast ==
  ASSUME NEW h \in Seq(Outcomes), NEW o \in Outcomes, NEW x \in Answers
  PROVE  Run(Append(h, o), Len(h) + 1, x) =
           IF o = x THEN Run(h, Len(h), x) + 1
           ELSE IF o = "error" THEN Run(h, Len(h), x)
           ELSE 0
<1>1. Cardinality(Members(h, Len(h), x) \cup {Len(h) + 1}) =
        Cardinality(Members(h, Len(h), x)) + 1
  BY MembersFinite, FS_AddElement
<1>2. Cardinality({}) = 0
  BY FS_EmptySet
<1>3. /\ Run(h, Len(h), x) = Cardinality(Members(h, Len(h), x))
      /\ Run(Append(h, o), Len(h) + 1, x) =
           Cardinality(Members(Append(h, o), Len(h) + 1, x))
  <2>1. \A a, b, c : Abstract!Run(a, b, c) = Cardinality(Abstract!RunMembers(a, b, c))
    BY Zenon DEF Abstract!Run, Abstract!Cardinality, Cardinality
  <2>2. QED
    BY ONLY <2>1 DEF Run, Members
<1>4. Members(Append(h, o), Len(h) + 1, x) =
        IF o = x THEN Members(h, Len(h), x) \cup {Len(h) + 1}
        ELSE IF o = "error" THEN Members(h, Len(h), x)
        ELSE {}
  BY MembersLast
<1>5. QED
  BY ONLY <1>1, <1>2, <1>3, <1>4

\* A probe decides by the runs that end at it, whatever comes later.
LEMMA DecidesPrefix ==
  ASSUME NEW h \in Seq(Outcomes), NEW o \in Outcomes, NEW i \in 1..Len(h)
  PROVE  Decides(Append(h, o), i) <=> Decides(h, i)
<1>1. Append(h, o)[i] = h[i] /\ i \in 0..Len(h)
  BY Grown
<1>2. \A x \in Answers : Members(Append(h, o), i, x) = Members(h, i, x)
  BY <1>1, MembersPrefix
<1>3. \A x \in Answers : Abstract!Run(Append(h, o), i, x) = Abstract!Run(h, i, x)
  BY <1>2 DEF Members, Abstract!Run
<1>4. QED
  BY <1>1, <1>3 DEF Decides, Abstract!Decides, Answers

\* The new outcome is the status if it decides, else the status stays.
LEMMA VerdictLast ==
  ASSUME NEW h \in Seq(Outcomes), NEW o \in Outcomes, NEW s, Verdict(h, s)
  PROVE  Verdict(Append(h, o),
                 IF Decides(Append(h, o), Len(h) + 1) THEN o ELSE s)
<1> DEFINE g == Append(h, o)
           n == Len(h)
<1>1. /\ n \in Nat /\ Len(g) = n + 1 /\ g[n + 1] = o
      /\ \A i \in 1..n : g[i] = h[i]
  BY Grown
<1>2. \A i \in 1..n : Decides(g, i) <=> Decides(h, i)
  BY DecidesPrefix
<1>3. /\ \A t : Verdict(h, t) <=>
            \/ t = "unknown" /\ \A i \in 1..n : ~Decides(h, i)
            \/ \E i \in 1..n : /\ Decides(h, i)
                               /\ t = h[i]
                               /\ \A j \in (i+1)..n : ~Decides(h, j)
      /\ \A t : Verdict(g, t) <=>
            \/ t = "unknown" /\ \A i \in 1..Len(g) : ~Decides(g, i)
            \/ \E i \in 1..Len(g) : /\ Decides(g, i)
                                    /\ t = g[i]
                                    /\ \A j \in (i+1)..Len(g) : ~Decides(g, j)
  BY DEF Verdict, Decides, Abstract!Verdict
<1> HIDE DEF g, n
<1>4. CASE Decides(g, n + 1)
  <2>1. (n + 1 + 1)..(n + 1) = {} /\ n + 1 \in 1..(n + 1)
    BY <1>1
  <2>2. Verdict(g, o)
    BY <1>1, <1>3, <1>4, <2>1
  <2>3. QED
    BY <1>4, <2>2 DEF g, n
<1>5. CASE ~Decides(g, n + 1)
  <2>1. \A i \in 1..(n + 1) : i \in 1..n \/ i = n + 1
    BY <1>1
  <2>2. CASE s = "unknown" /\ \A i \in 1..n : ~Decides(h, i)
    <3>1. \A i \in 1..(n + 1) : ~Decides(g, i)
      BY <1>2, <1>5, <2>1, <2>2
    <3>2. Verdict(g, s)
      BY <1>1, <1>3, <2>2, <3>1
    <3>3. QED
      BY <1>5, <3>2 DEF g, n
  <2>3. CASE \E i \in 1..n : /\ Decides(h, i)
                             /\ s = h[i]
                             /\ \A j \in (i+1)..n : ~Decides(h, j)
    <3>1. PICK i \in 1..n : /\ Decides(h, i)
                            /\ s = h[i]
                            /\ \A j \in (i+1)..n : ~Decides(h, j)
      BY <2>3
    <3>2. /\ i \in 1..(n + 1)
          /\ \A j \in (i+1)..(n + 1) : (j \in 1..n /\ j \in (i+1)..n) \/ j = n + 1
      BY <1>1
    <3>3. \A j \in (i+1)..(n + 1) : ~Decides(g, j)
      BY <1>2, <1>5, <3>1, <3>2
    <3>4. Decides(g, i) /\ s = g[i]
      BY <1>1, <1>2, <3>1
    <3>5. Verdict(g, s)
      BY <1>1, <1>3, <3>2, <3>3, <3>4
    <3>6. QED
      BY <1>5, <3>5 DEF g, n
  <2>4. QED
    BY <1>3, <2>2, <2>3 DEF g, n
<1>6. QED
  BY <1>4, <1>5

------------------------------------------------------------------------------
(* The refinement. *)

\* The counters are the runs, and the status is the verdict.
Refines ==
  /\ fails = Run(Hist, Len(Hist), "down")
  /\ successes = Run(Hist, Len(Hist), "up")
  /\ Verdict(Hist, status)

\* The history of outcomes grows by the outcome of the result.
LEMMA HistGrows ==
  ASSUME HTypeOK, NEW res \in Results, HResult(res)
  PROVE  Hist \in Seq(Outcomes) /\ Hist' = Append(Hist, res.outcome)
<1>1. /\ results \in Seq(Results) /\ Len(results) \in Nat
      /\ results' = Append(results, res)
      /\ Len(results') = Len(results) + 1
      /\ results'[Len(results) + 1] = res
      /\ \A i \in 1..Len(results) : results'[i] = results[i]
  BY AppendProperties DEF HTypeOK, HResult
<1>2. \A i \in 1..Len(results) : results[i].outcome \in Outcomes
  BY <1>1, ResultShape
<1>3. Hist \in Seq(Outcomes) /\ Len(Hist) = Len(results)
  BY <1>1, <1>2 DEF Hist, Outcome
<1>4. Hist' = [i \in 1..(Len(results) + 1) |-> results'[i].outcome]
  BY <1>1 DEF Hist, Outcome
<1>5. Append(Hist, res.outcome) =
        [i \in 1..(Len(results) + 1) |->
           IF i = Len(results) + 1 THEN res.outcome ELSE Hist[i]]
  BY <1>1, <1>3, ResultShape
<1>6. ASSUME NEW i \in 1..(Len(results) + 1)
      PROVE  results'[i].outcome =
               IF i = Len(results) + 1 THEN res.outcome ELSE Hist[i]
  BY <1>1 DEF Hist, Outcome
<1>7. QED
  BY <1>3, <1>4, <1>5, <1>6

\* What the engine does to the status is what the history says.
LEMMA EngineDecides ==
  ASSUME TypeOK, ThresholdsHold, NEW res \in Results, HResult(res)
  PROVE  /\ fails' = IF res.outcome = "down" THEN fails + 1
                     ELSE IF res.outcome = "error" THEN fails
                     ELSE 0
         /\ successes' = IF res.outcome = "up" THEN successes + 1
                         ELSE IF res.outcome = "error" THEN successes
                         ELSE 0
         /\ status' = IF \/ res.outcome = "error"
                         \/ res.outcome = "up" /\ successes' >= UpAfter
                         \/ res.outcome = "down" /\ fails' >= DownAfter
                      THEN res.outcome ELSE status
<1> USE EngineAssumption DEF TypeOK, Transition, FlipsUp, FlipsDown, FlipsError
<1>1. CASE StepUp(res)
  BY <1>1 DEF StepUp
<1>2. CASE StepDown(res)
  BY <1>2 DEF StepDown
<1>3. CASE StepError(res)
  BY <1>3 DEF StepError
<1>4. QED
  BY <1>1, <1>2, <1>3 DEF HResult, Result, Step

\* One result keeps the counters equal to the runs and the status equal to
\* the verdict.
LEMMA ResultRefines ==
  ASSUME TypeOK, ThresholdsHold, HTypeOK, Refines, NEW res \in Results, HResult(res)
  PROVE  Refines'
<1> DEFINE h == Hist
           o == res.outcome
           g == Append(h, o)
           n == Len(h)
<1>1. h \in Seq(Outcomes) /\ o \in Outcomes /\ Hist' = g
  BY HistGrows, ResultShape
<1>2. Len(g) = n + 1 /\ g[n + 1] = o
  BY <1>1, Grown
<1>3. /\ Run(g, n + 1, "down") =
           IF o = "down" THEN Run(h, n, "down") + 1
           ELSE IF o = "error" THEN Run(h, n, "down") ELSE 0
      /\ Run(g, n + 1, "up") =
           IF o = "up" THEN Run(h, n, "up") + 1
           ELSE IF o = "error" THEN Run(h, n, "up") ELSE 0
  BY <1>1, RunLast DEF Answers
<1>4. fails' = Run(g, n + 1, "down") /\ successes' = Run(g, n + 1, "up")
  BY <1>3, EngineDecides DEF Refines
<1>5. Decides(g, n + 1) <=>
        \/ o = "error"
        \/ o = "up" /\ successes' >= UpAfter
        \/ o = "down" /\ fails' >= DownAfter
  BY <1>2, <1>4 DEF Decides, Run, Abstract!Decides
<1>6. status' = IF Decides(g, n + 1) THEN o ELSE status
  BY <1>5, EngineDecides
<1>7. Verdict(h, status)
  BY DEF Refines
<1>8. Verdict(g, status')
  <2>1. Verdict(g, IF Decides(g, n + 1) THEN o ELSE status)
    BY <1>1, <1>7, VerdictLast
  <2>2. QED
    BY ONLY <1>6, <2>1, Zenon
<1> HIDE DEF h, o, g, n
<1>9. Refines' <=>
        /\ fails' = Run(Hist', Len(Hist'), "down")
        /\ successes' = Run(Hist', Len(Hist'), "up")
        /\ Verdict(Hist', status')
  BY DEF Refines
<1>10. QED
  BY ONLY <1>1, <1>2, <1>4, <1>8, <1>9

\* Steps that add no result leave the history and the verdict alone.
LEMMA NextRefines ==
  ASSUME TypeOK, ThresholdsHold, HTypeOK, Refines, [HNext]_hVars
  PROVE  Refines'
<1>1. CASE UNCHANGED <<results, fails, successes, status>>
  BY <1>1 DEF Refines, Hist, Outcome
<1>2. CASE \E res \in Results : HResult(res)
  BY <1>2, ResultRefines
<1>3. QED
  BY <1>1, <1>2
     DEF HNext, HClockTick, ClockTick, hVars, histVars, vars, engineVars, counters

LEMMA InitRefines == HInit => Refines
<1> SUFFICES ASSUME HInit PROVE Refines
  OBVIOUS
<1>1. Hist = <<>> /\ Len(Hist) = 0 /\ status = "unknown" /\ fails = 0 /\ successes = 0
  BY DEF HInit, Init, Hist, Outcome
<1>2. \A x : Abstract!RunMembers(Hist, Len(Hist), x) = {}
  BY <1>1 DEF Abstract!RunMembers
<1>3. \A x : Run(Hist, Len(Hist), x) = Cardinality(Abstract!RunMembers(Hist, Len(Hist), x))
  BY Zenon DEF Run, Abstract!Run, Abstract!Cardinality, Cardinality
<1>4. \A x : Run(Hist, Len(Hist), x) = 0
  BY <1>2, <1>3, FS_EmptySet
<1>5. Verdict(Hist, status)
  BY <1>1 DEF Verdict, Abstract!Verdict
<1>6. QED
  BY <1>1, <1>4, <1>5 DEF Refines

\* The engine, whose whole memory is two counters and a status, implements
\* the verdict over everything it ever saw.
THEOREM RefinementCorrect == HSpec => ImplementsHysteresis
<1> DEFINE Inv == TypeOK /\ ThresholdsHold /\ HTypeOK /\ Refines
<1>1. HSpec => []Inv
  <2>1. HistoryInv => HTypeOK
    BY DEF HistoryInv
  <2>2. /\ HInit => Refines
        /\ TypeOK /\ ThresholdsHold /\ HTypeOK /\ Refines /\ [HNext]_hVars => Refines'
    BY InitRefines, NextRefines
  <2>3. QED
    BY <2>1, <2>2, TypeCorrect, HysteresisCorrect, HistoryInductive, PTL DEF HSpec
<1>2. HInit => Abstract!Init
  BY DEF HInit, Init, Abstract!Init, Outcome
<1>3. Inv /\ [HNext]_hVars => [Abstract!Next]_(Abstract!vars)
  <2> SUFFICES ASSUME Inv, [HNext]_hVars PROVE [Abstract!Next]_(Abstract!vars)
    OBVIOUS
  <2>1. CASE UNCHANGED <<results, status>>
    BY <2>1 DEF Abstract!vars, Outcome
  <2>2. CASE \E res \in Results : HResult(res)
    <3>1. PICK res \in Results : HResult(res)
      BY <2>2
    <3>2. Hist' = Append(Hist, res.outcome) /\ res.outcome \in Outcomes
      BY <3>1, HistGrows, ResultShape
    <3>3. Refines' /\ TypeOK'
      BY <3>1, ResultRefines, NextType
         DEF HNext, HResult, Next, hVars
    <3>4. Verdict(Hist', status') /\ status' \in Statuses
      BY <3>3 DEF Refines, TypeOK
    <3>5. Abstract!Observe(res.outcome)
      BY <3>2, <3>4 DEF Abstract!Observe, Hist, Verdict, Statuses
    <3>6. QED
      BY <3>2, <3>5 DEF Abstract!Next, Outcomes
  <2>3. QED
    BY <2>1, <2>2
       DEF HNext, HClockTick, ClockTick, hVars, histVars, vars, engineVars
<1>4. QED
  BY <1>1, <1>2, <1>3, PTL DEF HSpec, ImplementsHysteresis, Abstract!Spec
==============================================================================
