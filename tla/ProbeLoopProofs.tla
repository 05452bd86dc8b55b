--------------------------- MODULE ProbeLoopProofs ---------------------------
(***************************************************************************)
(* Proofs about the probe loop and the chain of tiers it drives, for every   *)
(* length of the chain, every interval and timeout and every length of the   *)
(* run.                                                                      *)
(***************************************************************************)
EXTENDS ProbeLoop, TLAPS

------------------------------------------------------------------------------
(* The chain by itself *)

\* A tier that ever worked is the one in use.
ProvenIsCurrent == \A i \in Tiers : everWorked[i] => cur = i

\* What the chain keeps, whatever its tiers answer.
ChainInv == TypeOK /\ ProvenIsCurrent /\ ClosedOnce

\* The results are what they should be made of.
LEMMA ResultsAre ==
  /\ DownResult \in Results
  /\ \A rtt \in RTTs : UpResult(rtt) \in Results
  /\ \A err \in Errs : ErrorResult(err) \in Results
BY DEF Results

LEMMA ChainInit == Init => ChainInv
<1> SUFFICES ASSUME Init PROVE ChainInv
  OBVIOUS
<1>1. /\ tiers \in 1..MaxTiers /\ cur = 1 /\ pc = "idle" /\ cancelled = FALSE
      /\ everWorked = [i \in 1..tiers |-> FALSE] /\ closings = [i \in 1..tiers |-> 0]
      /\ result = DownResult /\ calls = 0 /\ failed = {}
  BY DEF Init, Tiers
<1>2. TypeOK
  <2>1. cur \in 1..tiers /\ calls \in 0..MaxCalls
    BY <1>1, FallbackAssumption
  <2>2. everWorked \in [1..tiers -> BOOLEAN] /\ closings \in [1..tiers -> Nat]
    BY <1>1
  <2>3. result \in Results /\ failed \subseteq 1..tiers
    BY <1>1, ResultsAre
  <2>4. QED
    BY <1>1, <2>1, <2>2, <2>3 DEF TypeOK, Tiers
<1>3. ProvenIsCurrent /\ ClosedOnce
  BY <1>1, FallbackAssumption DEF ProvenIsCurrent, ClosedOnce, Tiers
<1>4. QED
  BY <1>2, <1>3 DEF ChainInv

\* Every step of the chain keeps it: an escalation closes the tier it leaves and
\* leaves only a tier that never worked.
LEMMA ChainNext ==
  ASSUME ChainInv, [Next]_vars
  PROVE  ChainInv'
<1> USE DEF ChainInv, TypeOK, ProvenIsCurrent, ClosedOnce, Tiers
<1>1. CASE UNCHANGED vars
  BY <1>1 DEF vars
<1>2. CASE Call
  BY <1>2, FallbackAssumption DEF Call
<1>3. ASSUME NEW res \in Results, TierReturns(res)
      PROVE  ChainInv'
  <2>1. CASE Answer(res)
    BY <1>3, <2>1 DEF Answer, Return
  <2>2. CASE Surface(res)
    BY <1>3, <2>2 DEF Surface, Return
  <2>3. CASE Escalate(res)
    <3>1. /\ cur < tiers /\ cur \in Nat /\ tiers \in Nat
          /\ ~everWorked[cur] /\ closings[cur] = 0 /\ pc = "trying"
      BY <2>3, FallbackAssumption DEF Escalate, MustSurface
    <3>2. /\ cur' = cur + 1 /\ closings' = [closings EXCEPT ![cur] = @ + 1]
          /\ failed' = failed \cup {cur}
          /\ UNCHANGED <<tiers, everWorked, pc, cancelled, result, calls>>
      BY <2>3 DEF Escalate, CloseActive
    <3>3. TypeOK'
      BY <3>1, <3>2
    <3>4. ProvenIsCurrent'
      BY <3>1, <3>2
    <3>5. ClosedOnce'
      BY <3>1, <3>2
    <3>6. QED
      BY <3>3, <3>4, <3>5
  <2>4. QED
    BY <1>3, <2>1, <2>2, <2>3 DEF TierReturns
<1>4. CASE Close
  BY <1>4 DEF Close, CloseActive
<1>5. CASE Cancel
  BY <1>5 DEF Cancel
<1>6. QED
  BY <1>1, <1>2, <1>3, <1>4, <1>5 DEF Next

------------------------------------------------------------------------------
(* The chain under the loop *)

\* However an attempt of whatever kind ends, its result is one of the contract's.
LEMMA ResultOfIsResult ==
  ASSUME NEW kind \in Kinds, NEW e \in EndsOf(kind), NEW rtt \in RTTs, NEW c \in BOOLEAN
  PROVE  ResultOf(kind, e, rtt, c) \in Results
<1>1. \A err \in Errs : Local(err)[2] = err /\ Local(err)[1] = "local"
  BY DEF Local
<1>2. CASE kind = "dial"
  <2>1. e \in DialEnds
    BY <1>2 DEF EndsOf
  <2>2. ResultOf(kind, e, rtt, c) = DialResult(e, rtt)
    BY <1>2 DEF ResultOf
  <2>3. CASE e \in LocalEnds
    BY <2>2, <2>3, <1>1, ResultsAre
       DEF DialResult, ClassifyDialError, IsTimeout, IsRefused, ErrorOf, LocalEnds
  <2>4. CASE e \notin LocalEnds
    BY <2>1, <2>2, <2>4, ResultsAre
       DEF DialEnds, DialResult, ClassifyDialError, IsTimeout, IsRefused
  <2>5. QED
    BY <2>3, <2>4
<1>3. CASE kind = "command"
  <2>1. e \in CommandEnds
    BY <1>3 DEF EndsOf
  <2>2. ResultOf(kind, e, rtt, c) = CommandResult(e, rtt, c)
    BY <1>3 DEF ResultOf
  <2>3. QED
    BY <2>2, ResultsAre, ClassifyAssumption DEF CommandResult
<1>4. CASE kind = "socket"
  <2>1. e \in SocketEnds
    BY <1>4 DEF EndsOf
  <2>2. ResultOf(kind, e, rtt, c) = SocketResult(e, rtt, c)
    BY <1>4 DEF ResultOf
  <2>3. CASE e \in LocalEnds
    BY <2>2, <2>3, <1>1, ResultsAre, ClassifyAssumption
       DEF SocketResult, ErrorOf, LocalEnds
  <2>4. CASE e \in ReadFailures
    BY <2>2, <2>4, ResultsAre DEF SocketResult, ErrorOf, ReadFailures
  <2>5. CASE e \notin LocalEnds \cup ReadFailures
    BY <2>1, <2>2, <2>5, ResultsAre DEF SocketEnds, SocketResult
  <2>6. QED
    BY <2>3, <2>4, <2>5
<1>5. QED
  BY <1>2, <1>3, <1>4 DEF Kinds

\* The loop uses the chain only by its operations.
LEMMA LoopStepIsChainStep ==
  ASSUME ChainInv, kinds \in [Tiers -> Kinds], [LoopNext]_allVars
  PROVE  [Next]_vars
<1>1. CASE UNCHANGED allVars
  BY <1>1 DEF allVars, vars
<1>2. CASE StartProbe
  BY <1>2 DEF StartProbe, Next
<1>3. CASE AttemptEnds
  <2>1. PICK rtt \in RTTs, e \in UNION {EndsOf(k) : k \in Kinds} :
          CanEnd(e) /\ TierReturns(ResultOf(kinds[cur], e, rtt, cancelled))
    BY <1>3 DEF AttemptEnds
  <2>2. kinds[cur] \in Kinds /\ e \in EndsOf(kinds[cur]) /\ cancelled \in BOOLEAN
    BY <2>1 DEF CanEnd, ChainInv, TypeOK
  <2>3. ResultOf(kinds[cur], e, rtt, cancelled) \in Results
    BY <2>2, ResultOfIsResult
  <2>4. QED
    BY <2>1, <2>3 DEF Next
<1>4. CASE WaitCancelled
  BY <1>4 DEF WaitCancelled
<1>5. CASE CloseProbe
  BY <1>5 DEF CloseProbe, Next
<1>6. CASE Tick
  BY <1>6 DEF Tick
<1>7. CASE LoopCancel
  BY <1>7 DEF LoopCancel, Next
<1>8. QED
  BY <1>1, <1>2, <1>3, <1>4, <1>5, <1>6, <1>7 DEF LoopNext

------------------------------------------------------------------------------
(* Types of the loop *)

\* What the chain and the loop keep together.
LoopInv == ChainInv /\ LoopTypeOK

\* A timeout in seconds, rounded up.
LEMMA WaitCoversTimeout == CommandWait \in Nat /\ Timeout <= CommandWait
<1> DEFINE q == (Timeout + Second - 1) \div Second
<1>1. Timeout \in Nat /\ Second \in Nat /\ Second > 0 /\ Timeout > 0
  BY ProbeLoopAssumption
<1>2. q \in Nat /\ Timeout + Second - 1 < (q + 1) * Second
  BY <1>1
<1>3. (q + 1) * Second = q * Second + Second /\ q * Second \in Nat
  BY <1>1, <1>2
<1>4. Timeout <= q * Second
  <2> HIDE DEF q
  <2>1. QED
    BY <1>1, <1>2, <1>3
<1>5. QED
  BY <1>3, <1>4 DEF CommandWait

LEMMA LoopInitInv == LoopInit => LoopInv
<1> SUFFICES ASSUME LoopInit PROVE LoopInv
  OBVIOUS
<1>1. ChainInv
  BY ChainInit DEF LoopInit
<1>2. LoopTypeOK
  BY <1>1, WaitCoversTimeout, ProbeLoopAssumption
     DEF ChainInv, LoopTypeOK, LoopInit, Init
<1>3. QED
  BY <1>1, <1>2 DEF LoopInv

LEMMA LoopNextInv ==
  ASSUME LoopInv, [LoopNext]_allVars
  PROVE  LoopInv'
<1>1. ChainInv'
  BY ChainNext, LoopStepIsChainStep DEF LoopInv, LoopTypeOK
<1>2. LoopTypeOK'
  <2> USE DEF LoopInv, LoopTypeOK
  <2>0. TypeOK' /\ TypeOK
    BY <1>1 DEF ChainInv
  <2>1. CASE UNCHANGED allVars
    BY <2>0, <2>1 DEF allVars, vars, loopVars, Tiers
  <2>2. CASE StartProbe
    BY <2>0, <2>2, WaitCoversTimeout DEF StartProbe, Call, Tiers
  <2>3. CASE AttemptEnds
    <3>1. PICK rtt \in RTTs, e \in UNION {EndsOf(k) : k \in Kinds} :
            /\ TierReturns(ResultOf(kinds[cur], e, rtt, cancelled))
            /\ end' = e
      BY <2>3 DEF AttemptEnds
    <3>2. /\ run = "probing" /\ elapsed' = 0
          /\ IF pc' = "idle" THEN ProbeReturned ELSE UNCHANGED <<run, ended>>
          /\ UNCHANGED <<now, kinds, ticks, sinceTick, began>>
      BY <2>3 DEF AttemptEnds
    <3>3. pc' \in {"idle", "trying"} /\ tiers' = tiers
      <4>1. PICK res : TierReturns(res)
        BY <3>1
      <4>2. QED
        BY <4>1 DEF TierReturns, Answer, Surface, Escalate, Return
    <3>4. /\ (run' = "probing") = (pc' = "trying") /\ ended' \in Seq(Nat)
          /\ run' \in {"start", "probing", "waiting", "over"}
      <4>0. ended \in Seq(Nat) /\ now \in Nat
        OBVIOUS
      <4> HIDE DEF LoopInv, LoopTypeOK
      <4>1. CASE pc' = "idle"
        <5>1. run' \in {"over", "waiting"} /\ ended' = Append(ended, now)
          BY <3>2, <4>1 DEF ProbeReturned
        <5>2. ended' \in Seq(Nat)
          BY <4>0, <5>1
        <5>3. QED
          BY <4>1, <5>1, <5>2
      <4>2. CASE pc' = "trying"
        BY <3>2, <4>0, <4>2
      <4>3. QED
        BY <3>3, <4>1, <4>2
    <3>5. end' \in {<<>>} \cup UNION {EndsOf(k) : k \in Kinds}
      BY <3>1
    <3>6. now' = now /\ kinds' = kinds /\ ticks' = ticks /\ sinceTick' = sinceTick /\ began' = began
      BY <3>2
    <3>7. elapsed' \in 0..CommandWait
      BY <3>2, WaitCoversTimeout
    <3>8. kinds' \in [Tiers' -> Kinds]
      BY <3>3, <3>6 DEF Tiers
    <3>9. QED
      BY <2>0, <3>4, <3>5, <3>6, <3>7, <3>8
  <2>4. CASE WaitCancelled
    BY <2>0, <2>4 DEF WaitCancelled, vars, Tiers
  <2>5. CASE CloseProbe
    BY <2>0, <2>5 DEF CloseProbe, Close, loopVars, Tiers
  <2>6. CASE Tick
    <3>1. elapsed' \in 0..CommandWait
      BY <2>6, WaitCoversTimeout, ProbeLoopAssumption DEF Tick, Limit
    <3>2. ticks' \in Nat /\ sinceTick' \in 0..(Interval - 1)
      BY <2>6, ProbeLoopAssumption DEF Tick, Ticker, Fires
    <3>3. QED
      BY <2>0, <2>6, <3>1, <3>2 DEF Tick, vars, Tiers
  <2>7. CASE LoopCancel
    BY <2>0, <2>7 DEF LoopCancel, Cancel, loopVars, Tiers
  <2>8. QED
    BY <2>1, <2>2, <2>3, <2>4, <2>5, <2>6, <2>7 DEF LoopNext
<1>3. QED
  BY <1>1, <1>2 DEF LoopInv

LEMMA LoopInvHolds == LoopSpec => []LoopInv
<1>1. QED
  BY LoopInitInv, LoopNextInv, PTL DEF LoopSpec

\* Every variable of the loop and of the chain keeps its type: no attempt takes
\* longer than its limit, the tier in use exists, and Run waits for the chain exactly
\* while a tier is being tried.
THEOREM LoopTypeCorrect == LoopSpec => []LoopTypeOK
<1>1. LoopInv => LoopTypeOK
  BY DEF LoopInv
<1>2. QED
  BY <1>1, LoopInvHolds, PTL

\* An escalation is not for the errors of a shutdown.
LEMMA ShutdownKeepsTier ==
  ASSUME [Next]_vars
  PROVE  [cancelled => cur' = cur]_vars
<1>1. CASE UNCHANGED vars
  BY <1>1
<1>2. CASE Call \/ Close \/ Cancel
  BY <1>2 DEF Call, Close, Cancel
<1>3. ASSUME NEW res, TierReturns(res), cancelled
      PROVE  cur' = cur
  BY <1>3 DEF TierReturns, Answer, Surface, Escalate, MustSurface
<1>4. QED
  BY <1>1, <1>2, <1>3 DEF Next

\* A tier that ever gave a clean answer is in use for the rest of the run, and no tier
\* is given up once the run is cancelled (fallback.go:42-71).
THEOREM ProvenTierStaysCorrect == LoopSpec => ProvenTierStays
<1>1. LoopInv => \A i \in Tiers : everWorked[i] => cur = i
  BY DEF LoopInv, ChainInv, ProvenIsCurrent
<1>2. LoopInv /\ [LoopNext]_allVars => [cancelled => cur' = cur]_vars
  BY LoopStepIsChainStep, ShutdownKeepsTier DEF LoopInv, LoopTypeOK
<1>3. QED
  BY <1>1, <1>2, LoopInvHolds, PTL DEF LoopSpec, ProvenTierStays

\* Every tier left behind is closed once, the one in use when the run is over.
THEOREM ClosedOnceCorrect == LoopSpec => []ClosedOnce
<1>1. LoopInv => ClosedOnce
  BY DEF LoopInv, ChainInv
<1>2. QED
  BY <1>1, LoopInvHolds, PTL

------------------------------------------------------------------------------
(* Cadence *)

\* When the ticker fired for the last time, or was started.
LastFire == now - sinceTick

Later(a, b) == IF a > b THEN a ELSE b

\* The calls returned one after the other, and nothing lies in the future.
Orderly ==
  /\ Len(ended) = IF run = "probing" THEN Len(began) - 1 ELSE Len(began)
  /\ \A i \in 1..Len(began) : began[i] <= now
  /\ \A i \in 1..Len(ended) : ended[i] <= now
  /\ run = "start" <=> began = <<>>
  /\ run = "start" => now = 0

\* A tick is in the channel exactly if the ticker fired after the latest start, and the
\* ticker has then fired as often as there were starts.
TickAfterStart ==
  /\ ticks \in {0, 1} /\ LastFire \in Nat
  /\ began = <<>> => ticks = 0
  /\ began # <<>> =>
       /\ ticks = 1 <=> LastFire > began[Len(began)]
       /\ (Len(began) - 1) * Interval <= LastFire
       /\ ticks = 1 => Len(began) * Interval <= LastFire

\* Run does not wait longer than for the tick that is due.
WaitIsShort ==
  run = "waiting" => now <= Later(ended[Len(ended)], began[Len(began)] + Interval)

\* The ticker has fired since the start before the latest one, and twice if a tick is
\* in the channel again.
FiredBetween ==
  Len(began) > 1 =>
    /\ LastFire > began[Len(began) - 1]
    /\ ticks = 1 => LastFire > began[Len(began) - 1] + Interval

CadenceInv == Orderly /\ TickAfterStart /\ WaitIsShort /\ FiredBetween /\ Cadence

\* Multiplication by the interval, one step at a time.
LEMMA NextTurn ==
  ASSUME NEW k \in Nat, k > 0
  PROVE  /\ (k - 1) * Interval \in Nat /\ k * Interval \in Nat
         /\ (k - 1) * Interval + Interval = k * Interval
         /\ ((k + 1) - 1) * Interval = k * Interval
BY ProbeLoopAssumption

LEMMA CadenceInit == LoopInit => CadenceInv
BY ProbeLoopAssumption
   DEF LoopInit, CadenceInv, Orderly, TickAfterStart, WaitIsShort, FiredBetween, Cadence, LastFire

\* Nothing that the cadence is about changes.
LEMMA CadenceKept ==
  ASSUME CadenceInv, run' = run \/ run' = "over", run \in {"waiting", "probing"} \/ run' = run,
         run' # run => run = "waiting",
         UNCHANGED <<now, ticks, sinceTick, began, ended>>
  PROVE  CadenceInv'
BY DEF CadenceInv, Orderly, TickAfterStart, WaitIsShort, FiredBetween, Cadence, LastFire, Later

LEMMA CadenceStart ==
  ASSUME LoopTypeOK, CadenceInv, StartProbe
  PROVE  CadenceInv'
<1> DEFINE K == Len(began)
<1>1. /\ now \in Nat /\ began \in Seq(Nat) /\ ended \in Seq(Nat) /\ sinceTick \in Nat
      /\ Interval \in Nat /\ K \in Nat
  BY ProbeLoopAssumption DEF LoopTypeOK
<1>2. /\ run' = "probing" /\ began' = Append(began, now)
      /\ now' = now /\ sinceTick' = sinceTick /\ ended' = ended
      /\ run \in {"start", "waiting"}
      /\ run = "start" => ticks' = ticks
      /\ run = "waiting" => ticks > 0 /\ ticks' = ticks - 1
  BY DEF StartProbe
<1>3. /\ Len(began') = K + 1 /\ began'[K + 1] = now /\ began' # <<>>
      /\ \A i \in 1..K : began'[i] = began[i]
  BY <1>1, <1>2
<1>4. LastFire' = LastFire /\ LastFire <= now /\ LastFire \in Nat /\ ticks' = 0
  BY <1>1, <1>2 DEF LastFire, CadenceInv, TickAfterStart, Orderly
<1>5. Orderly'
  BY <1>1, <1>2, <1>3 DEF CadenceInv, Orderly
<1>6. CASE run = "start"
  <2>1. K = 0 /\ now = 0 /\ LastFire = 0
    <3>1. began = <<>> /\ now = 0
      BY <1>6 DEF CadenceInv, Orderly
    <3>2. QED
      BY <1>4, <3>1
  <2>2. (1 - 1) * Interval = 0
    BY <1>1
  <2>3. TickAfterStart'
    BY <1>3, <1>4, <2>1, <2>2 DEF TickAfterStart
  <2>4. Cadence'
    BY <1>2, <1>3, <2>1, <2>2 DEF Cadence
  <2>5. QED
    BY <1>2, <1>3, <1>5, <2>1, <2>3, <2>4 DEF CadenceInv, WaitIsShort, FiredBetween
<1>7. CASE run = "waiting"
  <2>1. K > 0 /\ Len(ended) = K /\ ticks = 1 /\ began[K] \in Nat /\ ended[K] \in Nat
    BY <1>1, <1>2, <1>7 DEF CadenceInv, Orderly, TickAfterStart
  <2>2. LastFire > began[K] /\ K * Interval <= LastFire
    BY <1>1, <2>1 DEF CadenceInv, TickAfterStart
  <2>3. TickAfterStart'
    BY <1>1, <1>3, <1>4, <2>1, <2>2, NextTurn DEF TickAfterStart
  <2>4. FiredBetween'
    BY <1>1, <1>3, <1>4, <2>1, <2>2 DEF FiredBetween
  <2>5. /\ now >= ((K + 1) - 1) * Interval
        /\ now \in ended[K]..(IF ended[K] > began[K] + Interval THEN ended[K] ELSE began[K] + Interval)
        /\ K > 1 => now >= began[K - 1] + Interval
    <3>1. now >= ((K + 1) - 1) * Interval
      BY <1>1, <1>4, <2>1, <2>2, NextTurn
    <3>2. ended[K] <= now /\ now <= Later(ended[K], began[K] + Interval)
      BY <1>7, <2>1 DEF CadenceInv, Orderly, WaitIsShort
    <3>3. K > 1 => now >= began[K - 1] + Interval
      BY <1>1, <1>4, <2>1 DEF CadenceInv, FiredBetween
    <3>4. QED
      BY <1>1, <2>1, <3>1, <3>2, <3>3 DEF Later
  <2>6. Cadence'
    <3>1. SUFFICES ASSUME NEW n \in 1..(K + 1)
                   PROVE  /\ began'[n] >= (n - 1) * Interval
                          /\ n > 1 => began'[n] \in ended'[n-1]..(IF ended'[n-1] > began'[n-1] + Interval
                                                THEN ended'[n-1] ELSE began'[n-1] + Interval)
                          /\ n > 2 => began'[n] >= began'[n-2] + Interval
      BY <1>3 DEF Cadence
    <3>2. CASE n = K + 1
      BY <1>1, <1>2, <1>3, <2>1, <2>5, <3>2
    <3>3. CASE n \in 1..K
      <4>1. began'[n] = began[n] /\ (n > 1 => began'[n - 1] = began[n - 1])
              /\ (n > 2 => began'[n - 2] = began[n - 2])
        <5>1. n > 1 => n - 1 \in 1..K
          BY <1>1, <3>3
        <5>2. n > 2 => n - 2 \in 1..K
          BY <1>1, <3>3
        <5>3. QED
          BY <1>3, <3>3, <5>1, <5>2
      <4>2. QED
        BY <1>1, <1>2, <3>3, <4>1 DEF CadenceInv, Cadence
    <3>4. QED
      BY <1>1, <3>2, <3>3
  <2>7. QED
    BY <1>2, <1>5, <2>3, <2>4, <2>6 DEF CadenceInv, WaitIsShort
<1>8. QED
  BY <1>2, <1>6, <1>7

LEMMA CadenceReturn ==
  ASSUME LoopTypeOK, CadenceInv, run = "probing", ProbeReturned,
         UNCHANGED <<now, ticks, sinceTick, began>>
  PROVE  CadenceInv'
<1> DEFINE K == Len(began)
<1>1. /\ now \in Nat /\ began \in Seq(Nat) /\ ended \in Seq(Nat) /\ K \in Nat /\ Interval \in Nat
  BY ProbeLoopAssumption DEF LoopTypeOK
<1>2. run' \in {"over", "waiting"} /\ ended' = Append(ended, now)
  BY DEF ProbeReturned
<1>3. K > 0 /\ Len(ended) = K - 1
  BY <1>1 DEF CadenceInv, Orderly
<1>4. /\ Len(ended') = K /\ ended'[K] = now
      /\ \A i \in 1..(K - 1) : ended'[i] = ended[i]
  BY <1>1, <1>2, <1>3
<1>5. Orderly'
  BY <1>1, <1>2, <1>3, <1>4 DEF CadenceInv, Orderly
<1>6. TickAfterStart' /\ FiredBetween'
  BY DEF CadenceInv, TickAfterStart, FiredBetween, LastFire
<1>7. WaitIsShort'
  BY <1>1, <1>3, <1>4 DEF WaitIsShort, Later
<1>8. Cadence'
  <2>1. \A n \in 1..K : n > 1 => n - 1 \in 1..(K - 1)
    BY <1>1
  <2>2. \A n \in 1..K : n > 1 => ended'[n - 1] = ended[n - 1]
    BY <1>4, <2>1
  <2>3. QED
    BY <2>2 DEF CadenceInv, Cadence
<1>9. QED
  BY <1>5, <1>6, <1>7, <1>8 DEF CadenceInv

LEMMA CadenceTick ==
  ASSUME LoopTypeOK, CadenceInv, Tick
  PROVE  CadenceInv'
<1> DEFINE K == Len(began)
<1>1. /\ now \in Nat /\ began \in Seq(Nat) /\ ended \in Seq(Nat) /\ K \in Nat
      /\ Interval \in Nat /\ sinceTick \in 0..(Interval - 1)
  BY ProbeLoopAssumption DEF LoopTypeOK
<1>2. /\ now' = now + 1 /\ run' = run /\ began' = began /\ ended' = ended
      /\ (run = "waiting" /\ ticks = 0) \/ run = "probing"
      /\ sinceTick' = IF sinceTick + 1 = Interval THEN 0 ELSE sinceTick + 1
      /\ ticks' = IF sinceTick + 1 = Interval THEN 1 ELSE ticks
  BY DEF Tick, Ticker, Fires
<1>3. K > 0 /\ began # <<>> /\ began[K] \in Nat /\ began[K] <= now /\ (K > 1 => began[K - 1] \in Nat)
  BY <1>1, <1>2 DEF CadenceInv, Orderly
<1>4. /\ LastFire \in Nat /\ now = LastFire + sinceTick
      /\ LastFire' = IF sinceTick + 1 = Interval THEN LastFire + Interval ELSE LastFire
      /\ sinceTick + 1 = Interval => LastFire' = now + 1
  BY <1>1, <1>2 DEF LastFire, CadenceInv, TickAfterStart
<1>5. Orderly'
  <2>1. \A i \in 1..Len(began) : began[i] \in Nat /\ began[i] <= now
    BY <1>1 DEF CadenceInv, Orderly
  <2>2. \A i \in 1..Len(ended) : ended[i] \in Nat /\ ended[i] <= now
    BY <1>1 DEF CadenceInv, Orderly
  <2>3. run # "start" /\ Len(ended) = IF run = "probing" THEN Len(began) - 1 ELSE Len(began)
    BY <1>2 DEF CadenceInv, Orderly
  <2>4. /\ \A i \in 1..Len(began) : began[i] <= now + 1
        /\ \A i \in 1..Len(ended) : ended[i] <= now + 1
    BY <1>1, <2>1, <2>2
  <2>5. QED
    BY <1>2, <1>3, <2>3, <2>4 DEF Orderly
<1>6. TickAfterStart'
  <2>1. /\ (K - 1) * Interval \in Nat /\ K * Interval \in Nat
        /\ (K - 1) * Interval + Interval = K * Interval
    BY <1>1, <1>3, NextTurn
  <2>2. /\ ticks \in {0, 1} /\ (ticks = 1 <=> LastFire > began[K])
        /\ (K - 1) * Interval <= LastFire /\ (ticks = 1 => K * Interval <= LastFire)
    BY <1>3 DEF CadenceInv, TickAfterStart
  <2>3. CASE sinceTick + 1 = Interval
    <3>1. ticks' = 1 /\ LastFire' \in Nat /\ LastFire' > began[K] /\ LastFire' = LastFire + Interval
      BY <1>1, <1>2, <1>3, <1>4, <2>3
    <3>2. K * Interval <= LastFire' /\ (K - 1) * Interval <= LastFire'
      <4> DEFINE a == (K - 1) * Interval
                 b == K * Interval
      <4>1. a \in Nat /\ b \in Nat /\ a + Interval = b /\ a <= LastFire
        BY <2>1, <2>2
      <4> HIDE DEF a, b
      <4>2. b <= LastFire' /\ a <= LastFire'
        BY <1>1, <1>4, <3>1, <4>1
      <4>3. QED
        BY <4>2 DEF a, b
    <3>3. QED
      BY <1>2, <1>3, <3>1, <3>2 DEF TickAfterStart
  <2>4. CASE sinceTick + 1 # Interval
    BY <1>2, <1>3, <1>4, <2>2, <2>4 DEF TickAfterStart
  <2>5. QED
    BY <2>3, <2>4
<1>7. WaitIsShort'
  <2>1. SUFFICES ASSUME run = "waiting"
                 PROVE  now + 1 <= Later(ended[Len(ended)], began[K] + Interval)
    BY <1>2 DEF WaitIsShort
  <2>2. ticks = 0 /\ LastFire <= began[K]
    BY <1>2, <1>3, <1>4, <2>1 DEF CadenceInv, TickAfterStart
  <2>3. now + 1 <= began[K] + Interval
    BY <1>1, <1>3, <1>4, <2>2
  <2>4. Len(ended) = K /\ ended[K] \in Nat
    BY <1>1, <1>3, <2>1 DEF CadenceInv, Orderly
  <2>5. QED
    BY <1>1, <1>3, <2>3, <2>4 DEF Later
<1>8. FiredBetween'
  BY <1>1, <1>2, <1>3, <1>4 DEF CadenceInv, FiredBetween
<1>9. Cadence'
  BY <1>2 DEF CadenceInv, Cadence
<1>10. QED
  BY <1>5, <1>6, <1>7, <1>8, <1>9 DEF CadenceInv

LEMMA CadenceNext ==
  ASSUME LoopInv, CadenceInv, [LoopNext]_allVars
  PROVE  CadenceInv'
<1>0. LoopTypeOK
  BY DEF LoopInv
<1>1. CASE UNCHANGED allVars
  BY <1>1, CadenceKept DEF allVars, loopVars
<1>2. CASE StartProbe
  BY <1>0, <1>2, CadenceStart
<1>3. CASE AttemptEnds
  <2>1. run = "probing" /\ UNCHANGED <<now, ticks, sinceTick, began>>
        /\ (ProbeReturned \/ UNCHANGED <<run, ended>>)
    BY <1>3 DEF AttemptEnds
  <2>2. QED
    BY <1>0, <2>1, CadenceReturn, CadenceKept
<1>4. CASE WaitCancelled
  BY <1>4, CadenceKept DEF WaitCancelled
<1>5. CASE CloseProbe
  BY <1>5, CadenceKept DEF CloseProbe, loopVars
<1>6. CASE Tick
  BY <1>0, <1>6, CadenceTick
<1>7. CASE LoopCancel
  BY <1>7, CadenceKept DEF LoopCancel, loopVars
<1>8. QED
  BY <1>1, <1>2, <1>3, <1>4, <1>5, <1>6, <1>7 DEF LoopNext

\* Probes are started at a fixed rate that nothing speeds up: none before its turn, each
\* as soon as it is due and the one before it is over, and no three within an interval.
THEOREM CadenceCorrect == LoopSpec => []Cadence
<1>1. LoopInit => CadenceInv
  BY CadenceInit
<1>2. CadenceInv => Cadence
  BY DEF CadenceInv
<1>3. QED
  BY <1>1, <1>2, CadenceNext, LoopInvHolds, PTL DEF LoopSpec

------------------------------------------------------------------------------
(* Verdicts *)

UpEnds == {<<"connected">>, <<"refused">>, <<"reset">>, <<"exit", 0>>, <<"reply">>}
DownEnds == {<<"timeout">>, <<"exit", 1>>, <<"deadline">>}

\* What the result of an end must be, while the run is not being cancelled.
Justified(res, e) ==
  /\ res.outcome = "up" <=> e \in UpEnds
  /\ res.outcome = "down" <=> e \in DownEnds
  /\ IsPermissionError(res.err) <=> e \in Denials \ Overlooked

\* A local end is none of the others, and a denial by its class.
LEMMA LocalEndsApart ==
  ASSUME NEW err
  PROVE  /\ Local(err) \notin UpEnds /\ Local(err) \notin DownEnds
         /\ \A tag \in {"connected", "refused", "reset", "reply", "timeout", "canceled",
                        "deadline", "killed"} : Local(err) # <<tag>>
         /\ Local(err) \in Denials \ Overlooked <=> err = "permission"
<1>1. /\ Local(err) \notin UpEnds /\ Local(err) \notin DownEnds
      /\ \A tag \in {"connected", "refused", "reset", "reply", "timeout", "canceled",
                     "deadline", "killed"} : Local(err) # <<tag>>
  BY DEF Local, UpEnds, DownEnds
<1>2. Local(err) = Local("permission") <=> err = "permission"
  BY DEF Local
<1>3. \A x : Local(err) # <<"readFailed", x>> /\ Local(err) # <<"notStarted", x>>
             /\ Local(err) # <<"exit", 2, x>>
  BY DEF Local
<1>4. QED
  BY <1>1, <1>2, <1>3 DEF Denials, Overlooked

\* A read that fails likewise.
LEMMA ReadFailuresApart ==
  ASSUME NEW err
  PROVE  /\ <<"readFailed", err>> \notin UpEnds /\ <<"readFailed", err>> \notin DownEnds
         /\ <<"readFailed", err>> \in Denials \ Overlooked <=> err = "permission"
<1>1. <<"readFailed", err>> \notin UpEnds /\ <<"readFailed", err>> \notin DownEnds
  BY DEF UpEnds, DownEnds
<1>2. <<"readFailed", err>> = <<"readFailed", "permission">> <=> err = "permission"
  OBVIOUS
<1>3. \A x : /\ <<"readFailed", err>> # Local(x) /\ <<"readFailed", err>> # <<"notStarted", x>>
             /\ <<"readFailed", err>> # <<"exit", 2, x>>
  BY DEF Local
<1>4. QED
  BY <1>1, <1>2, <1>3 DEF Denials, Overlooked

\* Of the complaints of the command two are known as denials, one is overlooked.
LEMMA ComplaintsApart ==
  ASSUME NEW c
  PROVE  /\ <<"exit", 2, c>> \notin UpEnds /\ <<"exit", 2, c>> \notin DownEnds
         /\ <<"exit", 2, c>> \in Denials \ Overlooked <=> PermissionMessage(c)
<1>1. <<"exit", 2, c>> \notin UpEnds /\ <<"exit", 2, c>> \notin DownEnds
  BY DEF UpEnds, DownEnds
<1>2. \A d : <<"exit", 2, c>> = <<"exit", 2, d>> <=> c = d
  OBVIOUS
<1>3. \A x : /\ <<"exit", 2, c>> # Local(x) /\ <<"exit", 2, c>> # <<"notStarted", x>>
             /\ <<"exit", 2, c>> # <<"readFailed", x>>
  BY DEF Local
<1>4. QED
  BY <1>1, <1>2, <1>3 DEF Denials, Overlooked, PermissionMessage

\* A command that was killed or not started says nothing of its reason.
LEMMA FailuresApart ==
  ASSUME NEW e, e = <<"killed">> \/ \E err : e = <<"notStarted", err>>
  PROVE  e \notin UpEnds /\ e \notin DownEnds /\ e \notin Denials \ Overlooked
<1>1. e[1] = "killed" \/ e[1] = "notStarted"
  OBVIOUS
<1>2. e \notin UpEnds /\ e \notin DownEnds
  BY <1>1 DEF UpEnds, DownEnds
<1>3. \A x : e # Local(x) /\ e # <<"readFailed", x>> /\ e # <<"exit", 2, x>>
  BY <1>1 DEF Local
<1>4. QED
  BY <1>2, <1>3 DEF Denials, Overlooked

\* What proves the host up or down is no denial.
LEMMA AnswersApart ==
  ASSUME NEW e \in UpEnds \cup DownEnds
  PROVE  /\ ~(e \in UpEnds /\ e \in DownEnds)
         /\ e \notin Denials
<1>1. e[1] \in {"connected", "refused", "reset", "reply", "timeout", "deadline"}
      \/ e = <<"exit", 0>> \/ e = <<"exit", 1>>
  BY DEF UpEnds, DownEnds
<1>2. \A x : e # Local(x) /\ e # <<"readFailed", x>> /\ e # <<"exit", 2, x>>
             /\ e # <<"notStarted", x>>
  BY <1>1 DEF Local
<1>3. ~(e \in UpEnds /\ e \in DownEnds)
  BY DEF UpEnds, DownEnds
<1>4. QED
  BY <1>2, <1>3 DEF Denials

LEMMA AnswerJustified ==
  ASSUME NEW e, NEW rtt
  PROVE  /\ e \in UpEnds => Justified(UpResult(rtt), e)
         /\ e \in DownEnds => Justified(DownResult, e)
BY AnswersApart DEF Justified, UpResult, DownResult, IsPermissionError

LEMMA ErrorJustified ==
  ASSUME NEW e, NEW err, e \notin UpEnds, e \notin DownEnds,
         e \in Denials \ Overlooked <=> err = "permission"
  PROVE  Justified(ErrorResult(err), e)
BY DEF Justified, ErrorResult, IsPermissionError

LEMMA DialJustified ==
  ASSUME NEW e \in DialEnds, e # <<"canceled">>, NEW rtt \in RTTs
  PROVE  Justified(DialResult(e, rtt), e)
<1>1. CASE e \in LocalEnds
  <2>1. PICK err \in Errs : e = Local(err)
    BY <1>1 DEF LocalEnds
  <2>2. DialResult(e, rtt) = ErrorResult(err)
    BY <2>1, LocalEndsApart
       DEF DialResult, ClassifyDialError, IsTimeout, IsRefused, ErrorOf, Local
  <2>3. QED
    BY <2>1, <2>2, LocalEndsApart, ErrorJustified
<1>2. CASE e \in {<<"connected">>, <<"refused">>, <<"reset">>}
  <2>1. DialResult(e, rtt) = UpResult(rtt) /\ e \in UpEnds
    BY <1>2 DEF DialResult, ClassifyDialError, IsTimeout, IsRefused, UpEnds
  <2>2. QED
    BY <2>1, AnswerJustified
<1>3. CASE e = <<"timeout">>
  <2>1. DialResult(e, rtt) = DownResult /\ e \in DownEnds
    BY <1>3 DEF DialResult, ClassifyDialError, IsTimeout, DownEnds
  <2>2. QED
    BY <2>1, AnswerJustified
<1>4. QED
  BY <1>1, <1>2, <1>3 DEF DialEnds

LEMMA CommandJustified ==
  ASSUME NEW e \in CommandEnds, NEW rtt \in RTTs, NEW c, c = FALSE
  PROVE  Justified(CommandResult(e, rtt, c), e)
<1>1. CASE Complained(e)
  <2>1. PICK t \in Complaints : e = <<"exit", 2, t>>
    BY <1>1 DEF Complained
  <2>2. e # <<"exit", 0>> /\ e # <<"exit", 1>> /\ e[3] = t
    BY <2>1
  <2>3. CommandResult(e, rtt, c) = ErrorResult(IF PermissionMessage(t) THEN "permission" ELSE "other")
    BY <1>1, <2>2 DEF CommandResult
  <2>4. QED
    BY <2>1, <2>3, ComplaintsApart, ErrorJustified
<1>2. CASE e = <<"exit", 0>>
  <2>1. CommandResult(e, rtt, c) = UpResult(rtt) /\ e \in UpEnds
    BY <1>2 DEF CommandResult, UpEnds
  <2>2. QED
    BY <2>1, AnswerJustified
<1>3. CASE e = <<"exit", 1>>
  <2>1. CommandResult(e, rtt, c) = DownResult /\ e \in DownEnds
    BY <1>3 DEF CommandResult, DownEnds
  <2>2. QED
    BY <2>1, AnswerJustified
<1>4. CASE e = <<"killed">> \/ \E err : e = <<"notStarted", err>>
  <2>1. e[1] = "killed" \/ e[1] = "notStarted"
    BY <1>4
  <2>2. e # <<"exit", 0>> /\ e # <<"exit", 1>> /\ ~Complained(e)
    BY <2>1 DEF Complained
  <2>3. CommandResult(e, rtt, c) = ErrorResult("other")
    BY <2>2 DEF CommandResult
  <2>4. QED
    BY <1>4, <2>3, FailuresApart, ErrorJustified
<1>5. QED
  BY <1>1, <1>2, <1>3, <1>4 DEF CommandEnds, Complained

LEMMA SocketJustified ==
  ASSUME NEW e \in SocketEnds, NEW rtt \in RTTs, NEW c, c = FALSE
  PROVE  Justified(SocketResult(e, rtt, c), e)
<1>1. CASE e \in LocalEnds
  <2>1. PICK err \in Errs : e = Local(err)
    BY <1>1 DEF LocalEnds
  <2>2. SocketResult(e, rtt, c) = ErrorResult(err)
    BY <2>1, LocalEndsApart DEF SocketResult, ErrorOf, Local
  <2>3. QED
    BY <2>1, <2>2, LocalEndsApart, ErrorJustified
<1>2. CASE e \in ReadFailures
  <2>1. PICK err \in Errs : e = <<"readFailed", err>>
    BY <1>2 DEF ReadFailures
  <2>2. SocketResult(e, rtt, c) = ErrorResult(err)
    BY <2>1 DEF SocketResult, ErrorOf
  <2>3. QED
    BY <2>1, <2>2, ReadFailuresApart, ErrorJustified
<1>3. CASE e = <<"reply">>
  <2>1. SocketResult(e, rtt, c) = UpResult(rtt) /\ e \in UpEnds
    BY <1>3 DEF SocketResult, UpEnds
  <2>2. QED
    BY <2>1, AnswerJustified
<1>4. CASE e = <<"deadline">>
  <2>1. SocketResult(e, rtt, c) = DownResult /\ e \in DownEnds
    BY <1>4 DEF SocketResult, DownEnds
  <2>2. QED
    BY <2>1, AnswerJustified
<1>5. QED
  BY <1>1, <1>2, <1>3, <1>4 DEF SocketEnds

\* Whatever the kind of probe, if a dial is not canceled without its run being so.
LEMMA ResultJustified ==
  ASSUME NEW kind \in Kinds, NEW e \in EndsOf(kind), e # <<"canceled">>, NEW rtt \in RTTs, NEW c, c = FALSE
  PROVE  Justified(ResultOf(kind, e, rtt, c), e)
<1>1. CASE kind = "dial"
  BY <1>1, DialJustified DEF EndsOf, ResultOf
<1>2. CASE kind = "command"
  BY <1>2, CommandJustified DEF EndsOf, ResultOf
<1>3. CASE kind = "socket"
  BY <1>3, SocketJustified DEF EndsOf, ResultOf
<1>4. QED
  BY <1>1, <1>2, <1>3 DEF Kinds

\* A result tells how the latest attempt ended, and an error that of the tier in use,
\* which is proven or the last one.
VerdictInv ==
  pc = "idle" /\ calls > 0 /\ ~cancelled =>
    /\ Justified(result, end)
    /\ result.outcome = "error" => everWorked[cur] \/ (cur = tiers /\ cur \in failed)

LEMMA VerdictStep ==
  ASSUME LoopInv, VerdictInv, [LoopNext]_allVars
  PROVE  VerdictInv'
<1>1. CASE UNCHANGED allVars
  BY <1>1 DEF allVars, vars, loopVars, VerdictInv
<1>2. CASE StartProbe
  BY <1>2 DEF StartProbe, Call, VerdictInv
<1>3. CASE AttemptEnds
  <2>1. PICK rtt \in RTTs, e \in UNION {EndsOf(k) : k \in Kinds} :
          /\ CanEnd(e)
          /\ TierReturns(ResultOf(kinds[cur], e, rtt, cancelled))
          /\ end' = e
    BY <1>3 DEF AttemptEnds
  <2> DEFINE res == ResultOf(kinds[cur], e, rtt, cancelled)
  <2>2. kinds[cur] \in Kinds /\ e \in EndsOf(kinds[cur]) /\ (e = <<"canceled">> => cancelled)
    BY <2>1 DEF CanEnd, LoopInv, LoopTypeOK, TypeOK
  <2>3. cancelled = FALSE => Justified(res, e)
    BY <2>2, ResultJustified
  <2>4. cancelled \in BOOLEAN
    BY DEF LoopInv, ChainInv, TypeOK
  <2>5. TierReturns(res) /\ end' = e
    BY <2>1
  <2> HIDE DEF res
  <2>6. CASE Answer(res)
    BY <2>3, <2>4, <2>5, <2>6 DEF Answer, Return, VerdictInv
  <2>7. CASE Surface(res)
    BY <2>3, <2>4, <2>5, <2>7 DEF Surface, Return, MustSurface, VerdictInv
  <2>8. CASE Escalate(res)
    BY <2>8 DEF Escalate, VerdictInv
  <2>9. QED
    BY <2>5, <2>6, <2>7, <2>8 DEF TierReturns
<1>4. CASE WaitCancelled
  BY <1>4 DEF WaitCancelled, vars, VerdictInv
<1>5. CASE CloseProbe
  BY <1>5 DEF CloseProbe, Close, VerdictInv
<1>6. CASE Tick
  BY <1>6 DEF Tick, vars, VerdictInv
<1>7. CASE LoopCancel
  BY <1>7 DEF LoopCancel, Cancel, VerdictInv
<1>8. QED
  BY <1>1, <1>2, <1>3, <1>4, <1>5, <1>6, <1>7 DEF LoopNext

LEMMA VerdictFromInv ==
  ASSUME LoopInv, VerdictInv
  PROVE  VerdictJustified
<1> SUFFICES ASSUME pc = "idle", calls > 0, ~cancelled
             PROVE  /\ Justified(result, end)
                    /\ result.outcome = "error" =>
                         everWorked[cur] \/ \A i \in Tiers : i \in failed \/ closings[i] = 1
  BY DEF VerdictJustified, Justified, UpEnds, DownEnds
<1>1. Justified(result, end)
  BY DEF VerdictInv
<1>2. ASSUME result.outcome = "error", ~everWorked[cur], NEW i \in Tiers
      PROVE  i \in failed \/ closings[i] = 1
  <2>1. cur = tiers /\ cur \in failed
    BY <1>2 DEF VerdictInv
  <2>2. i < cur => closings[i] = 1
    BY <1>2 DEF LoopInv, ChainInv, ClosedOnce
  <2>3. i = cur \/ i < cur
    BY <1>2, <2>1, FallbackAssumption DEF LoopInv, ChainInv, TypeOK, Tiers
  <2>4. QED
    BY <2>1, <2>2, <2>3
<1>3. QED
  BY <1>1, <1>2

\* Up and down say what the host did, a permission error is reported exactly for the
\* denials that the code knows as such, and an error only when no tier could do better
\* (tcp.go:48-69, pingcmd.go:68-92, icmp.go:139-169).
THEOREM VerdictJustifiedCorrect == LoopSpec => []VerdictJustified
<1>1. LoopInit => VerdictInv
  BY DEF LoopInit, Init, VerdictInv
<1>2. QED
  BY <1>1, VerdictStep, VerdictFromInv, LoopInvHolds, PTL DEF LoopSpec

==============================================================================
