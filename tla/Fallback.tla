------------------------------- MODULE Fallback ------------------------------
(***************************************************************************)
(* The chain of ICMP probe tiers (internal/ping/fallback.go, built by       *)
(* NewICMPProbe): raw socket, ping socket, system ping, those of them that  *)
(* could be opened.  A call of Probe tries the active tier, and goes on to  *)
(* the next one inside the same call while tiers turn out to be broken.     *)
(* What a tier answers is left to the environment.                          *)
(***************************************************************************)
EXTENDS Naturals, Sequences, ProbeResult

CONSTANTS MaxTiers,   \* tiers of the longest chain (3)
          MaxCalls    \* bound: calls of Probe

ASSUME FallbackAssumption ==
  /\ MaxTiers \in Nat \ {0}
  /\ MaxCalls \in Nat

VARIABLES tiers,        \* len(f.tiers)
          cur,          \* f.cur, counted from 1
          everWorked,   \* tiers[i].everWorked
          closings,     \* how often each tier was closed
          pc,           \* idle, trying (a tier's Probe is running), closed
          cancelled,    \* ctx is done
          result,       \* what the latest call returned
          calls,        \* how many calls of Probe there were
          failed        \* history: tiers that failed during the latest call

vars == <<tiers, cur, everWorked, closings, pc, cancelled, result, calls, failed>>

Tiers == 1..tiers

\* A socket that opens and a ping command that exists make a tier; without any,
\* NewICMPProbe fails and there is no chain.
Init ==
  /\ tiers \in 1..MaxTiers
  /\ cur = 1
  /\ everWorked = [i \in Tiers |-> FALSE]
  /\ closings = [i \in Tiers |-> 0]
  /\ pc = "idle"
  /\ cancelled = FALSE
  /\ result = DownResult
  /\ calls = 0
  /\ failed = {}

\* Run calls Probe, also once more when the tick and the cancellation tie.
Call ==
  /\ pc = "idle" /\ calls < MaxCalls
  /\ pc' = "trying"
  /\ calls' = calls + 1
  /\ failed' = {}
  /\ UNCHANGED <<tiers, cur, everWorked, closings, cancelled, result>>

\* The call is over; the mutant goes on trying.
ReturnNever(res) == result' = res /\ UNCHANGED pc

Return(res) == result' = res /\ pc' = "idle"

\* The active tier answers up or down: it has proven itself.
Answer(res) ==
  /\ pc = "trying" /\ res.outcome \in {"up", "down"}
  /\ everWorked' = [everWorked EXCEPT ![cur] = TRUE]
  /\ Return(res)
  /\ UNCHANGED <<tiers, cur, closings, cancelled, calls, failed>>

\* The error is the caller's to see: during a shutdown, from a proven tier, or
\* from the last one.  Mutants: a test left out.
SurfaceLive == everWorked[cur] \/ cur = tiers

SurfaceUnlessMore == cancelled \/ cur = tiers

SurfaceProven == cancelled \/ everWorked[cur]

MustSurface == cancelled \/ everWorked[cur] \/ cur = tiers

Surface(res) ==
  /\ pc = "trying" /\ res.outcome = "error" /\ MustSurface
  /\ Return(res)
  /\ failed' = failed \cup {cur}
  /\ UNCHANGED <<tiers, cur, everWorked, closings, cancelled, calls>>

\* Closing the active tier; the mutant closes the whole chain.
CloseChain == closings' = [i \in Tiers |-> closings[i] + 1]

CloseActive == closings' = [closings EXCEPT ![cur] = @ + 1]

\* A tier that never worked is broken: close it, retry through the next one.
Escalate(res) ==
  /\ pc = "trying" /\ res.outcome = "error" /\ ~MustSurface
  /\ CloseActive
  /\ cur' = cur + 1
  /\ failed' = failed \cup {cur}
  /\ UNCHANGED <<tiers, everWorked, pc, cancelled, result, calls>>

\* Main closes the chain when Run has returned.
Close ==
  /\ pc = "idle"
  /\ CloseActive
  /\ pc' = "closed"
  /\ UNCHANGED <<tiers, cur, everWorked, cancelled, result, calls, failed>>

Cancel ==
  /\ ~cancelled /\ pc # "closed"
  /\ cancelled' = TRUE
  /\ UNCHANGED <<tiers, cur, everWorked, closings, pc, result, calls, failed>>

TierReturns(res) == Answer(res) \/ Surface(res) \/ Escalate(res)

Next == \/ Call
        \/ \E res \in Results : TierReturns(res)
        \/ Close
        \/ Cancel

\* Every tier's Probe returns: each has a timeout of its own.
Fairness == WF_vars(\E res \in Results : TierReturns(res))

Spec == Init /\ [][Next]_vars /\ Fairness

------------------------------------------------------------------------------
TypeOK ==
  /\ tiers \in 1..MaxTiers
  /\ cur \in Tiers
  /\ everWorked \in [Tiers -> BOOLEAN]
  /\ closings \in [Tiers -> Nat]
  /\ pc \in {"idle", "trying", "closed"}
  /\ cancelled \in BOOLEAN
  /\ result \in Results
  /\ calls \in 0..MaxCalls
  /\ failed \subseteq Tiers

\* A tier that ever gave a clean answer is the one in use for the rest of the
\* run: a later error cannot downgrade it, and no two tiers are ever proven.  And
\* no tier is given up in a shutdown, whose errors say nothing about it
\* (fallback.go:49-53).
ProvenTierStays ==
  /\ [](\A i \in Tiers : everWorked[i] => cur = i)
  /\ [][cancelled => cur' = cur]_vars

\* Every tier that was opened is closed exactly once over the run, those left
\* behind when they are left, the active one at the end, and none is used or
\* closed after that; the tiers never reached are the exception.
ClosedOnce ==
  \A i \in Tiers : closings[i] = IF i < cur \/ (i = cur /\ pc = "closed") THEN 1 ELSE 0

\* Every call returns, whatever its tiers do: none goes through the chain for ever.
CallReturns == pc = "trying" ~> pc = "idle"
==============================================================================
