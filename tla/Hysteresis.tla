----------------------------- MODULE Hysteresis ------------------------------
(***************************************************************************)
(* What the status engine promises, without counters: the status is the    *)
(* verdict of the whole history of probe outcomes.  An operational error    *)
(* decides at once; an answer decides when it completes a run of UpAfter    *)
(* answers that no failure interrupts, a failure when it completes a run of *)
(* DownAfter failures that no answer interrupts.  Errors do not interrupt a *)
(* run.  The status is the outcome of the latest deciding probe.            *)
(***************************************************************************)
EXTENDS Naturals, Sequences, FiniteSets

CONSTANTS DownAfter, UpAfter

VARIABLES outcomes,   \* every probe outcome so far, oldest first
          status

vars == <<outcomes, status>>

Opposite(o) == IF o = "up" THEN "down" ELSE "up"

\* The probes of the run of outcome o that ends at probe i.
RunMembers(h, i, o) ==
  {k \in 1..i : h[k] = o /\ \A j \in k..i : h[j] # Opposite(o)}

Run(h, i, o) == Cardinality(RunMembers(h, i, o))

\* Probe i decides the status.
Decides(h, i) ==
  \/ h[i] = "error"
  \/ h[i] = "up" /\ Run(h, i, "up") >= UpAfter
  \/ h[i] = "down" /\ Run(h, i, "down") >= DownAfter

\* s is the status after history h.
Verdict(h, s) ==
  \/ s = "unknown" /\ \A i \in 1..Len(h) : ~Decides(h, i)
  \/ \E i \in 1..Len(h) :
        /\ Decides(h, i)
        /\ s = h[i]
        /\ \A j \in (i+1)..Len(h) : ~Decides(h, j)

Init == outcomes = <<>> /\ status = "unknown"

Observe(o) ==
  /\ outcomes' = Append(outcomes, o)
  /\ status' \in {"unknown", "up", "down", "error"}
  /\ Verdict(outcomes', status')

Next == \E o \in {"up", "down", "error"} : Observe(o)

Spec == Init /\ [][Next]_vars
==============================================================================
