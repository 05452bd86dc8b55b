------------------------------- MODULE Session -------------------------------
(***************************************************************************)
(* What a run promises: results are taken while it runs, one at a time, and *)
(* observed; every one observed is reported once.  When it is told to stop   *)
(* no further result is taken; one that was taken before is still observed,  *)
(* and the session ends only after everything observed has been reported.    *)
(***************************************************************************)
EXTENDS Naturals

VARIABLES phase,      \* running, stopping, ended
          taken,      \* a result was taken that is not observed yet
          observed,   \* how many results were observed
          reported    \* how many of them were reported

vars == <<phase, taken, observed, reported>>

Init == phase = "running" /\ taken = FALSE /\ observed = 0 /\ reported = 0

Take ==
  /\ phase = "running" /\ ~taken
  /\ taken' = TRUE
  /\ UNCHANGED <<phase, observed, reported>>

Observe ==
  /\ phase # "ended" /\ taken
  /\ taken' = FALSE
  /\ observed' = observed + 1
  /\ UNCHANGED <<phase, reported>>

\* A report may itself be the reason to stop.
Report ==
  /\ phase # "ended" /\ reported < observed
  /\ reported' = reported + 1
  /\ phase' \in {phase, "stopping"}
  /\ UNCHANGED <<taken, observed>>

StopAsked ==
  /\ phase = "running"
  /\ phase' = "stopping"
  /\ UNCHANGED <<taken, observed, reported>>

End ==
  /\ phase = "stopping" /\ ~taken /\ reported = observed
  /\ phase' = "ended"
  /\ UNCHANGED <<taken, observed, reported>>

Next == Take \/ Observe \/ Report \/ StopAsked \/ End

Spec == Init /\ [][Next]_vars /\ WF_vars(Observe) /\ WF_vars(Report) /\ WF_vars(End)
==============================================================================
