----------------------------- MODULE ProbeResult -----------------------------
(***************************************************************************)
(* The probe contract of internal/ping/ping.go: what one call of           *)
(* Probe.Probe returns to its caller.  The round-trip time is a number of   *)
(* an arbitrary unit; an error is only what its readers tell apart, a       *)
(* permission-class error (ping.IsPermissionError) or any other.            *)
(***************************************************************************)
EXTENDS Naturals

CONSTANTS RTTs,   \* the round-trip times a successful probe may measure
          Errs    \* the classes of operational errors that occur

ASSUME ProbeResultAssumption ==
  /\ RTTs \subseteq Nat
  /\ Errs \subseteq {"permission", "other"}

Outcomes == {"up", "down", "error"}

\* Result{Outcome, RTT, Err}: RTT is valid only when up, Err only when error.
UpResult(rtt)    == [outcome |-> "up", rtt |-> rtt, err |-> "none"]
DownResult       == [outcome |-> "down", rtt |-> 0, err |-> "none"]
ErrorResult(err) == [outcome |-> "error", rtt |-> 0, err |-> err]

Results == {UpResult(r) : r \in RTTs} \cup {DownResult}
             \cup {ErrorResult(e) : e \in Errs}

\* EPERM or EACCES anywhere in the chain of wrapped errors.
IsPermissionError(err) == err = "permission"
==============================================================================
