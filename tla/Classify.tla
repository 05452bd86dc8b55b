------------------------------- MODULE Classify -------------------------------
(***************************************************************************)
(* How the three kinds of probe turn the way an attempt ended into a result: *)
(* a TCP dial (internal/ping/tcp.go), the system's ping command              *)
(* (internal/ping/pingcmd.go) and an ICMP socket (internal/ping/icmp.go).     *)
(* An end is a kind of error, or an exit code with what the command said.    *)
(***************************************************************************)
EXTENDS ProbeResult

\* Every kind of probe can be denied, and can fail locally for another reason.
ASSUME ClassifyAssumption == Errs = {"permission", "other"}

Kinds == {"dial", "command", "socket"}

\* A local failure is of one of the classes of errors that occur.
Local(err) == <<"local", err>>
LocalEnds == {Local(e) : e \in Errs}

ErrorOf(end) == ErrorResult(end[2])

------------------------------------------------------------------------------
(* TCP *)

DialEnds == {<<"connected">>, <<"timeout">>, <<"refused">>, <<"reset">>, <<"canceled">>} \cup LocalEnds

IsTimeout(end) == end = <<"timeout">>

\* A refusal is an answer; on Windows too, where its error has a number of its own.
IsRefused(end) == end \in {<<"refused">>, <<"reset">>}

\* The tests in the order of the code; the mutant has forgotten refusals.
ClassifyWithoutRefusal(end, rtt) ==
  IF IsTimeout(end) \/ end = <<"canceled">> THEN DownResult ELSE ErrorResult("other")

ClassifyDialError(end, rtt) ==
  IF IsTimeout(end) THEN DownResult
  ELSE IF IsRefused(end) THEN UpResult(rtt)
  ELSE IF end = <<"canceled">> THEN DownResult
  ELSE ErrorOf(end)

DialResult(end, rtt) ==
  IF end = <<"connected">> THEN UpResult(rtt) ELSE ClassifyDialError(end, rtt)

------------------------------------------------------------------------------
(* The ping command *)

\* What the command complains of with exit code 2: the two texts of a denial that the
\* system has (EPERM and EACCES), that of some commands of their own, anything else.
Complaints == {"Operation not permitted", "Permission denied", "permission denied", "no route"}

\* The command ends by itself, is killed (or ends with a code it does not have), or
\* cannot be started, for a reason with a class.
CommandEnds == {<<"exit", 0>>, <<"exit", 1>>, <<"killed">>}
                 \cup {<<"exit", 2, c>> : c \in Complaints}
                 \cup {<<"notStarted", e>> : e \in Errs}

Complained(end) == end \in {<<"exit", 2, c>> : c \in Complaints}

\* The phrases looked for, as they are written; the mutant takes every complaint
\* for a denial.
PermissionAlways(complaint) == TRUE

PermissionMessage(complaint) == complaint \in {"Operation not permitted", "permission denied"}

\* A complaint is an error, cancelled or not.  Behind it a cancelled run is the
\* cause of a failure, and the class of any other is lost (%v).
CommandResult(end, rtt, cancelled) ==
  IF end = <<"exit", 0>> THEN UpResult(rtt)
  ELSE IF end = <<"exit", 1>> THEN DownResult
  ELSE IF Complained(end)
       THEN ErrorResult(IF PermissionMessage(end[3]) THEN "permission" ELSE "other")
  ELSE IF cancelled THEN DownResult
  ELSE ErrorResult("other")

------------------------------------------------------------------------------
(* An ICMP socket: module IcmpProbe has what leads to these ends. *)

\* The request cannot be sent (a local failure), or the read fails.
ReadFailures == {<<"readFailed", e>> : e \in Errs}

SocketEnds == {<<"reply">>, <<"deadline">>} \cup ReadFailures \cup LocalEnds

SocketResult(end, rtt, cancelled) ==
  IF end = <<"reply">> THEN UpResult(rtt)
  ELSE IF end = <<"deadline">> THEN DownResult
  ELSE IF end \in ReadFailures /\ cancelled THEN DownResult
  ELSE ErrorOf(end)

------------------------------------------------------------------------------
EndsOf(kind) ==
  CASE kind = "dial"    -> DialEnds
    [] kind = "command" -> CommandEnds
    [] kind = "socket"  -> SocketEnds

ResultOf(kind, end, rtt, cancelled) ==
  CASE kind = "dial"    -> DialResult(end, rtt)
    [] kind = "command" -> CommandResult(end, rtt, cancelled)
    [] kind = "socket"  -> SocketResult(end, rtt, cancelled)

==============================================================================
