------------------------------ MODULE IcmpProbe ------------------------------
(***************************************************************************)
(* One ICMP echo probe after another on one socket (internal/ping/icmp.go): *)
(* the sequence number that ties a reply to its request, the deadline, and  *)
(* the packets the network loses, delays past the deadline or duplicates.   *)
(* Replies left in the socket by one probe are read by the next.            *)
(*                                                                         *)
(* Time is counted in ticks from the request.  The process is scheduled    *)
(* within a tick: no tick passes while it has a packet to read or a        *)
(* deadline to notice.  Traffic goes on for as long as time does: how much *)
(* of it arrives between two ticks is bounded, its total is not.  No other *)
(* process on the host sends echo requests with this process's identifier  *)
(* (its pid, 16 bits of it).                                               *)
(***************************************************************************)
EXTENDS Integers, Sequences, ProbeResult

CONSTANTS SeqMod,      \* values of the sequence field on the wire (2^16)
          Timeout,     \* --timeout
          MaxProbes,   \* bound: calls of Probe
          MaxQueue,    \* bound: packets waiting in the socket
          MaxNoise     \* bound: foreign packets and duplicates between two ticks

ASSUME IcmpAssumption ==
  /\ SeqMod \in Nat \ {0}
  /\ Timeout \in Nat \ {0}
  /\ RTTs = 0..Timeout
  /\ MaxProbes \in Nat /\ MaxQueue \in Nat /\ MaxNoise \in Nat

VARIABLES seq,         \* p.seq
          pc,          \* idle, reading
          elapsed,     \* ticks since the deadline was set, right after the request
          net,         \* replies on their way
          queue,       \* packets the socket received and nobody read
          cancelled,   \* ctx is done
          result,      \* what the latest call returned
          noise,       \* foreign packets and duplicates since the latest tick
          heard        \* history: whether this probe's reply arrived, and when

vars == <<seq, pc, elapsed, net, queue, cancelled, result, noise, heard>>

Foreign == 0

\* The sequence field is 16 bits wide: Marshal writes what fits.  The mutant
\* builds the request before p.seq++.
OnWireBefore(n) == (n - 1) % SeqMod

OnWire(n) == n % SeqMod

Reply(n) == [of |-> n, own |-> TRUE, seq |-> OnWire(n)]
Noise == [of |-> Foreign, own |-> FALSE, seq |-> 0]

\* The reply the reading loop accepts: from the target, an echo reply, with
\* this process's identifier and the sequence number of this probe, which the
\* mutant does not look at.
MatchesAnySeq(p) == p.own

Matches(p) == p.own /\ p.seq = seq

Init ==
  /\ seq = 0 /\ pc = "idle" /\ elapsed = 0
  /\ net = {} /\ queue = <<>>
  /\ cancelled = FALSE
  /\ result = DownResult
  /\ noise = 0 /\ heard = "silent"

------------------------------------------------------------------------------
\* p.seq++ comes first, whatever becomes of the request.
NextSeq == seq < MaxProbes /\ seq' = seq + 1

Send ==
  /\ pc = "idle" /\ NextSeq
  /\ net' = net \cup {Reply(seq')}
  /\ pc' = "reading"
  /\ elapsed' = 0 /\ noise' = 0 /\ heard' = "silent"
  /\ UNCHANGED <<queue, cancelled, result>>

\* The write fails, or the deadline cannot be set once it succeeded.
SendFails(err) ==
  /\ pc = "idle" /\ NextSeq
  /\ net' \in {net, net \cup {Reply(seq')}}
  /\ result' = ErrorResult(err)
  /\ elapsed' = 0 /\ heard' = "silent"
  /\ UNCHANGED <<pc, queue, cancelled, noise>>

Return(res) == pc' = "idle" /\ result' = res

ReadReply ==
  /\ pc = "reading" /\ queue # <<>> /\ Matches(Head(queue))
  /\ queue' = Tail(queue)
  /\ Return(UpResult(elapsed))
  /\ UNCHANGED <<seq, elapsed, net, cancelled, noise, heard>>

\* The deadline is set once, before the loop: a packet that is skipped leaves it where
\* it is.  The mutant sets it before every read.
RearmDeadline == elapsed' = 0

KeepDeadline == UNCHANGED elapsed

\* Not our reply, or a late or duplicated one: keep reading until the deadline.
ReadOther ==
  /\ pc = "reading" /\ queue # <<>> /\ ~Matches(Head(queue))
  /\ queue' = Tail(queue)
  /\ KeepDeadline
  /\ UNCHANGED <<seq, pc, net, cancelled, result, noise, heard>>

\* The deadline of the read.
BeforeDeadline == elapsed < Timeout

DeadlinePassed == elapsed = Timeout

\* The read deadline passed: packets still waiting are not looked at.
ReadTimeout ==
  /\ pc = "reading" /\ DeadlinePassed
  /\ Return(DownResult)
  /\ UNCHANGED <<seq, elapsed, net, queue, cancelled, noise, heard>>

\* Any other read error is operational, except during a shutdown.
ReadFails(err) ==
  /\ pc = "reading"
  /\ Return(IF cancelled THEN DownResult ELSE ErrorResult(err))
  /\ UNCHANGED <<seq, elapsed, net, queue, cancelled, noise, heard>>

------------------------------------------------------------------------------
\* A reply reaches the socket; one that arrives on the very deadline may be
\* read or may be too late.
Arrives(p) ==
  /\ Len(queue) < MaxQueue
  /\ queue' = Append(queue, p)
  /\ heard' = IF pc # "reading" \/ p.of # seq \/ heard = "inTime" THEN heard
              ELSE IF elapsed < Timeout THEN "inTime" ELSE "atDeadline"
  /\ UNCHANGED <<seq, pc, elapsed, cancelled, result>>

Deliver(p) == Arrives(p) /\ net' = net \ {p} /\ UNCHANGED noise

\* The network duplicates a reply.
Duplicate(p) ==
  /\ noise < MaxNoise
  /\ Arrives(p)
  /\ noise' = noise + 1
  /\ UNCHANGED net

Lose(p) ==
  /\ net' = net \ {p}
  /\ UNCHANGED <<seq, pc, elapsed, queue, cancelled, result, noise, heard>>

\* A raw socket receives every ICMP packet of the host.
ForeignPacket ==
  /\ noise < MaxNoise
  /\ Arrives(Noise)
  /\ noise' = noise + 1
  /\ UNCHANGED net

Cancel ==
  /\ ~cancelled
  /\ cancelled' = TRUE
  /\ UNCHANGED <<seq, pc, elapsed, net, queue, result, noise, heard>>

Tick ==
  /\ pc = "reading" /\ BeforeDeadline /\ queue = <<>>
  /\ elapsed' = elapsed + 1
  /\ noise' = 0
  /\ UNCHANGED <<seq, pc, net, queue, cancelled, result, heard>>

Read == \/ ReadReply
        \/ ReadOther
        \/ ReadTimeout
        \/ \E err \in Errs : ReadFails(err)

Network == \/ \E p \in net : Deliver(p) \/ Duplicate(p) \/ Lose(p)
           \/ ForeignPacket

Next == \/ Send
        \/ \E err \in Errs : SendFails(err)
        \/ Read
        \/ Network
        \/ Cancel
        \/ Tick

\* Time passes and the process reads what it can.
Fairness == WF_vars(Tick) /\ WF_vars(ReadReply \/ ReadOther \/ ReadTimeout)

Spec == Init /\ [][Next]_vars /\ Fairness

------------------------------------------------------------------------------
\* A host is up only on the evidence of this very probe: a reply that arrived
\* after its request and within the timeout, never a late or duplicated reply
\* to an earlier one that was still in the socket.
Answered == pc = "idle" /\ result.outcome = "up"

UpMeansAnswered == Answered => heard # "silent" /\ result.rtt <= Timeout

\* ping.go:9 "OutcomeDown - no answer within the timeout": a probe that returns
\* down in a run that was not cancelled got no reply in time.
DownMeansSilence ==
  pc = "idle" /\ seq > 0 /\ result.outcome = "down" /\ ~cancelled => heard # "inTime"

\* Every probe returns, whatever the network does: not even foreign packets and
\* duplicates that never stop arriving, some in every tick, keep the loop of
\* icmp.go:139-167 reading, because no packet moves the deadline.
ProbeReturns == pc = "reading" ~> pc = "idle"
==============================================================================
