--------------------------- MODULE IcmpProbeProofs ---------------------------
(***************************************************************************)
(* Proofs about the probes on one ICMP socket, for every timeout, every      *)
(* number of probes and everything the network may lose, delay or duplicate. *)
(***************************************************************************)
EXTENDS IcmpProbe, TLAPS

------------------------------------------------------------------------------
(* Which packets there are *)

\* A packet is a reply to a request that was sent, or foreign.
IsPacket(p, n) == p = Noise \/ \E k \in 1..n : p = Reply(k)

PacketsOK ==
  /\ seq \in 0..MaxProbes
  /\ pc \in {"idle", "reading"} /\ (pc = "reading" => seq > 0)
  /\ elapsed \in 0..Timeout
  /\ cancelled \in BOOLEAN
  /\ heard \in {"silent", "inTime", "atDeadline"}
  /\ queue \in Seq([of : Nat, own : BOOLEAN, seq : Nat])
  /\ \A p \in net : \E k \in 1..seq : p = Reply(k)
  /\ \A i \in 1..Len(queue) : IsPacket(queue[i], seq)

\* Which request a packet answers.
LEMMA AnswersRequest == Noise.of = 0 /\ \A k : Reply(k).of = k
BY DEF Noise, Foreign, Reply

\* A packet that matches is the reply to the latest request: the sequence number on the
\* wire never exceeds the counter it was cut from.
LEMMA MatchIsOwn ==
  ASSUME PacketsOK, NEW p, IsPacket(p, seq), Matches(p)
  PROVE  p.of = seq
<1>1. p # Noise
  BY DEF Matches, Noise
<1>2. PICK k \in 1..seq : p = Reply(k)
  BY <1>1 DEF IsPacket
<1>3. k % SeqMod = seq /\ p.of = k
  BY <1>2 DEF Matches, Reply, OnWire
<1>4. k \in Nat /\ seq \in Nat /\ k <= seq /\ SeqMod \in Nat \ {0}
  BY IcmpAssumption, <1>2 DEF PacketsOK
<1>5. k % SeqMod <= k
  BY <1>4
<1>6. QED
  BY <1>3, <1>4, <1>5

\* Before the counter wraps, the reply to the latest request matches.
LEMMA OwnMatches ==
  ASSUME PacketsOK, seq < SeqMod, seq > 0
  PROVE  Matches(Reply(seq))
<1>1. seq % SeqMod = seq
  BY IcmpAssumption DEF PacketsOK
<1>2. QED
  BY <1>1 DEF Matches, Reply, OnWire

\* Replies are packets of the socket's kind.
LEMMA ReplyType ==
  ASSUME NEW k \in Nat
  PROVE  Reply(k) \in [of : Nat, own : BOOLEAN, seq : Nat]
BY IcmpAssumption DEF Reply, OnWire

LEMMA PacketsInit == Init => PacketsOK
<1> SUFFICES ASSUME Init PROVE PacketsOK
  OBVIOUS
<1>1. queue = <<>> /\ net = {} /\ queue \in Seq([of : Nat, own : BOOLEAN, seq : Nat])
  BY DEF Init
<1>2. seq = 0 /\ elapsed = 0 /\ seq \in 0..MaxProbes /\ elapsed \in 0..Timeout
  BY IcmpAssumption DEF Init
<1>3. Len(queue) = 0
  BY <1>1
<1>4. /\ \A p \in net : \E k \in 1..seq : p = Reply(k)
      /\ \A i \in 1..Len(queue) : IsPacket(queue[i], seq)
  BY <1>1, <1>3
<1>5. pc = "idle" /\ cancelled = FALSE /\ heard = "silent"
  BY DEF Init
<1>6. QED
  BY <1>1, <1>2, <1>4, <1>5 DEF PacketsOK

\* What an arriving packet does to the queue.
LEMMA ArrivalOK ==
  ASSUME PacketsOK, NEW p, IsPacket(p, seq), Arrives(p)
  PROVE  /\ queue' \in Seq([of : Nat, own : BOOLEAN, seq : Nat])
         /\ \A i \in 1..Len(queue') : IsPacket(queue'[i], seq)
         /\ heard' \in {"silent", "inTime", "atDeadline"}
         /\ UNCHANGED <<seq, pc, elapsed, cancelled, result>>
<1>1. p \in [of : Nat, own : BOOLEAN, seq : Nat]
  <2>1. Noise \in [of : Nat, own : BOOLEAN, seq : Nat]
    BY DEF Noise, Foreign
  <2>2. \A k \in 1..seq : Reply(k) \in [of : Nat, own : BOOLEAN, seq : Nat]
    <3>1. seq \in Nat
      BY IcmpAssumption DEF PacketsOK
    <3>2. \A k \in 1..seq : k \in Nat
      BY <3>1
    <3>3. QED
      BY <3>2, ReplyType
  <2>3. QED
    BY <2>1, <2>2 DEF IsPacket
<1>2. queue' = Append(queue, p)
  BY DEF Arrives
<1>3. /\ queue' \in Seq([of : Nat, own : BOOLEAN, seq : Nat])
      /\ Len(queue') = Len(queue) + 1 /\ queue'[Len(queue) + 1] = p
      /\ \A i \in 1..Len(queue) : queue'[i] = queue[i]
  BY <1>1, <1>2 DEF PacketsOK
<1>4. \A i \in 1..Len(queue') : IsPacket(queue'[i], seq)
  <2>1. SUFFICES ASSUME NEW i \in 1..Len(queue') PROVE IsPacket(queue'[i], seq)
    OBVIOUS
  <2>2. i \in 1..Len(queue) \/ i = Len(queue) + 1
    BY <1>3 DEF PacketsOK
  <2>3. QED
    BY <1>3, <2>2 DEF PacketsOK
<1>5. QED
  BY <1>3, <1>4 DEF Arrives, PacketsOK

\* What reading does to it.
LEMMA TailOK ==
  ASSUME PacketsOK, queue # <<>>, queue' = Tail(queue)
  PROVE  /\ queue' \in Seq([of : Nat, own : BOOLEAN, seq : Nat])
         /\ Len(queue') = Len(queue) - 1
         /\ \A i \in 1..Len(queue') : queue'[i] = queue[i + 1]
         /\ \A i \in 1..Len(queue') : IsPacket(queue'[i], seq)
<1>1. /\ queue' \in Seq([of : Nat, own : BOOLEAN, seq : Nat])
      /\ Len(queue') = Len(queue) - 1 /\ Len(queue) \in Nat
      /\ \A i \in 1..Len(queue') : queue'[i] = queue[i + 1]
  BY DEF PacketsOK
<1>2. \A i \in 1..Len(queue') : i + 1 \in 1..Len(queue)
  BY <1>1
<1>3. QED
  BY <1>1, <1>2 DEF PacketsOK

LEMMA PacketsNext ==
  ASSUME PacketsOK, [Next]_vars
  PROVE  PacketsOK'
<1> USE IcmpAssumption
<1>1. CASE UNCHANGED vars
  BY <1>1 DEF vars, PacketsOK
<1>2. ASSUME NextSeq, net' \subseteq net \cup {Reply(seq')}, UNCHANGED <<queue, cancelled>>,
             pc' \in {"idle", "reading"}, elapsed' = 0, heard' = "silent"
      PROVE  PacketsOK'
  <2>1. seq' = seq + 1 /\ seq' \in 0..MaxProbes /\ seq \in 0..MaxProbes
    BY <1>2 DEF NextSeq, PacketsOK
  <2>2. 1..seq \subseteq 1..seq' /\ seq' \in 1..seq'
    BY <2>1
  <2>3. \A p \in net' : \E k \in 1..seq' : p = Reply(k)
    BY <1>2, <2>2 DEF PacketsOK
  <2>4. \A i \in 1..Len(queue) : IsPacket(queue[i], seq')
    BY <2>2 DEF PacketsOK, IsPacket
  <2>5. QED
    BY <1>2, <2>1, <2>3, <2>4 DEF PacketsOK
<1>3. CASE Send
  BY <1>2, <1>3 DEF Send
<1>4. ASSUME NEW err \in Errs, SendFails(err)
      PROVE  PacketsOK'
  BY <1>2, <1>4 DEF SendFails, PacketsOK
<1>5. CASE Read
  <2>1. CASE queue # <<>> /\ queue' = Tail(queue)
    BY <1>5, <2>1, TailOK
       DEF Read, ReadReply, ReadOther, KeepDeadline, ReadTimeout, ReadFails, Return, PacketsOK
  <2>2. CASE queue' = queue
    BY <1>5, <2>2
       DEF Read, ReadReply, ReadOther, KeepDeadline, ReadTimeout, ReadFails, Return, PacketsOK
  <2>3. QED
    BY <1>5, <2>1, <2>2 DEF Read, ReadReply, ReadOther, ReadTimeout, ReadFails
<1>6. CASE Network
  <2>1. ASSUME NEW p, IsPacket(p, seq), Arrives(p), net' \subseteq net
        PROVE  PacketsOK'
    BY <2>1, ArrivalOK DEF PacketsOK
  <2>2. \A p \in net : IsPacket(p, seq)
    BY DEF PacketsOK, IsPacket
  <2>3. ASSUME NEW p \in net, Lose(p)
        PROVE  PacketsOK'
    BY <2>3 DEF Lose, PacketsOK
  <2>4. IsPacket(Noise, seq)
    BY DEF IsPacket
  <2>5. QED
    BY <1>6, <2>1, <2>2, <2>3, <2>4 DEF Network, Deliver, Duplicate, ForeignPacket
<1>7. CASE Cancel
  BY <1>7 DEF Cancel, PacketsOK
<1>8. CASE Tick
  BY <1>8 DEF Tick, BeforeDeadline, PacketsOK
<1>9. QED
  BY <1>1, <1>3, <1>4, <1>5, <1>6, <1>7, <1>8 DEF Next

------------------------------------------------------------------------------
(* Up *)

\* The reply to the probe that is waiting is in the socket only if it was heard.
UpInv ==
  /\ UpMeansAnswered
  /\ pc = "reading" => \A i \in 1..Len(queue) : queue[i].of = seq => heard # "silent"

LEMMA UpStep ==
  ASSUME PacketsOK, UpInv, [Next]_vars
  PROVE  UpInv'
<1>1. CASE UNCHANGED vars
  BY <1>1 DEF vars, UpInv, UpMeansAnswered, Answered
<1>2. CASE Send
  <2>1. seq' = seq + 1 /\ queue' = queue /\ pc' = "reading" /\ seq \in Nat
    BY <1>2, IcmpAssumption DEF Send, NextSeq, PacketsOK
  <2>2. \A i \in 1..Len(queue) : queue[i].of # seq + 1
    <3>1. SUFFICES ASSUME NEW i \in 1..Len(queue) PROVE queue[i].of # seq + 1
      OBVIOUS
    <3>2. queue[i].of = 0 \/ \E k \in 1..seq : queue[i].of = k
      BY AnswersRequest DEF PacketsOK, IsPacket
    <3>3. QED
      BY <2>1, <3>2
  <2>3. QED
    BY <2>1, <2>2 DEF UpInv, UpMeansAnswered, Answered
<1>3. ASSUME NEW err \in Errs, SendFails(err)
      PROVE  UpInv'
  BY <1>3 DEF SendFails, UpInv, UpMeansAnswered, Answered, ErrorResult
<1>4. CASE ReadReply
  <2>1. pc = "reading" /\ pc' = "idle" /\ result' = UpResult(elapsed) /\ heard' = heard
    BY <1>4 DEF ReadReply, Return
  <2>2. queue # <<>> /\ queue \in Seq([of : Nat, own : BOOLEAN, seq : Nat]) /\ Matches(Head(queue))
    BY <1>4 DEF ReadReply, PacketsOK
  <2>3. 1 \in 1..Len(queue) /\ Head(queue) = queue[1]
    BY <2>2
  <2>4. queue[1].of = seq
    BY <2>2, <2>3, MatchIsOwn DEF PacketsOK
  <2>5. heard # "silent" /\ elapsed <= Timeout
    BY <2>1, <2>3, <2>4, IcmpAssumption DEF UpInv, PacketsOK
  <2>6. result'.rtt = elapsed
    BY <2>1 DEF UpResult
  <2>7. QED
    BY <2>1, <2>5, <2>6 DEF UpInv, UpMeansAnswered, Answered
<1>5. CASE ReadOther
  <2>1. pc = "reading" /\ UNCHANGED <<pc, seq, heard, result>>
        /\ \A i \in 1..Len(queue') : queue'[i] = queue[i + 1] /\ i + 1 \in 1..Len(queue)
    <3>1. queue # <<>> /\ queue' = Tail(queue) /\ Len(queue) \in Nat
      BY <1>5 DEF ReadOther, PacketsOK
    <3>2. QED
      BY <1>5, <3>1, TailOK DEF ReadOther
  <2>2. QED
    BY <2>1 DEF UpInv, UpMeansAnswered, Answered
<1>6. CASE ReadTimeout
  BY <1>6 DEF ReadTimeout, Return, DownResult, UpInv, UpMeansAnswered, Answered
<1>7. ASSUME NEW err \in Errs, ReadFails(err)
      PROVE  UpInv'
  BY <1>7 DEF ReadFails, Return, DownResult, ErrorResult, UpInv, UpMeansAnswered, Answered
<1>8. ASSUME NEW p, Arrives(p)
      PROVE  UpInv'
  <2>1. /\ UNCHANGED <<seq, pc, result>> /\ queue' = Append(queue, p)
        /\ heard' = IF pc # "reading" \/ p.of # seq \/ heard = "inTime" THEN heard
                    ELSE IF elapsed < Timeout THEN "inTime" ELSE "atDeadline"
    BY <1>8 DEF Arrives
  <2>2. heard # "silent" => heard' # "silent"
    BY <2>1
  <2>3. pc = "reading" /\ p.of = seq => heard' # "silent"
    BY <2>1
  <2>4. \A i \in 1..Len(queue') : queue'[i] = p \/ (i \in 1..Len(queue) /\ queue'[i] = queue[i])
    <3>1. queue \in Seq([of : Nat, own : BOOLEAN, seq : Nat])
      BY DEF PacketsOK
    <3>2. QED
      BY <2>1, <3>1
  <2>5. QED
    BY <2>1, <2>2, <2>3, <2>4 DEF UpInv, UpMeansAnswered, Answered
<1>9. ASSUME NEW p, Lose(p)
      PROVE  UpInv'
  BY <1>9 DEF Lose, UpInv, UpMeansAnswered, Answered
<1>10. CASE Cancel
  BY <1>10 DEF Cancel, UpInv, UpMeansAnswered, Answered
<1>11. CASE Tick
  BY <1>11 DEF Tick, UpInv, UpMeansAnswered, Answered
<1>12. QED
  BY <1>1, <1>2, <1>3, <1>4, <1>5, <1>6, <1>7, <1>8, <1>9, <1>10, <1>11
     DEF Next, Read, Network, Deliver, Duplicate, ForeignPacket

\* Up is said only of a host whose reply to this very probe was heard, within the
\* timeout, also after the counter has wrapped.
THEOREM UpMeansAnsweredCorrect == Spec => []UpMeansAnswered
<1>1. Init => UpInv
  BY DEF Init, UpInv, UpMeansAnswered, Answered, DownResult
<1>2. UpInv => UpMeansAnswered
  BY DEF UpInv
<1>3. QED
  BY <1>1, <1>2, PacketsInit, PacketsNext, UpStep, PTL DEF Spec

------------------------------------------------------------------------------
(* Down *)

\* A reply that came in time waits in the socket, and the process reads it before time
\* goes on.
DownInv ==
  /\ DownMeansSilence
  /\ pc = "reading" /\ heard = "inTime" =>
       elapsed < Timeout /\ \E i \in 1..Len(queue) : Matches(queue[i])

LEMMA DownStep ==
  ASSUME PacketsOK, DownInv, [Next]_vars, MaxProbes < SeqMod
  PROVE  DownInv'
<1>1. CASE UNCHANGED vars
  BY <1>1 DEF vars, DownInv, DownMeansSilence, Matches
<1>2. CASE Send
  BY <1>2 DEF Send, DownInv, DownMeansSilence
<1>3. ASSUME NEW err \in Errs, SendFails(err)
      PROVE  DownInv'
  <2>1. pc' = "idle" /\ result'.outcome = "error"
    BY <1>3 DEF SendFails, ErrorResult
  <2>2. QED
    BY <2>1 DEF DownInv, DownMeansSilence
<1>4. CASE ReadReply
  BY <1>4 DEF ReadReply, Return, UpResult, DownInv, DownMeansSilence
<1>5. CASE ReadOther
  <2>1. pc = "reading" /\ queue # <<>> /\ ~Matches(Head(queue)) /\ queue' = Tail(queue)
        /\ UNCHANGED <<seq, pc, elapsed, cancelled, result, heard>>
    BY <1>5 DEF ReadOther, KeepDeadline
  <2>2. ASSUME heard = "inTime"
        PROVE  \E i \in 1..Len(queue') : Matches(queue'[i])
    <3>1. PICK i \in 1..Len(queue) : Matches(queue[i])
      BY <2>1, <2>2 DEF DownInv
    <3>2. /\ queue \in Seq([of : Nat, own : BOOLEAN, seq : Nat]) /\ Len(queue) \in Nat
          /\ Head(queue) = queue[1]
      BY <2>1 DEF PacketsOK
    <3>3. i # 1
      BY <2>1, <3>1, <3>2
    <3>4. i - 1 \in 1..Len(queue') /\ queue'[i - 1] = queue[i]
      BY <2>1, <3>1, <3>2, <3>3, TailOK
    <3>5. QED
      BY <3>1, <3>4
  <2>3. QED
    BY <2>1, <2>2 DEF DownInv, DownMeansSilence, Matches
<1>6. CASE ReadTimeout
  <2>1. pc = "reading" /\ pc' = "idle" /\ elapsed = Timeout /\ heard' = heard
    BY <1>6 DEF ReadTimeout, Return, DeadlinePassed
  <2>2. heard # "inTime"
    BY <2>1, IcmpAssumption DEF DownInv
  <2>3. QED
    BY <2>1, <2>2 DEF DownInv, DownMeansSilence
<1>7. ASSUME NEW err \in Errs, ReadFails(err)
      PROVE  DownInv'
  BY <1>7 DEF ReadFails, Return, ErrorResult, DownInv, DownMeansSilence
<1>8. ASSUME NEW p, IsPacket(p, seq), Arrives(p)
      PROVE  DownInv'
  <2>1. /\ UNCHANGED <<seq, pc, elapsed, cancelled, result>> /\ queue' = Append(queue, p)
        /\ heard' = IF pc # "reading" \/ p.of # seq \/ heard = "inTime" THEN heard
                    ELSE IF elapsed < Timeout THEN "inTime" ELSE "atDeadline"
    BY <1>8 DEF Arrives
  <2>2. queue \in Seq([of : Nat, own : BOOLEAN, seq : Nat]) /\ Len(queue) \in Nat
    BY DEF PacketsOK
  <2>3. /\ Len(queue') = Len(queue) + 1 /\ queue'[Len(queue) + 1] = p
        /\ \A i \in 1..Len(queue) : queue'[i] = queue[i]
    BY <2>1, <2>2
  <2>4. CASE pc # "reading"
    BY <2>1, <2>4 DEF DownInv, DownMeansSilence
  <2>5. ASSUME pc = "reading", heard' = "inTime"
        PROVE  elapsed < Timeout /\ \E i \in 1..Len(queue') : Matches(queue'[i])
    <3>1. CASE heard = "inTime"
      <4>1. PICK i \in 1..Len(queue) : Matches(queue[i])
        BY <2>5, <3>1 DEF DownInv
      <4>2. i \in 1..Len(queue') /\ queue'[i] = queue[i]
        BY <2>2, <2>3, <4>1
      <4>3. QED
        BY <2>5, <3>1, <4>1, <4>2 DEF DownInv
    <3>2. CASE heard # "inTime"
      <4>1. p.of = seq /\ elapsed < Timeout
        BY <2>1, <2>5, <3>2
      <4>2. seq > 0 /\ seq < SeqMod /\ seq \in Nat
        BY <2>5, IcmpAssumption DEF PacketsOK
      <4>3. p = Reply(seq)
        <5>1. p # Noise
          BY <4>1, <4>2, AnswersRequest
        <5>2. PICK k \in 1..seq : p = Reply(k)
          BY <1>8, <5>1 DEF IsPacket
        <5>3. k = seq
          BY <4>1, <5>2, AnswersRequest
        <5>4. QED
          BY <5>2, <5>3
      <4>4. Matches(p)
        BY <4>2, <4>3, OwnMatches
      <4>5. Len(queue) + 1 \in 1..Len(queue')
        BY <2>2, <2>3
      <4>6. QED
        BY <2>3, <4>1, <4>4, <4>5
    <3>3. QED
      BY <3>1, <3>2
  <2>6. QED
    BY <2>1, <2>4, <2>5 DEF DownInv, DownMeansSilence, Matches
<1>9. ASSUME NEW p, Lose(p)
      PROVE  DownInv'
  BY <1>9 DEF Lose, DownInv, DownMeansSilence, Matches
<1>10. CASE Cancel
  BY <1>10 DEF Cancel, DownInv, DownMeansSilence, Matches
<1>11. CASE Tick
  <2>1. Len(queue) = 0
    BY <1>11 DEF Tick
  <2>2. heard # "inTime"
    BY <1>11, <2>1 DEF Tick, DownInv
  <2>3. QED
    BY <1>11, <2>2 DEF Tick, DownInv, DownMeansSilence
<1>12. \A p \in net : IsPacket(p, seq)
  BY DEF PacketsOK, IsPacket
<1>13. IsPacket(Noise, seq)
  BY DEF IsPacket
<1>14. QED
  BY <1>1, <1>2, <1>3, <1>4, <1>5, <1>6, <1>7, <1>8, <1>9, <1>10, <1>11, <1>12, <1>13
     DEF Next, Read, Network, Deliver, Duplicate, ForeignPacket

\* As long as the counter does not wrap, down means that no reply came in time; the run
\* icmp_wrap shows that the condition is needed.
THEOREM DownMeansSilenceCorrect ==
  ASSUME MaxProbes < SeqMod
  PROVE  Spec => []DownMeansSilence
<1>1. Init => DownInv
  BY DEF Init, DownInv, DownMeansSilence
<1>2. DownInv => DownMeansSilence
  BY DEF DownInv
<1>3. PacketsOK /\ DownInv /\ [Next]_vars => DownInv'
  BY DownStep
<1>4. QED
  BY <1>1, <1>2, <1>3, PacketsInit, PacketsNext, PTL DEF Spec

==============================================================================
