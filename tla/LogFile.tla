------------------------------- MODULE LogFile -------------------------------
(***************************************************************************)
(* The file of the status log (internal/logx/logx.go): runs of dohping that  *)
(* append their entries to one file, each entry written and then synced.  A  *)
(* write may be short and be completed later or not at all, a sync may fail, *)
(* a process may be killed and the machine may crash; Main goes on after an  *)
(* error as if there had been none (logEvent, logFinal).                     *)
(*                                                                         *)
(* The text of an entry is two pieces, of which the second ends the line.    *)
(***************************************************************************)
EXTENDS Integers, Sequences, FiniteSets

CONSTANTS Procs,        \* the processes that have the file for their --log-file
          MaxEntries,   \* bound: entries of each of them
          MaxOpens,     \* bound: how often each of them is started
          MaxFaults,    \* bound: short writes, failed writes and failed syncs
          MaxCrashes    \* bound: processes killed, and crashes of the machine

ASSUME LogFileAssumption ==
  /\ MaxEntries \in Nat /\ MaxOpens \in Nat /\ MaxFaults \in Nat /\ MaxCrashes \in Nat

VARIABLES file,      \* the pieces in the file
          pc,        \* where each process is: off, open, writing, syncing
          rest,      \* what Log has still to write
          opens,     \* how often each process was started
          logged,    \* how many entries each process has begun to log
          acked,     \* history: entries for which Log returned nil
          short,     \* history: entries of which a write was short
          faults, crashes

vars == <<file, pc, rest, opens, logged, acked, short, faults, crashes>>

------------------------------------------------------------------------------
(* The text of an entry *)

\* A piece belongs to the entry <<p, n>>, the n-th of process p; the last one has
\* the end of the line; safe: it is on the disk.
Piece(entry, end) == [entry |-> entry, end |-> end, safe |-> FALSE]

\* What a crash leaves of a piece that was not on the disk.
Hole == [entry |-> <<>>, end |-> FALSE, safe |-> TRUE]

\* textLine and jsonLine: one line, whatever the format; the mutant leaves out its
\* end.
LineOpen(entry) == <<Piece(entry, FALSE), Piece(entry, FALSE)>>

Line(entry) == <<Piece(entry, FALSE), Piece(entry, TRUE)>>

------------------------------------------------------------------------------
(* A process *)

\* A run starts: the file is created or its end sought.
Open(p) ==
  /\ pc[p] = "off" /\ opens[p] < MaxOpens
  /\ pc' = [pc EXCEPT ![p] = "open"]
  /\ opens' = [opens EXCEPT ![p] = @ + 1]
  /\ UNCHANGED <<file, rest, logged, acked, short, faults, crashes>>

\* logEvent or logFinal calls Log.
Log(p) ==
  /\ pc[p] = "open" /\ logged[p] < MaxEntries
  /\ logged' = [logged EXCEPT ![p] = @ + 1]
  /\ rest' = [rest EXCEPT ![p] = Line(<<p, logged[p] + 1>>)]
  /\ pc' = [pc EXCEPT ![p] = "writing"]
  /\ UNCHANGED <<file, opens, acked, short, faults, crashes>>

\* O_APPEND: one write goes to the end, whoever else has written.
AppendTo(pieces) == file \o pieces

\* WriteString writes until nothing is left,
Write(p) ==
  /\ pc[p] = "writing"
  /\ file' = AppendTo(rest[p])
  /\ rest' = [rest EXCEPT ![p] = <<>>]
  /\ pc' = [pc EXCEPT ![p] = "syncing"]
  /\ UNCHANGED <<opens, logged, acked, short, faults, crashes>>

\* also after a write that took only a part,
WriteShort(p) ==
  /\ pc[p] = "writing" /\ Len(rest[p]) > 1 /\ faults < MaxFaults
  /\ file' = AppendTo(<<Head(rest[p])>>)
  /\ rest' = [rest EXCEPT ![p] = Tail(@)]
  /\ short' = short \cup {rest[p][1].entry}
  /\ faults' = faults + 1
  /\ UNCHANGED <<pc, opens, logged, acked, crashes>>

\* or until a write fails: what was written stays, and the entry is given up.
WriteFails(p) ==
  /\ pc[p] = "writing" /\ faults < MaxFaults
  /\ rest' = [rest EXCEPT ![p] = <<>>]
  /\ pc' = [pc EXCEPT ![p] = "open"]
  /\ faults' = faults + 1
  /\ UNCHANGED <<file, opens, logged, acked, short, crashes>>

\* f.Sync: the file, with what others wrote, is on the disk; the mutant forgets it.
SyncedNothing == file

Synced == [i \in DOMAIN file |-> [file[i] EXCEPT !.safe = TRUE]]

Sync(p) ==
  /\ pc[p] = "syncing"
  /\ file' = Synced
  /\ acked' = acked \cup {<<p, logged[p]>>}
  /\ pc' = [pc EXCEPT ![p] = "open"]
  /\ UNCHANGED <<rest, opens, logged, short, faults, crashes>>

SyncFails(p) ==
  /\ pc[p] = "syncing" /\ faults < MaxFaults
  /\ pc' = [pc EXCEPT ![p] = "open"]
  /\ faults' = faults + 1
  /\ UNCHANGED <<file, rest, opens, logged, acked, short, crashes>>

\* The run ends, and its file is closed.
Close(p) ==
  /\ pc[p] = "open"
  /\ pc' = [pc EXCEPT ![p] = "off"]
  /\ UNCHANGED <<file, rest, opens, logged, acked, short, faults, crashes>>

------------------------------------------------------------------------------
(* Crashes *)

\* A process is killed wherever it is; what it wrote is the system's.
Kill(p) ==
  /\ pc[p] # "off" /\ crashes < MaxCrashes
  /\ pc' = [pc EXCEPT ![p] = "off"]
  /\ rest' = [rest EXCEPT ![p] = <<>>]
  /\ crashes' = crashes + 1
  /\ UNCHANGED <<file, opens, logged, acked, short, faults>>

\* Each piece that is not on the disk survives or not, and the file ends behind
\* all that are, or later.
Crash ==
  /\ crashes < MaxCrashes
  /\ \E n \in 0..Len(file), gone \in SUBSET {i \in DOMAIN file : ~file[i].safe} :
       /\ \A i \in DOMAIN file : file[i].safe => i <= n
       /\ file' = [i \in 1..n |-> IF i \in gone THEN Hole ELSE [file[i] EXCEPT !.safe = TRUE]]
  /\ pc' = [p \in Procs |-> "off"]
  /\ rest' = [p \in Procs |-> <<>>]
  /\ crashes' = crashes + 1
  /\ UNCHANGED <<opens, logged, acked, short, faults>>

------------------------------------------------------------------------------
Init ==
  /\ file = <<>>
  /\ pc = [p \in Procs |-> "off"]
  /\ rest = [p \in Procs |-> <<>>]
  /\ opens = [p \in Procs |-> 0]
  /\ logged = [p \in Procs |-> 0]
  /\ acked = {} /\ short = {}
  /\ faults = 0 /\ crashes = 0

Next == \/ \E p \in Procs : \/ Open(p) \/ Log(p)
                            \/ Write(p) \/ WriteShort(p) \/ WriteFails(p)
                            \/ Sync(p) \/ SyncFails(p)
                            \/ Close(p) \/ Kill(p)
        \/ Crash

Spec == Init /\ [][Next]_vars

------------------------------------------------------------------------------
(* Properties *)

\* Where the pieces of an entry are.
Places(entry) == {i \in DOMAIN file : file[i].entry = entry}

\* The entry stands in a line of its own.
OwnLine(entry) ==
  \E i \in DOMAIN file :
    /\ i = 1 \/ file[i - 1].end
    /\ i < Len(file) /\ Places(entry) = {i, i + 1} /\ file[i + 1].end

\* logx.go:52 "a completed event is never lost to a later crash": all of an entry
\* for which Log returned nil stays in the file, on the disk, and behind the
\* entries that its process completed before, whatever is killed, crashes or fails
\* afterwards and whoever else appends.
AckedDurable ==
  /\ \A e \in acked : /\ Cardinality(Places(e)) = 2
                      /\ \A i \in Places(e) : file[i].safe
  /\ \A e, f \in acked :
       e[1] = f[1] /\ e[2] < f[2] => \A i \in Places(e), j \in Places(f) : i < j

\* logx.go:76 "one event per line": a completed entry shares its line only where
\* its own write was short, or behind the one fragment that a failed write or a
\* crash left at the end of the file; a fault never spoils what is already there.
DamageBounded ==
  \A e \in acked :
    \/ OwnLine(e)
    \/ e \in short
    \/ \E i \in Places(e) : i > 1 /\ ~file[i - 1].end /\ file[i - 1].entry \notin (acked \ short)
==============================================================================
