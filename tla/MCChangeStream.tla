-------------------------- MODULE MCChangeStream --------------------------
(* Instances of ChangeStream for TLC. *)
EXTENDS ChangeStream, TLC

\* A write of two keys at one timestamp, and a compaction.
MCTransaction == {[keys |-> {1, 2}, row |-> TRUE], [keys |-> {1}, row |-> FALSE]}

\* A write of one key.
MCWrite == {[keys |-> {1}, row |-> TRUE]}

\* Bound: the first partition is split, in the order of the keys, and then
\* merged; it is not moved.
SplitThenMerge == owner[1] <= owner[2] /\ Len(part) # 2

\* Bound: compaction deletes rows of keys written since the model's start.
CompactedWereWritten ==
    \A r \in records : ~r.row => \E q \in records : q.row /\ q.key = r.key /\ q.rev < r.rev

\* Bound: the shutdown comes late, and in the run of a first process whose
\* queries have not broken.
LateShutdown == cancelled => clock = MaxClock /\ faults = 0

\* Bound: cursors are flushed only while a restart may still find them.
FlushBeforeRestart == faults = MaxFaults => cursor' = cursor

\* Bound: the cursors can be read.
CursorsLoad == reader.pc = "load" /\ reader'.pc = "initial" => reader'.found = cursor
=============================================================================
