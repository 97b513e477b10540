----------------------------- MODULE MCWatcher -----------------------------
(* Instances of Watcher for TLC. *)
EXTENDS Watcher, TLC

CONSTANTS v1, s1, p1, p2

Put(k) == [type |-> "put", key |-> k, value |-> v1, lease |-> 0]

TxnOf(ops) == [compares |-> {}, success |-> ops, failure |-> <<>>]

\* Writes of one key, and of two keys at one revision.
MCSinglePuts == {TxnOf(<<Put(1)>>)}

MCDoublePuts == {TxnOf(<<Put(1)>>), TxnOf(<<Put(1), Put(2)>>)}

\* A watch of key 1 alone is looked up by its prefix, which key 2 has too.
MCKeyName == [k \in Key |-> IF k = 1 THEN <<1>> ELSE <<1, 1>>]

Key1 == [key |-> <<1>>, end |-> <<>>]

Prefix1 == [key |-> <<1>>, end |-> <<2>>]

Watch(range, afterRev) == [range |-> range, afterRev |-> afterRev]

MCLive == {Watch(Key1, 0)}

MCReplay == {Watch(Prefix1, 2)}

MCBoth == MCLive \cup MCReplay

\* Bounds.  Partition workers hand out the first commit, as often as they like,
\* to a subscription that does not replay.  Compaction, and a third commit, come
\* only where a replay meets them, before the poll loop has done anything; so
\* neither overtakes the poll loop.  Nothing is left to check when watchLoop has
\* returned or the subscription is gone.
WorkersOrReplay ==
    /\ \A p \in Partition : out[p] # NoDispatch =>
          clock = 2 /\ compactRev = 1 /\ \A s \in Sub : sub[s].after = 0
    /\ compactRev > 1 \/ clock > 3 => poll.pc = "start"
    /\ \A s \in Sub : sub[s].pc # "gone" /\ ~told[s]

WorkerSymmetry == Permutations(Partition)

NoCompaction == compactRev = 1
=============================================================================
