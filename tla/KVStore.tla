------------------------------ MODULE KVStore ------------------------------
(***************************************************************************)
(* The storage core of spanner-etcd (pkg/store/store.go): the append-only  *)
(* table kv, the compaction revision kept in kv_rev, the read-write        *)
(* transactions that append rows, and the compaction passes, manual and    *)
(* automatic, that delete superseded rows in the background.               *)
(*                                                                         *)
(* Spanner runs a read-write transaction serializably and stamps all the   *)
(* rows it inserts with one commit timestamp, so a transaction is one      *)
(* step.  A compaction pass is not a transaction: each of its reads and    *)
(* its deletes is a step of its own, interleaved with everything else.     *)
(* Replicas share nothing but the tables, so a client of any replica takes *)
(* the same steps; each compaction pass in progress, on whichever replica, *)
(* is a member of Pass.                                                    *)
(***************************************************************************)
EXTENDS Integers, Sequences, FiniteSets

CONSTANTS
    Key,              \* the keys clients use
    Value,            \* the values clients write
    NoValue,          \* the nil []byte of a tombstone or of a first write
    Lease,            \* lease ids clients attach to keys; 0 is "no lease"
    TxnRequest,       \* the multi-key transactions clients submit
    Pass,             \* compaction passes that may be in progress at once
    AutoCompactAge,   \* revisions of history automatic compaction keeps
    CompactBatchSize, \* rows per delete batch (compactBatchSize)
    MaxRev            \* bound: no commit timestamp exceeds it

Revision == 0..MaxRev

LeaseOrNone == Lease \cup {0}

TxnOp == [type : {"put", "delete", "get"},
          key : Key, value : Value, lease : LeaseOrNone]

\* A compare holds when the key's mod revision is modRev (0: key is absent).
TxnCompare == [key : Key, modRev : Revision]

ASSUME StoreAssumption ==
    /\ MaxRev \in Nat \ {0}
    /\ AutoCompactAge \in Nat
    /\ CompactBatchSize \in Nat \ {0}
    /\ Lease \subseteq Nat \ {0}
    /\ NoValue \notin Value

ASSUME TxnAssumption ==
    \A t \in TxnRequest :
        /\ t.compares \subseteq TxnCompare
        /\ t.success \in Seq(TxnOp)
        /\ t.failure \in Seq(TxnOp)

VARIABLES
    kv,          \* the rows of table kv
    compactRev,  \* the compaction revision in table kv_rev
    clock,       \* the last commit timestamp Spanner handed out
    pass,        \* pass[p]: where compaction pass p stands
    written      \* history: every row ever inserted into kv

tables == <<kv, compactRev, clock, written>>

vars == <<kv, compactRev, clock, pass, written>>

Row == [rev : Revision, key : Key,
        value : Value \cup {NoValue}, oldValue : Value \cup {NoValue},
        lease : LeaseOrNone, deleted : BOOLEAN, created : BOOLEAN,
        createRev : Revision, prevRev : Revision]

Target == 0..(MaxRev + 1)

PassState == [pc : {"idle", "effective", "raise", "record", "scan", "delete"},
              target : Target, batch : SUBSET Row]

-----------------------------------------------------------------------------
(* Queries. *)

\* The rows of key k in table t that no row of k is newer than.
NewestRows(t, k) ==
    {r \in t : r.key = k /\ \A s \in t : s.key = k => s.rev <= r.rev}

\* The current row of k if k is live; the empty set stands for nil.
getLatestTxn(k) == {r \in NewestRows(kv, k) : ~r.deleted}

keyExistsTxn(k) == \E r \in NewestRows(kv, k) : ~r.deleted

\* Variant: the revision the next write will get.
CurrentRevisionNext ==
    IF kv = {} THEN 1
    ELSE 1 + CHOOSE n \in {r.rev : r \in kv} : \A r \in kv : r.rev <= n

\* The largest revision in kv; 1 when the table is empty.
CurrentRevision ==
    IF kv = {} THEN 1
    ELSE CHOOSE n \in {r.rev : r \in kv} : \A r \in kv : r.rev <= n

-----------------------------------------------------------------------------
(* Rows a transaction inserts. *)

\* The commit timestamp of the transaction that commits next: unique, and
\* increasing with commit order.
CommitTimestamp == clock + 1

CreatedRow(k, v, l) ==
    [rev |-> CommitTimestamp, key |-> k, value |-> v, oldValue |-> NoValue,
     lease |-> l,
     deleted |-> FALSE, created |-> TRUE,
     createRev |-> CommitTimestamp, prevRev |-> 0]

\* Variant: an update starts a new lifetime.
UpdatedRowAnew(prev, v, l) ==
    [rev |-> CommitTimestamp, key |-> prev.key, value |-> v, oldValue |-> prev.value,
     lease |-> l, deleted |-> FALSE, created |-> FALSE,
     createRev |-> CommitTimestamp, prevRev |-> prev.rev]

UpdatedRow(prev, v, l) ==
    [rev |-> CommitTimestamp, key |-> prev.key, value |-> v, oldValue |-> prev.value,
     lease |-> l, deleted |-> FALSE, created |-> FALSE,
     createRev |-> prev.createRev, prevRev |-> prev.rev]

Tombstone(prev) ==
    [rev |-> CommitTimestamp, key |-> prev.key, value |-> NoValue,
     oldValue |-> prev.value, lease |-> 0, deleted |-> TRUE, created |-> FALSE,
     createRev |-> prev.createRev, prevRev |-> prev.rev]

\* Commit a read-write transaction that inserts rows.
Commit(rows) ==
    /\ clock < MaxRev
    /\ clock' = CommitTimestamp
    /\ kv' = kv \cup rows
    /\ written' = written \cup rows
    /\ UNCHANGED <<compactRev, pass>>

-----------------------------------------------------------------------------
(* Single-key transactions.  One that returns an error changes nothing. *)

\* Variant: the key is not looked up first.
CreateUnchecked(k, v, l) == Commit({CreatedRow(k, v, l)})

Create(k, v, l) ==
    /\ ~keyExistsTxn(k)
    /\ Commit({CreatedRow(k, v, l)})

Update(k, v, revision, l) ==
    \E prev \in getLatestTxn(k) :
        /\ prev.rev = revision
        /\ Commit({UpdatedRow(prev, v, l)})

Delete(k, revision) ==
    \E prev \in getLatestTxn(k) :
        /\ revision = 0 \/ prev.rev = revision
        /\ Commit({Tombstone(prev)})

DeleteIfLease(k, l) ==
    \E prev \in getLatestTxn(k) :
        /\ prev.lease = l
        /\ Commit({Tombstone(prev)})

-----------------------------------------------------------------------------
(* AtomicTxn: compares, then one branch of operations, in one transaction. *)

Evaluate(c) ==
    IF getLatestTxn(c.key) = {} THEN c.modRev = 0
    ELSE \A r \in getLatestTxn(c.key) : r.rev = c.modRev

Branch(t) == IF \A c \in t.compares : Evaluate(c) THEN t.success ELSE t.failure

Mutates(op) == op.type \in {"put", "delete"}

DuplicateMutation(ops) ==
    \E i, j \in DOMAIN ops :
        i # j /\ Mutates(ops[i]) /\ Mutates(ops[j]) /\ ops[i].key = ops[j].key

\* The rows one operation inserts.  Every operation reads the table as it was
\* when the transaction began: buffered writes are not visible to reads.
OpRows(op) ==
    CASE op.type = "get" -> {}
      [] op.type = "put" ->
            IF keyExistsTxn(op.key)
            THEN {UpdatedRow(prev, op.value, op.lease) :
                    prev \in getLatestTxn(op.key)}
            ELSE {CreatedRow(op.key, op.value, op.lease)}
      [] op.type = "delete" ->
            {Tombstone(prev) : prev \in getLatestTxn(op.key)}

AtomicTxn(t) ==
    LET ops == Branch(t)
        rows == UNION {OpRows(ops[i]) : i \in DOMAIN ops}
    IN  /\ ~DuplicateMutation(ops)
        /\ rows # {}
        /\ Commit(rows)

-----------------------------------------------------------------------------
(* Compaction.  kv_rev is advanced first, rows are deleted afterwards. *)

Max2(a, b) == IF a < b THEN b ELSE a

\* Variants: the revision is overwritten; it is not recorded.
RecordCompactRevBlindly(target) == compactRev' = target

RecordCompactRevNever(target) == UNCHANGED compactRev

\* Advance kv_rev unless it is already at or beyond the target.
RecordCompactRev(target) == compactRev' = Max2(compactRev, target)

Goto(p, pc, target, batch) ==
    pass' = [pass EXCEPT ![p] = [pc |-> pc, target |-> target, batch |-> batch]]

\* A client's Compact: the transaction on kv_rev.
Compact(p, target) ==
    /\ pass[p].pc = "idle"
    /\ RecordCompactRev(target)
    /\ Goto(p, "effective", target, {})
    /\ UNCHANGED <<kv, clock, written>>

\* Its second read of kv_rev, which may raise the revision rows are deleted
\* up to.  The read may fail; the target is then kept.
CompactEffective(p) ==
    /\ pass[p].pc = "effective"
    /\ \E stored \in {0, compactRev} :
            Goto(p, "scan", Max2(pass[p].target, stored), {})
    /\ UNCHANGED tables

\* A tick of the automatic compaction loop: the target is AutoCompactAge
\* behind the current revision.
AutoCompact(p) ==
    /\ pass[p].pc = "idle"
    /\ CurrentRevision - AutoCompactAge > 1
    /\ Goto(p, "raise", CurrentRevision - AutoCompactAge, {})
    /\ UNCHANGED tables

\* It adopts a larger revision found in kv_rev (unless that read fails) ...
AutoCompactRaise(p) ==
    /\ pass[p].pc = "raise"
    /\ \E existing \in {0, compactRev} :
            Goto(p, "record", Max2(pass[p].target, existing), {})
    /\ UNCHANGED tables

\* ... and records its target with the same compare-and-set as Compact.
AutoCompactRecord(p) ==
    /\ pass[p].pc = "record"
    /\ RecordCompactRev(pass[p].target)
    /\ Goto(p, "scan", pass[p].target, {})
    /\ UNCHANGED <<kv, clock, written>>

\* Variant: without the EXISTS that looks for a newer row.
EligibleEvenNewest(target) == {r \in kv : r.rev <= target}

\* Rows a pass may delete: at or below the target, with a newer row.
Eligible(target) ==
    {r \in kv : r.rev <= target
                /\ \E newer \in kv : newer.key = r.key /\ newer.rev > r.rev}

\* A batch the query may return: LIMIT without ORDER BY, so any rows of the
\* right number.
scanCompactBatch(target) ==
    {b \in SUBSET Eligible(target) :
        IF Cardinality(Eligible(target)) <= CompactBatchSize
        THEN b = Eligible(target)
        ELSE Cardinality(b) = CompactBatchSize}

\* One turn of compactRows: read a batch of row ids ...
CompactScan(p) ==
    /\ pass[p].pc = "scan"
    /\ \E b \in scanCompactBatch(pass[p].target) :
            IF b = {} THEN Goto(p, "idle", 0, {})
            ELSE Goto(p, "delete", pass[p].target, b)
    /\ UNCHANGED tables

\* ... and delete them by id, in a transaction of its own.
CompactDelete(p) ==
    /\ pass[p].pc = "delete"
    /\ kv' = kv \ pass[p].batch
    /\ IF Cardinality(pass[p].batch) < CompactBatchSize
       THEN Goto(p, "idle", 0, {})
       ELSE Goto(p, "scan", pass[p].target, {})
    /\ UNCHANGED <<compactRev, clock, written>>

\* A pass gives up: an error, its 30 minute timeout, or the replica stopping.
CompactAbort(p) ==
    /\ pass[p].pc # "idle"
    /\ Goto(p, "idle", 0, {})
    /\ UNCHANGED tables

-----------------------------------------------------------------------------
Init ==
    /\ kv = {}
    /\ compactRev = 1
    /\ clock = 1
    /\ pass = [p \in Pass |-> [pc |-> "idle", target |-> 0, batch |-> {}]]
    /\ written = {}

WriteStep ==
    \/ \E k \in Key, v \in Value, l \in LeaseOrNone : Create(k, v, l)
    \/ \E k \in Key, v \in Value, l \in LeaseOrNone, revision \in Revision :
            Update(k, v, revision, l)
    \/ \E k \in Key, revision \in Revision : Delete(k, revision)
    \/ \E k \in Key, l \in LeaseOrNone : DeleteIfLease(k, l)
    \/ \E t \in TxnRequest : AtomicTxn(t)

CompactStep(p) ==
    \/ \E target \in Target : Compact(p, target)
    \/ CompactEffective(p)
    \/ AutoCompact(p)
    \/ AutoCompactRaise(p)
    \/ AutoCompactRecord(p)
    \/ CompactScan(p)
    \/ CompactDelete(p)
    \/ CompactAbort(p)

Next == WriteStep \/ \E p \in Pass : CompactStep(p)

Spec == Init /\ [][Next]_vars

-----------------------------------------------------------------------------
(* Properties. *)

\* Every variable holds what the code can put there.
TypeOK ==
    /\ kv \subseteq written
    /\ written \subseteq Row
    /\ compactRev \in Target \ {0}
    /\ clock \in Revision \ {0}
    /\ pass \in [Pass -> PassState]

\* However many compaction passes run, on however many replicas, and however
\* they interleave with each other and with writers between reading a batch
\* of row ids and deleting it, the newest row of a key, value or tombstone,
\* is never deleted (the promise in the comment of scanCompactBatch).
NewestRowKept ==
    \A w \in written :
        (\A s \in written : s.key = w.key => s.rev <= w.rev) => w \in kv

\* A row is deleted only once kv_rev says that its revision is compacted, so
\* a replay that passed the compaction check of After misses no event above
\* the compaction revision.
AboveHorizonKept ==
    \A w \in written : w.rev > compactRev => w \in kv

\* The current revision, computed as the largest revision left in the table,
\* is always the last commit timestamp: compaction never makes it go back.
CurrentRevisionExact == CurrentRevision = clock

\* Row p is the version of its key that row w superseded.
Supersedes(w, p) ==
    /\ p.key = w.key /\ p.rev < w.rev
    /\ \A r \in written : r.key = w.key => ~(p.rev < r.rev /\ r.rev < w.rev)

\* A first write of a lifetime of a key and a later one, as the create, CAS
\* and tombstone inserts fill their columns in.
StartsLifetime(w) ==
    /\ w.created /\ ~w.deleted /\ w.prevRev = 0
    /\ w.createRev = w.rev /\ w.oldValue = NoValue

Continues(w, p) ==
    /\ ~p.deleted /\ ~w.created
    /\ w.prevRev = p.rev /\ w.createRev = p.createRev /\ w.oldValue = p.value

\* Against the full history, although transactions read the compacted table:
\* a key has one row per revision, and every row was written over the row that
\* immediately precedes it.  So no two writers both succeed from the same
\* mod revision, create_revision is constant through a lifetime, and
\* prev_revision and old_value (the PrevKv of watch events) are never stale.
HistoryChained ==
    /\ \A w, r \in written : w.key = r.key /\ w.rev = r.rev => w = r
    /\ \A w \in written :
          \/ /\ StartsLifetime(w)
             /\ \A p \in written : Supersedes(w, p) => p.deleted
          \/ \E p \in written : Supersedes(w, p) /\ Continues(w, p)

\* Neither revision a client can observe ever goes back, with manual and
\* automatic passes of several replicas racing to advance kv_rev.
RevisionsMonotonic ==
    [][CurrentRevision' >= CurrentRevision /\ compactRev' >= compactRev]_vars

-----------------------------------------------------------------------------
(* The strengthening that makes the invariants above inductive. *)

\* Rows carry commit timestamps already handed out, the last timestamp handed
\* out is on some row, and a key that was ever written has a newest row.
RevisionBounds ==
    /\ \A w \in written : 1 < w.rev /\ w.rev <= clock
    /\ clock = 1 \/ \E w \in written : w.rev = clock
    /\ \A w \in written : \E m \in written :
          m.key = w.key /\ \A s \in written : s.key = w.key => s.rev <= m.rev

\* What a pass holds between two of its steps: a target kv_rev has reached,
\* and a batch of rows at or below it that a newer row superseded.
PassSafe ==
    \A p \in Pass :
        /\ pass[p].pc \in {"effective", "scan", "delete"} =>
              pass[p].target <= compactRev
        /\ \A b \in pass[p].batch :
              /\ b \in written
              /\ b.rev <= compactRev
              /\ \E n \in written : n.key = b.key /\ n.rev > b.rev

\* The inductive invariant of the table and its compaction passes.
IInv == /\ TypeOK /\ RevisionBounds /\ PassSafe
        /\ NewestRowKept /\ AboveHorizonKept /\ HistoryChained

-----------------------------------------------------------------------------
(* The abstract specification this one implements. *)

\* A key-value as the API shows it.
KeyValueOf(r) == [key |-> r.key, value |-> r.value, lease |-> r.lease,
                  createRev |-> r.createRev, modRev |-> r.rev]

Live == {KeyValueOf(r) : r \in UNION {getLatestTxn(k) : k \in Key}}

Etcd == INSTANCE EtcdKV WITH current <- Live, revision <- CurrentRevision

\* Compaction is invisible and every transaction is one atomic mutation: the
\* table with its background passes implements the etcd key-value store.
ImplementsEtcd == Etcd!Spec

=============================================================================
