---------------------------- MODULE ChangeStream ----------------------------
(***************************************************************************)
(* The change stream reader of one replica (pkg/store/changestream.go).    *)
(*                                                                         *)
(* Spanner splits the stream kv_changes into partitions.  Each commit puts *)
(* a record for every row it changes into the partition that owns the key, *)
(* and from time to time partitions end and new ones take over their keys: *)
(* a split, a move or a merge.  A query of a partition returns its records *)
(* from a start timestamp on, in commit order, then, if the partition has  *)
(* ended, the list of its child partitions.                                *)
(*                                                                         *)
(* The reader has a main loop that takes partitions from a bounded channel *)
(* and starts a worker for each, a goroutine that enqueues the partitions  *)
(* found at the start, and the workers, which dispatch records, enqueue    *)
(* children and now and then persist how far they are.  Queries break, and *)
(* the process may restart at any time.                                    *)
(*                                                                         *)
(* Taken for granted: the clock of the replica, from which a reader starts *)
(* that finds no cursors, agrees with Spanner's; and a query fails with an *)
(* error of the context, which ends its worker for good, only when the     *)
(* context is done.                                                        *)
(***************************************************************************)
EXTENDS Integers, Sequences

CONSTANTS
    Key,
    Transaction, \* what transactions change: sets of keys, and whether their records decode
    MaxClock,    \* bound on timestamps
    MaxParts,    \* bound on partitions over time
    PendingCap,  \* partitionWorkersBuf (64)
    StartLag,    \* how far behind the clock a fresh reader starts (one second)
    MaxFaults    \* bound on queries that break off and process restarts

ASSUME StreamAssumption ==
    /\ Key # {} /\ Transaction \subseteq [keys : (SUBSET Key) \ {{}}, row : BOOLEAN]
    /\ MaxClock \in Nat /\ MaxParts \in Nat \ {0} /\ PendingCap \in Nat \ {0}
    /\ StartLag \in 0..(MaxClock - 1) /\ MaxFaults \in Nat

VARIABLES
    clock,      \* Spanner's time: the last timestamp given out
    part,       \* part[t]: partition with token t, its start, end and children
    owner,      \* owner[k]: the partition key k is in
    records,    \* the data change records, one per row changed
    cursor,     \* kv_cs_cursors of this replica's id: cursor[t], 0 if t has none
    reader,     \* Start: its pc, start time, and the partitions it found
    cancelled,  \* the context is done
    pending,    \* the channel of partitions to read
    worker,     \* worker[t]: the goroutine reading partition t
    sent,       \* history: records this process has dispatched
    faults      \* queries broken off and restarts so far

spanner == <<clock, part, owner, records>>

streamVars == <<spanner, cursor, reader, cancelled, pending, worker, sent, faults>>

Time == 0..MaxClock

Token == 1..MaxParts

\* end is 0 while the partition is open.
Partition == [start : Time, end : Time, kids : SUBSET Token]

\* row: the record decodes to an event.  An INSERT carries the row; the DELETE
\* of a compacted row carries no values (value_capture_type NEW_ROW), and what
\* cannot be decoded is skipped.
Record == [key : Key, rev : Time, token : Token, row : BOOLEAN]

\* A partition to read, from resume on.
PartitionState == [token : Token, resume : Time]

\* found[t]: where to resume t, 0 for none: first the cursors loaded, then the
\* partitions to enqueue.  boot: history, the clock when start was chosen.
ReaderState == [pc : {"load", "initial", "run", "waiting", "returned", "failed"},
                boot : Time, start : Time, found : [Token -> Time]]

\* seen: the records at resume this query has returned.
WorkerState == [pc : {"none", "query", "stream", "children"}, resume : Time,
                seen : SUBSET Record, kids : SUBSET Token]

Opened == 1..Len(part)

None == [t \in Token |-> 0]

NoReader == [pc |-> "load", boot |-> 0, start |-> 0, found |-> None]

NoWorker == [pc |-> "none", resume |-> 0, seen |-> {}, kids |-> {}]

-----------------------------------------------------------------------------
(* Spanner. *)

\* A transaction changes rows of some keys.  Rows of kv are inserted by writes
\* and deleted by compaction, each in transactions of their own.
Commit(txn) ==
    /\ clock < MaxClock
    /\ clock' = clock + 1
    /\ records' = records \cup
          {[key |-> k, rev |-> clock + 1, token |-> owner[k], row |-> txn.row] : k \in txn.keys}
    /\ UNCHANGED <<part, owner>>

\* Partitions end and new ones take over all their keys.
NewOwner(new, size) ==
    /\ new # owner
    /\ {new[k] : k \in Key} \ Opened = (Len(part) + 1)..size
    /\ \A k \in Key : new[k] = owner[k] \/ new[k] \notin Opened
    /\ \A k, j \in Key : owner[k] = owner[j] /\ new[k] = owner[k] => new[j] = owner[j]

Repartition(new, size) ==
    /\ clock < MaxClock /\ NewOwner(new, size)
    /\ clock' = clock + 1
    /\ owner' = new
    /\ LET ends(t) == \E k \in Key : owner[k] = t /\ new[k] # t
       IN  part' = [t \in 1..size |->
              IF t > Len(part) THEN [start |-> clock + 1, end |-> 0, kids |-> {}]
              ELSE IF ends(t)
              THEN [part[t] EXCEPT !.end = clock + 1,
                                   !.kids = {new[k] : k \in {j \in Key : owner[j] = t}}]
              ELSE part[t]]
    /\ UNCHANGED records

SpannerStep ==
    /\ \/ \E txn \in Transaction : Commit(txn)
       \/ \E new \in [Key -> Token], size \in Token : Repartition(new, size)
    /\ UNCHANGED <<cursor, reader, cancelled, pending, worker, sent, faults>>

RecordsOf(t) == {r \in records : r.token = t}

\* The partitions that cover the keys at timestamp ts.
PartitionsAt(ts) ==
    {t \in Opened : part[t].start <= ts /\ (part[t].end = 0 \/ ts < part[t].end)}

-----------------------------------------------------------------------------
(* Start. *)

ReaderStep == UNCHANGED <<spanner, faults>>

\* loadCursors; an error means starting without.  The earliest of all cursors,
\* and of now less a second, is where the reader starts.
loadCursors ==
    /\ reader.pc = "load"
    /\ \E found \in {cursor, None} :
          LET starts == {clock - StartLag} \cup ({found[t] : t \in Token} \ {0})
          IN  \E start \in starts :
                 /\ \A other \in starts : start <= other
                 /\ reader' = [pc |-> "initial", boot |-> clock, start |-> start, found |-> found]
    /\ UNCHANGED <<cursor, cancelled, pending, worker, sent>> /\ ReaderStep

\* A partition resumes at its cursor, or at the reader's start.
queryInitialPartitions ==
    /\ reader.pc = "initial"
    /\ PartitionsAt(reader.start) # {}
    /\ reader' = [reader EXCEPT !.pc = "run",
            !.found = [t \in Token |-> IF t \notin PartitionsAt(reader.start) THEN 0
                                       ELSE IF @[t] > 0 THEN @[t] ELSE reader.start]]
    /\ UNCHANGED <<cursor, cancelled, pending, worker, sent>> /\ ReaderStep

\* An error, or no partitions: Start returns it and nobody starts it again.
StartFails ==
    /\ reader.pc = "initial"
    /\ reader' = [reader EXCEPT !.pc = "failed", !.found = None]
    /\ UNCHANGED <<cursor, cancelled, pending, worker, sent>> /\ ReaderStep

\* Variant of EnqueueInitial: the channel has no bound.
EnqueueInitialUnbounded ==
    /\ reader.pc \in {"run", "waiting"}
    /\ \E t \in Token :
          /\ reader.found[t] > 0
          /\ pending' = Append(pending, [token |-> t, resume |-> reader.found[t]])
          /\ reader' = [reader EXCEPT !.found[t] = 0]
    /\ UNCHANGED <<cursor, cancelled, worker, sent>> /\ ReaderStep

\* The goroutine that enqueues what was found.
EnqueueInitial ==
    /\ reader.pc \in {"run", "waiting"} /\ Len(pending) < PendingCap
    /\ \E t \in Token :
          /\ reader.found[t] > 0
          /\ pending' = Append(pending, [token |-> t, resume |-> reader.found[t]])
          /\ reader' = [reader EXCEPT !.found[t] = 0]
    /\ UNCHANGED <<cursor, cancelled, worker, sent>> /\ ReaderStep

\* It gives up when the context is done.
DropInitial ==
    /\ reader.pc \in {"run", "waiting"} /\ cancelled /\ reader.found # None
    /\ reader' = [reader EXCEPT !.found = None]
    /\ UNCHANGED <<cursor, cancelled, pending, worker, sent>> /\ ReaderStep

\* A partition that is being read already is not read twice.
StartWorker ==
    /\ reader.pc = "run" /\ pending # << >>
    /\ pending' = Tail(pending)
    /\ worker' = IF worker[Head(pending).token].pc # "none" THEN worker
                 ELSE [worker EXCEPT ![Head(pending).token] =
                        [NoWorker EXCEPT !.pc = "query", !.resume = Head(pending).resume]]
    /\ UNCHANGED <<cursor, reader, cancelled, sent>> /\ ReaderStep

\* The main loop sees the context done and waits for the workers.
StopLoop ==
    /\ reader.pc = "run" /\ cancelled
    /\ reader' = [reader EXCEPT !.pc = "waiting"]
    /\ UNCHANGED <<cursor, cancelled, pending, worker, sent>> /\ ReaderStep

Return ==
    /\ reader.pc = "waiting" /\ \A t \in Token : worker[t].pc = "none"
    /\ reader' = [reader EXCEPT !.pc = "returned"]
    /\ UNCHANGED <<cursor, cancelled, pending, worker, sent>> /\ ReaderStep

-----------------------------------------------------------------------------
(* A worker: readPartition and its queries. *)

WorkerIs(t, pc) == worker[t].pc = pc /\ UNCHANGED <<spanner, reader, cancelled>>

Work(t, new) == worker' = [worker EXCEPT ![t] = new]

Query(t) ==
    /\ WorkerIs(t, "query") /\ ~cancelled
    /\ Work(t, [worker[t] EXCEPT !.pc = "stream", !.seen = {}])
    /\ UNCHANGED <<cursor, pending, sent, faults>>

\* The records of partition t the query has still to return.
Unread(t) == {r \in RecordsOf(t) : r.rev >= worker[t].resume /\ r \notin worker[t].seen}

\* Variant of MayFlush: the cursor is the time of the flush.
MayFlushNow(t, resume) == cursor' \in {cursor, [cursor EXCEPT ![t] = clock]}

\* flushCursor, when five seconds have passed since the last; it may fail.
MayFlush(t, resume) == cursor' \in {cursor, [cursor EXCEPT ![t] = resume]}

\* decodeRecord and extractKV: a record without values, or one that cannot be
\* decoded, is no event, and resume goes past it all the same.
Events(r) == IF r.row THEN {r} ELSE {}

\* Variant of DataRecord: records are handled as they are decoded, in any order.
DataRecordUnordered(t) ==
    /\ WorkerIs(t, "stream")
    /\ \E r \in Unread(t) :
          /\ sent' = sent \cup Events(r)
          /\ Work(t, [worker[t] EXCEPT !.seen = worker[t].seen \cup {r}])
    /\ UNCHANGED <<cursor, pending, faults>>

\* A data change record: its event is dispatched, then resume advances.
DataRecord(t) ==
    /\ WorkerIs(t, "stream")
    /\ \E r \in Unread(t) :
          /\ \A other \in Unread(t) : r.rev <= other.rev
          /\ sent' = sent \cup Events(r)
          /\ Work(t, [worker[t] EXCEPT !.resume = r.rev,
                        !.seen = {s \in worker[t].seen : s.rev = r.rev} \cup {r}])
          /\ MayFlush(t, r.rev)
    /\ UNCHANGED <<pending, faults>>

\* A heartbeat promises that nothing before it is still to come.
Heartbeat(t) ==
    /\ WorkerIs(t, "stream") /\ Unread(t) = {}
    /\ part[t].end = 0 /\ worker[t].resume < clock
    /\ Work(t, [worker[t] EXCEPT !.resume = clock,
                                 !.seen = {r \in RecordsOf(t) : r.rev = clock}])
    /\ MayFlush(t, clock)
    /\ UNCHANGED <<pending, sent, faults>>

\* The partition has ended and its children follow.
ChildPartitions(t) ==
    /\ WorkerIs(t, "stream") /\ Unread(t) = {} /\ part[t].end > 0
    /\ Work(t, [worker[t] EXCEPT !.pc = "children", !.kids = part[t].kids])
    /\ UNCHANGED <<cursor, pending, sent, faults>>

\* Variant of EnqueueChild: children resume where the parent is.
EnqueueChildAtParent(t) ==
    /\ WorkerIs(t, "children") /\ Len(pending) < PendingCap
    /\ \E c \in worker[t].kids :
          /\ pending' = Append(pending, [token |-> c, resume |-> worker[t].resume])
          /\ Work(t, [worker[t] EXCEPT !.kids = @ \ {c}])
    /\ UNCHANGED <<cursor, sent, faults>>

\* Variant of EnqueueChild: a child that finds the channel full is dropped.
EnqueueChildOrDrop(t) ==
    /\ WorkerIs(t, "children")
    /\ \E c \in worker[t].kids :
          /\ pending' = IF Len(pending) = PendingCap THEN pending
                        ELSE Append(pending, [token |-> c, resume |-> part[c].start])
          /\ Work(t, [worker[t] EXCEPT !.kids = @ \ {c}])
    /\ UNCHANGED <<cursor, sent, faults>>

\* Each is enqueued, to be read from its start; the channel may be full.
EnqueueChild(t) ==
    /\ WorkerIs(t, "children") /\ Len(pending) < PendingCap
    /\ \E c \in worker[t].kids :
          /\ pending' = Append(pending, [token |-> c, resume |-> part[c].start])
          /\ Work(t, [worker[t] EXCEPT !.kids = @ \ {c}])
    /\ UNCHANGED <<cursor, sent, faults>>

\* All are enqueued: a last flush, and the worker is gone.
WorkerDone(t) ==
    /\ WorkerIs(t, "children") /\ worker[t].kids = {}
    /\ MayFlush(t, worker[t].resume)
    /\ Work(t, NoWorker)
    /\ UNCHANGED <<pending, sent, faults>>

\* The query fails, or ends with the partition still open: it is made again,
\* from resume on.
QueryBreaks(t) ==
    /\ WorkerIs(t, "stream") /\ faults < MaxFaults
    /\ faults' = faults + 1
    /\ Work(t, [worker[t] EXCEPT !.pc = "query", !.seen = {}])
    /\ UNCHANGED <<cursor, pending, sent>>

\* Variant of WorkerStops: enqueuing children does not watch the context.
WorkerStopsBetweenQueries(t) ==
    /\ worker[t].pc \in {"query", "stream"} /\ cancelled
    /\ UNCHANGED <<spanner, reader, cancelled>>
    /\ Work(t, NoWorker)
    /\ UNCHANGED <<cursor, pending, sent, faults>>

\* The context is done: every wait of a worker ends, and so does the query.
WorkerStops(t) ==
    /\ worker[t].pc # "none" /\ cancelled
    /\ UNCHANGED <<spanner, reader, cancelled>>
    /\ Work(t, NoWorker)
    /\ UNCHANGED <<cursor, pending, sent, faults>>

-----------------------------------------------------------------------------
(* The process. *)

\* The server shuts down.
Shutdown ==
    /\ ~cancelled /\ cancelled' = TRUE
    /\ UNCHANGED <<cursor, reader, pending, worker, sent>> /\ ReaderStep

\* The process ends, by itself or not, and another starts.  Its replica id is
\* the address of its store, so it may find the cursors or not.
Restart ==
    /\ faults < MaxFaults /\ faults' = faults + 1
    /\ cursor' \in {cursor, None}
    /\ reader' = NoReader /\ cancelled' = FALSE /\ pending' = << >>
    /\ worker' = [t \in Token |-> NoWorker]
    /\ sent' = {}
    /\ UNCHANGED spanner

StreamInit ==
    /\ clock = StartLag + 1 /\ records = {}
    /\ part = <<[start |-> 1, end |-> 0, kids |-> {}]>>
    /\ owner = [k \in Key |-> 1]
    /\ cursor = None /\ reader = NoReader /\ cancelled = FALSE /\ pending = << >>
    /\ worker = [t \in Token |-> NoWorker]
    /\ sent = {} /\ faults = 0

StartStep == loadCursors \/ queryInitialPartitions

EnqueueStep == EnqueueInitial \/ DropInitial

LoopStep == StartWorker \/ StopLoop \/ Return

WorkerStep(t) ==
    \/ Query(t) \/ DataRecord(t) \/ ChildPartitions(t) \/ EnqueueChild(t)
    \/ WorkerDone(t) \/ WorkerStops(t)

StreamNext ==
    \/ SpannerStep \/ StartStep \/ StartFails \/ EnqueueStep \/ LoopStep
    \/ \E t \in Token : WorkerStep(t) \/ Heartbeat(t) \/ QueryBreaks(t)
    \/ Shutdown \/ Restart

StreamSpec == StreamInit /\ [][StreamNext]_streamVars

\* The goroutines run, and when its context is done the main loop, which may
\* take partitions from the channel as long as there are any, sees it.
StreamFairness ==
    /\ WF_streamVars(StartStep \/ StartFails \/ EnqueueStep)
    /\ WF_streamVars(StartWorker \/ Return) /\ WF_streamVars(StopLoop)
    /\ \A t \in Token : WF_streamVars(WorkerStep(t))

FairStreamSpec == StreamSpec /\ StreamFairness

-----------------------------------------------------------------------------
(* Properties. *)

StreamTypeOK ==
    /\ clock \in Time /\ records \subseteq Record
    /\ part \in Seq(Partition) /\ Len(part) <= MaxParts /\ owner \in [Key -> Opened]
    /\ cursor \in [Token -> Time] /\ reader \in ReaderState /\ cancelled \in BOOLEAN
    /\ pending \in Seq(PartitionState) /\ Len(pending) <= PendingCap
    /\ worker \in [Token -> WorkerState] /\ sent \subseteq records
    /\ faults \in 0..MaxFaults

\* Where partition t is, or is to be, read from: by its worker, in the channel,
\* by the enqueuing goroutine, and by the next process.
Resumes(t) ==
    (IF worker[t].pc = "none" THEN {} ELSE {worker[t].resume})
    \cup {pending[i].resume : i \in {j \in DOMAIN pending : pending[j].token = t}}
    \cup {reader.found[t], cursor[t]}

\* What was committed since the process started and lies before any of these
\* has been dispatched: neither a query that breaks and is made again nor a
\* cursor ever skips a record, even when several carry one timestamp.
ResumeSafe ==
    \A t \in Token, r \in records :
        r.token = t /\ r.row /\ reader.boot < r.rev /\ reader.pc # "load"
            /\ (\E ts \in Resumes(t) : r.rev < ts) => r \in sent

\* Spanner refuses a query of a partition from before its start or after its
\* end; a worker that asked one would fail for ever.
QueryInRange ==
    \A t \in Opened : worker[t].pc # "none" =>
        /\ part[t].start <= worker[t].resume
        /\ part[t].end = 0 \/ worker[t].resume < part[t].end

\* The records of a key are dispatched in commit order within a partition and
\* from a partition to the one that took over from it alone (a split or a
\* move).  A merged partition may be read before its other parent is through.
SplitOrder ==
    \A r \in sent, q \in records :
        /\ q.key = r.key /\ q.row /\ reader.boot < q.rev /\ q.rev < r.rev
        /\ q.token = r.token
           \/ \A t \in Opened : r.token \in part[t].kids <=> t = q.token
        => q \in sent

CaughtUp == \A r \in records : r.row /\ reader.boot < r.rev => r \in sent

\* Every row committed while the reader runs is dispatched, across splits,
\* moves, merges and broken queries, unless the process ends first: when
\* commits pause the reader catches up.
EveryRowDispatched ==
    reader.pc = "run" ~> CaughtUp \/ cancelled \/ reader.pc \in {"load", "initial", "failed"}

\* A restarted process goes on from the persisted cursors: a row that they say
\* is still to be read is dispatched, by the process that persisted them or by
\* the next, unless it is shut down or cannot start.
RestartResumes ==
    \A r \in Record :
        r \in records /\ r.row /\ r \notin sent /\ 0 < cursor[r.token] /\ cursor[r.token] <= r.rev
            ~> r \in sent \/ cancelled \/ reader.pc = "failed"

\* A shutdown is always completed: nobody is left waiting on the channel or on
\* a worker.
ShutdownReturns ==
    cancelled ~> reader.pc \in {"returned", "failed"} \/ ~cancelled

=============================================================================
