# spanner-etcd in TLA+

spanner-etcd serves the etcd v3 API from a Cloud Spanner database. Any number of
replicas serve the same tables; they share nothing else. This directory models
the parts of it that are hard to test (concurrent writers, background
compaction, reads made of several snapshots, lease expiry, watch delivery, the
change stream, streams and shutdown, migration), checks them with TLC on small
instances, and proves the safety properties with TLAPS for every instance.

`PROJECT.json` holds the exact correspondence: for every definition the lines of
source it models, for every run its configuration and properties, for every
property a mutation of the code that breaks it, and the list of hazards.

## 1. The system

| part | source | state | operations |
|---|---|---|---|
| tables | `pkg/schema/schema.go` | `kv` (append only, one row per write, `rev` = commit timestamp), `kv_rev` (compaction revision), `kv_lease`, `kv_cs_cursors` | DDL, seeding of `kv_rev` |
| write transactions | `pkg/store/store.go` | rows of `kv` | `Create`, `Update` (compare-and-set), `Delete`, `DeleteIfLease`, `AtomicTxn` |
| compaction | `pkg/store/store.go` | `kv_rev`, rows of `kv`, a pass in progress | `Compact`, `autoCompactLoop`, `compactRows` |
| reads | `pkg/store/store.go` | a read between two of its snapshots | `Get`, `List`, `Count`, `After` |
| KV service | `pkg/server/kv.go` | an RPC between two store calls | `Range`, `Put`, `DeleteRange`, `Txn` (atomic and not), `Compact` |
| lease manager | `pkg/store/lease.go` | the map and the goroutines of each replica, `kv_lease` | `Grant`, `Keepalive`, `Revoke`, `scheduleExpiry`, `expireLeaseKeys`, `gcLoop` |
| watcher | `pkg/store/watch.go` | subscribers, their channels and flags, `lastRev` | `subscribe`, `dispatchEvents`, `pollLoop`, `removeSub` |
| watch service | `pkg/server/watch.go` | watches of a stream, response channel | `Watch`, `watchLoop` |
| change stream reader | `pkg/store/changestream.go` | partitions, cursors | `Start`, `readPartition`, `streamPartition` |
| auth | `pkg/server/auth.go` | tokens of a replica | `Authenticate`, interceptors, collection |
| process | `cmd/server`, `pkg/server/server.go` | signal, drain | start, graceful stop |
| migration tool | `cmd/migrate` | a copy in progress | copy, dry run, verify |

How they meet: the KV service calls the store; the lease manager deletes keys
through `DeleteIfLease`; the watcher reads with `After`, is woken by local writes
and fed by the change stream reader; a Watch stream runs a `watchLoop` per
subscription; the process drains calls and streams when it stops; compaction
deletes rows under all of them, from any replica. Spanner makes a read-write
transaction one atomic step. A `Single()` read is a snapshot of its own, so two
of them in a row are two steps, and this is where most of the difficulty is.

What is hard here: a compaction pass deletes by id rows it chose earlier; the
current revision is a `MAX` over a table rows are deleted from; every read
first fetches a revision and then queries with it; `Put` and the non-atomic
`Txn` are sequences of store calls; several replicas expire a lease at once, with
retries and restarts; replay, polling and the change stream feed one bounded
channel while the subscription may be torn down; the goroutines of a stream wait
for each other's channels.

## 2. Modules

| module | models | extends |
|---|---|---|
| `KVStore` | tables, write transactions, compaction | |
| `EtcdKV` | abstract: live key-values and a revision | |
| `StoreReads` | `Get`, `List`, `Count`, `After` | `KVStore` |
| `KeyRanges` | key ranges, prefixes and `LIKE` on strings | |
| `KVServer` | the RPCs of the KV service | `StoreReads`, `KeyRanges` |
| `Watcher` | poll loop, dispatch, subscriptions | `StoreReads`, `KeyRanges` |
| `ChangeStream` | the change stream reader and Spanner's partitions | |
| `Leases` | lease managers of all replicas | |
| `WatchStream` | the goroutines of one Watch stream | |
| `Serving` | tokens, a unary call, shutdown | `WatchStream` |
| `Migration` | the migration tool and its destination | `Serving` |
| `LeasesProofs`, `ChangeStreamProofs`, `ServingProofs` | theorems | the module they name (`ServingProofs`: `Migration`) and TLAPS |
| `StoreProofs` | theorems about `KVStore` and `StoreReads` | `StoreReads` and TLAPS |
| `CallProofs` | the invariant of `KVServer`, and the steps of a call that do not write | `KVServer`, `StoreProofs` |
| `KVServerProofs` | the steps that write, and the theorems | `CallProofs` |
| `WatcherProofs` | theorems; the invariant of delivery | `Watcher`, `StoreProofs` |
| `DeliveryProofs` | that a watch misses nothing | `WatcherProofs` |
| `MC*` | instances for TLC | the module they name (`MCServing`: `Migration`) |

**KVStore.** `kv` is the set of rows, `compactRev` the value in `kv_rev`, `clock`
the last commit timestamp, `pass[p]` a compaction pass between two of its steps,
`written` (history) every row ever inserted. A transaction is one action whose
guard is the condition under which the code commits; a transaction that returns
an error changes nothing and has no action. A pass is the sequence the code runs:
record the target in `kv_rev` (never lowering it), read `kv_rev` again, then
alternate between scanning a batch of ids and deleting them; it may stop anywhere
(`CompactAbort`: error, timeout, replica stopping). The client's `Compact` and a
tick of `autoCompactLoop` differ in how they get their target. A tick's target is
a number of revisions behind the current one (`AutoCompactAge`); in the code it
is a duration, revisions being nanoseconds.

**EtcdKV.** What a client may assume: a mutation touches a set of keys at once at
a larger revision; untouched keys keep their key-value; a touched one disappears
or has the new mod revision, with its create revision kept exactly when it was
live. Compaction does not appear.

**StoreReads.** `reader[r]` is a read in progress. `Begin` reads the current
revision, `CheckCompacted` the compaction revision, `Query` the rows, and
anything may happen in between. `LIMIT` returns a prefix in the order of the
query, with ties in any order. `ReadSpec` puts the reads beside the store with its
passes. `KVServer` and `Watcher` put them beside two coarser steps instead: the
compaction revision rises (`HorizonRises`), and a superseded row at or below it
goes (`RowCompacted`). Any step of a pass that changes a table is one of these or
several in a row: a row it has scanned stays superseded and at or below the recorded
revision until it is deleted, as `PassSafe`, which is proved, says. They allow more than
passes do, since a row may go at any time and in any order.

**KeyRanges.** Keys are numbered in the other modules; here they are byte strings
in the order Spanner sorts them. `InRange` is what etcd means by `[key, end)`;
`rangeToPrefix`, `watchPrefix` and `likePrefix` are what the server makes of it.
`MatchesLike` is Spanner's `LIKE`, with `_`, `%` and the backslash that takes the next
byte as it is: `likePrefix` escapes nothing, so a prefix with `_` or `%` matches more
keys than begin with it, and one with a backslash may match fewer.

**KVServer.** `call[c]` is the RPC client `c` waits for: the compares and the
operations left, and what the call carries from one store call to the next. `Put` is
`Create`, then `Get` and `Update` when the key exists; a range delete is a `List` and
one `Delete` per key; the non-atomic `Txn` compares with one `Get` per key and then
runs its operations. Its reads are those of `StoreReads`. `Background` is what goes on
beside: atomic transactions, lease deletes, compaction. Where the code reads the
current revision only to put it into a response header, the read is part of the step
that answers. Compares are equality of mod revisions, the one Kubernetes uses; the
other targets and relations differ only in the column and in the operator. A request
that writes or deletes one key names a key of `Key` (`ServerOp`).

**Leases.** Per key the module keeps the lease of its current row (`held`) and
the leases of all its rows (`carried`), since `expireLeaseKeys` looks for any row
with the lease. `proc[<<r, l, kind>>]` is a goroutine that grants, expires or
revokes `l` on `r`; `kind` tells the goroutine `Grant` started from those `loadLeases`
started (two: a repeated scan may load a lease again that was revoked between) and from
a client's `Revoke`. Time is in seconds. Restart
clears what a replica has in memory. Clients write keys with or without a lease;
a client's delete takes a key off its lease just as a write without one does, and
is left out.

**Watcher.** `poll` is the poll loop, `sub[s]` a subscriber with its goroutine and
its channel, `out[d]` a call of `dispatchEvents` between looking at a closed flag and
sending. The dispatchers are the poll loop and the worker of each change stream
partition (`Partition`), which run at the same time; a worker hands out the rows of any
commit, as often as it likes. The empty batch is `closedSentinel`. Events are dispatched
by prefix and replayed by `LIKE` (`Watched`, `Replayed`). The receiving end is
`watchLoop`.

**ChangeStream.** Spanner's side is a clock, partitions that are split, moved and
merged, and records; a query of a partition returns records in commit order, then
the children. The reader's side is `Start`'s main loop with its bounded channel
`pending`, the goroutine that enqueues the partitions found first, and a worker
per partition, which dispatches, enqueues children, persists its cursor and
retries a broken query. `sent` (history) is what this process has dispatched. Three
things are assumed. The start time `Start` takes from the replica's clock is the right
one, so that a second before it is before every later commit. A query that breaks does
so with an error that is retried: a worker gives up only when the process stops, while
the code also does on a `context.Canceled` or `context.DeadlineExceeded` that a query
returns for another reason. And every record can be decoded; the code skips one that
cannot.

**WatchStream.** `main` is the handler's loop; the sender, the receiver's
one-element `reqCh`, `respCh`, `cancelledCh` and `sendErrCh` are the channels
between it and `loop[id]`, the `watchLoop` of a watch with its context and its
subscription. Every blocking send is a step that waits for room or for the
context, as its `select` does.

**Serving.** A process with its tokens (`age` in ticks), a unary call, a Watch
stream and `run`'s wait for a signal, `GracefulStop` and its timeout.
**Migration** adds a source, the tool between two of its calls, and this process
as the destination, which may hold an old value of every key.

## 3. What TLC checks

Bounds are in the `.cfg` files. Revisions start at 1 (nothing written), so
`MaxRev = 4` is three commits: enough to create, update and delete a key, or for
a row to be superseded twice. Batches and pages of one or two rows make every
loop that continues on a full batch continue.

| run | instance | shows |
|---|---|---|
| `store` | two keys, three commits, transactions, a lease, two passes, batches of one | no pass deletes the newest row of a key (`NewestRowKept`) or a row above the recorded compaction revision (`AboveHorizonKept`); the `MAX` over the table is the last commit (`CurrentRevisionExact`); every row supersedes exactly the one before it (`HistoryChained`); no revision goes back (`RevisionsMonotonic`); the store implements `EtcdKV` (`ImplementsEtcd`) |
| `server` | two keys, four commits, one call of nine kinds; key 2 is the end of key 1's prefix, a byte of which is a wildcard to `LIKE` | a `Put` acknowledged without effect lost to another writer (`PutLostOnlyToRace`); `IgnoreValue` and `IgnoreLease` keep what they replace (`IgnoredFieldKept`); a range delete in a `Txn` deletes every key it should (`DeleteRangeComplete`) and no `Txn` reads or deletes a key outside its range (`TxnRangeExact`); the non-atomic `Txn` picks the right branch when nobody writes the compared keys meanwhile, compaction included (`CompareExact`); `Get`, `List` and `Count` are exact for every key whose row is above the compaction revision or has not been superseded (`SnapshotExact`) |
| `leases` | one replica and one lease with the goroutines of grant, load and revoke; keepalives, or two errors, or a restart, or a revoke | the row of a lease goes only after its keys (`NoOrphanedKey`); expiry never deletes a key of another lease (`KeyOutlivesOtherLease`); a lease nobody keeps alive goes, with its keys (`LeaseExpires`) |
| `watch` | one subscriber, two keys, three commits, compaction, pages of two, the poll loop and two partition workers, a channel of four | replay, subscription and polling leave no gap (`NothingMissed`); the sentinel finds room although three dispatchers may still send (`SentinelFits`); `After` loses no event of a page that was above the compaction revision when the rows were read (`AfterComplete`) |
| `watch_liveness` | two commits, pages of one, a channel of two batches | as long as the poll loop keeps up (`PollKeepsUp`: no more than a page of events and no compaction past it between two polls), an event committed after the subscription and after the poll loop's first look at the current revision (`poll.first`) arrives, unless the subscription ends or the event is compacted (`EventArrives`); a subscription that ended is torn down and told (`CancelledIsTold`) |
| `change_stream` | two keys in a partition that is split and merged, a channel of one partition, a broken query or a restart | nothing is skipped by a retry, a cursor or several records of one timestamp (`ResumeSafe`); no query Spanner would refuse for ever (`QueryInRange`); commit order within a key, but for merges (`SplitOrder`); every row since the process started arrives (`EveryRowDispatched`) and a shutdown ends (`ShutdownReturns`) although workers fill the channel the main loop empties |
| `serving` | a stream of two watches with channels of one and two batches for a watch, two tokens, a unary call, a migration of three keys in pages of two to an empty destination or one with old values | responses of a watch in order (`ResponsesInOrder`); a late notice never cancels another watch (`CancelsOwnWatch`); an end by the store is told (`StoreEndIsTold`); a broken stream winds down whatever its goroutines wait for (`StreamWindsDown`); tokens live exactly their lifetime (`TokenHonoured`) and are collected (`ExpiredTokenCollected`); a stop ends whatever calls and streams are open (`ShutdownEnds`); a migration reported as a success is complete (`MigrationComplete`, `VerifiedIsThere`) |

`store`, `server`, `leases` and `change_stream` also check the type invariant of
their module.

Some runs cut the exploration with a `CONSTRAINT`:

* `server` (`InProgress`) has no compaction revision more than one above the current
  one; stops at an answer, since the properties judge an answer
  by the history up to it and the next call starts from the same kind of state;
  lets others write only the keys the call names; and allows two commits before
  the call and two during it, one if it is a bare `Range` or `DeleteRange`. One
  call is enough: calls share nothing but the tables, and what another call does
  to them is a commit of `Background`.
* `watch` (`WorkersOrReplay`) has compaction and the third commit only where a
  replay meets them, before the poll loop runs; partition workers dispatch the first
  commit, to subscriptions that do not replay.
* `watch_liveness` (`NoCompaction`) has no compaction; what it does to a
  subscription, ending it, other reasons do in this run.
* `leases`: the grant comes first (`GrantFirst`); a lease that is kept alive past its
  first expiry, a goroutine out of attempts, a restart and a revoke are explored apart
  (`OneTrouble`); no key is written with a lease that is gone (`Leased`); after the time
  a lease that was not kept alive expires, only time, goroutines and loading go on
  (`LateSteps`). The last is a constraint on actions and leaves out only actions that
  are not fair, so that it hides no step `LeaseExpires` relies on.
* `change_stream`: the partition is split and then merged, not moved first;
  compaction deletes only rows written in the run; a shutdown comes after the last
  commit, in a process without faults; cursors are flushed while a restart may
  still find them.
* `serving` (`Explored`): the stream, the calls and the tool, which meet only
  through the process, are explored one at a time; the second watch comes when the
  first has ended or was cancelled, which is when its notice may be late, and has no
  events; a stream that breaks has one watch.

`change_stream` and `serving` may stop (a process that has exited, a stream that
is over) and do not check for deadlock; their liveness properties say who must not
wait. `Attempts` (5 in the code) is 2 in `leases`, and two errors use them up.
`SentinelFits` speaks of a channel with more places than there are dispatchers: four
against three in the run. In the code it has 100, and the dispatchers are the poll
loop and one worker for each partition of the change stream.

### Where the code and its documentation part

Each of these runs checks one sentence of the repository and TLC finds a
behaviour that contradicts it; `findings` in `PROJECT.json` quotes it.

| run | behaviour |
|---|---|
| `put_applied` | `Put` ignores that its compare-and-set failed and answers success |
| `keepalive_replicas` | a replica that loaded the lease from the table expires it although another answers its keepalives |
| `replay_pages` | a page that ends inside a transaction skips the rest of it |
| `poll_batch` | more events than a batch between two polls: the rest is skipped |
| `restart_resumes` | a restarted process has another replica id, finds no cursors and starts a second before now: rows its predecessor had still to read are not dispatched |

The conditions in the passing properties are needed too, and say what the code
does not give:

* `SnapshotExact` excludes keys whose row was superseded and compacted. A `Get`
  that read the current revision before the key was updated, and its row after
  the old one was compacted, answers that a live key is missing. A read at a
  revision above the compaction revision misses a key last written below it and
  again after the revision asked for.
* `AfterComplete` excludes events that a compaction between the check and the query
  has passed: they are left out without an error, also of a replay.
* `DeleteRangeComplete` speaks of a `Txn`, which fails when one of its deletes does.
  The bare `DeleteRange` goes on with the next key and answers without an error.
* `TxnRangeExact` speaks of a `Txn`: there `Range` and `DeleteRange` drop keys at
  or past the range's end, though not for `CountOnly`. The bare `Range` (its count
  too) and `DeleteRange` do not look at the end, and so take in keys that share
  the prefix or match an unescaped `_` or `%` in it. A range of everything from a key
  on, or of a prefix without a backslash, loses no key; a general range may lose keys
  that do not share the prefix, and a prefix with a backslash those `LIKE` reads it
  not to mean.
* A watch is matched by prefix, also when it names one key, and so is sent keys
  it did not ask for; `NothingMissed` says it gets all it asked for, not only those.
* `NoOrphanedKey` excludes keys written with a lease after a revocation has listed
  its keys (`raced`), and keys written with a lease that was already gone
  (`unleased`): they stay.
* `LeaseExpires` excludes a lease whose goroutine has used up its attempts: after the
  last one nothing tries again until the replica restarts.
* `NothingMissed` excludes compaction past the revision of the poll loop, which then
  continues from the current revision, and more events than a page between two polls.
  It also leaves out events committed after the subscription and before the poll loop
  first read the current revision (`poll.first`), from which it starts: a client that
  subscribes while the process is starting may miss them. `EventArrives` has the same
  conditions. Nothing excludes duplicates between replay, poll and change stream.
* `SplitOrder` excludes merges: a merged partition may be read before its other
  parent is through. `EveryRowDispatched` and `ResumeSafe` speak of rows committed
  since this process started: the replica id cursors are kept under differs from
  process to process (`restart_resumes`).
* `SentinelFits` needs fewer dispatchers than the channel has places; with as many, the
  batches they send after the drain may fill it, and `watchLoop` is not told.
* `GracefulStop` also waits for open Watch streams, the full 10 seconds if clients
  keep them (`pkg/server/server.go:178` expects their contexts to end them); the
  signal has by then ended the store's loops, so they get no more events.
* `MigrationComplete` needs a source nobody writes; `VerifiedIsThere` does not, but
  a key deleted from the source meanwhile stays in the destination.

### Fairness

Errors, faults, restarts, disconnects, keepalives and what clients ask for are
never forced, and faults are bounded.

* `LeaseFairness`: time passes, and each goroutine of a replica runs (weak fairness
  on its own steps and on loading).
* `WatchFairness`: the poll loop, the dispatchers and the goroutines of the
  subscriptions run (the Go scheduler and the ticker). `Receive` is weakly fair: a
  client that stops reading its stream is not told anything. The reads of the poll
  loop are strongly fair: they may fail any number of times but not for ever.
* `StreamFairness` of `ChangeStream`: the main loop, the enqueuing goroutine and
  each worker run, and a query of a partition answers unless it breaks.
* `StreamFairness` of `WatchStream`: the main loop, the sender and each `watchLoop`
  run, the end of a context reaches those derived from it, and the store tears
  down a cancelled subscription (`CancelledIsTold`). Sending is fair: a client that
  does not read is disconnected by the transport (`Disconnect`, `SendFails`) or
  blocks the sender, which is outside this system.
* `ServingFairness`: time passes while there are tokens, the ticker's sweep runs,
  and so do `GracefulStop`, its timeout and the exit.

## 4. What is proved

All theorems hold for every value of the constants that the named `ASSUME`s of the
modules allow (types, and sizes that are not zero; TLC evaluates them in the runs).

**`StoreProofs`**, of `KVStore`, for any sets of keys, values, leases, transaction
requests and passes, any batch size, age and bound on revisions: `TypeCorrect`,
`NewestRowIsKept`, `AboveHorizonIsKept`, `HistoryIsChained`,
`CurrentRevisionIsExact`, the action property `RevisionsAreMonotonic`, and
`Refinement`: `Spec => ImplementsEtcd`, with `current` mapped to the live newest
rows and `revision` to the `MAX` over the table.

The inductive invariant `IInv` adds two facts to the properties. `RevisionBounds`:
rows carry timestamps already handed out, the last one handed out is on some row
(otherwise `MAX(rev)` says nothing), and a key that was written has a newest row.
`PassSafe`: the target of a pass that
has recorded it is at most `kv_rev`, and every row in its batch is at or below
`kv_rev` and has a newer row. That newer row may itself be deleted by another
pass before the batch is, which is why `PassSafe` speaks of `written` and not of
`kv`: newer rows are never unwritten, and `NewestRowKept` follows because a row
with a newer row is not the newest. `HistoryChained` is stated of `written` too,
and is inductive only together with `NewestRowKept`, because transactions look
for the row they supersede in the compacted table.

The proofs reduce every write to one lemma about commits (`WriteCommits`,
`CommitPreserves`) and every step of a pass to one about steps that insert
nothing (`PassStepPreserves`). For the refinement, a write is a `Mutate` of the
keys of its rows (`CommitMutates`) and a step of a pass a stutter
(`CompactionStutters`).

The same module, of `StoreReads`, for any readers, requests and limits beside that
store: `ReadTypeCorrect`, `SnapshotIsExact`, `AfterIsComplete`. The invariant is `IInv`
with `ReadTypeOK`, `ReadInPast` (a read has looked only at what was committed by
then) and the two properties, `AfterComplete` with the case of an answer without rows
(`AfterExact`). An answer is exact at the step that reads the rows because of `IInv`
(nothing above the horizon is missing, the newest row of a key is there). It stays
exact because later commits are above what it looked at, and the conditions under
which the properties speak of a row only become harder to meet. The module also has
what the proofs above it need of a read that begins, goes on or ends while
others run (`ReadBegins`, `ReadAdvances`, `ReadEnds`), and that the coarse compaction
steps keep `IInv` (`CompactionSeen`). `LikeFinds`: a key that begins with a prefix
without a backslash is found by its `LIKE`, wildcards in the prefix or not.

**`CallProofs`** and **`KVServerProofs`**, for any number of calls at once, any
requests, keys and key names (but see `PrefixDeletes`): `PutLosesOnlyToRace`,
`IgnoredFieldIsKept`, `CompareIsExact`, `TxnRangeIsExact`, `DeleteRangeIsComplete`,
`ServiceReadsAreExact`, and `ServiceImplementsEtcd`: with RPCs of several store calls,
too, what happens to the keys is a sequence of mutations of `EtcdKV`.

A call carries what it read into a later transaction, so the invariant `ServerIInv`
compares that with the history: it is right, or the history has a write of the key
since the call began. So `PutOn`: a `Put` between `Create` and `Update` has the
revision of the newest row, or somebody wrote the key. `KeepOn`: what
`IgnoreValue` and `IgnoreLease` will write back is the field of the row at the
revision that the compare-and-set expects. `Comparing`: the compares a call has been
through hold of what was there when it began, or a key was written; `Chosen` is the
same of the branch once it is taken. `EachOn`: of a range delete, every key that was
live at the start is still to be deleted or gone. `DoneOn` keeps these for
operations that are finished while the call goes on. The proofs have one lemma per
action; a step of another call, of lease expiry or of compaction is one lemma for
all (`StorePreservesCalls`), because every part speaks of the history up to a
revision of the past, which later commits do not touch (`Moves`). `CallProofs` has
the invariant, what all calls need, the steps that begin a call, compare and serve a
`Range`, and that a step is at most one transaction (`ServerNextCommits`);
`KVServerProofs` has the steps of `Put` and `DeleteRange` and the theorems.

`DeleteRangeIsComplete` has the premise `PrefixDeletes`: the deletes are of keys,
prefixes without a backslash and everything from a key on, the ranges that
`rangeToPrefix` and `LIKE` are right for. Others lose keys, as said above. The run
`server` has only such deletes.

**`LeasesProofs`**, for any number of replicas, leases, keys, errors and restarts, any
TTL and number of attempts: `LeaseTypeCorrect`, `NoKeyIsOrphaned`,
`KeysOutliveOtherLeases`. `NoOrphanedKey` needs, of a revocation in progress, that
a key which still holds the lease is yet to be deleted or was written after the
keys were listed (`ListedOrMissed`); that listing by rows finds every holder
(`CarriesLease`); and that a goroutine in its backoff has an attempt left.

**`ChangeStreamProofs`**, for any keys and transactions, any number of partitions,
splits, moves, merges, broken queries and restarts, any capacity of `pending`:
`StreamTyped`, `StreamResumeSafe`, `StreamQueryInRange`, `StreamSplitOrder`. What is
read, and from where, is spread over workers, the channel, the partitions found at the
start and the cursors; `StreamIInv` says of each that it is a place inside its
partition (`PositionsOK`), that what was returned was dispatched, in order within a
partition (`SeenOK`, `InOrder`), and how a partition came to be read: it was there at
the start, or a parent whose rows are all dispatched handed it on (`OriginOK`).
`SplitOrder` follows, because a parent's records end where the child's begin; with a
merge there is another parent, and it does not.

**`WatcherProofs`**, for any number of subscriptions and partitions, any requests, page
size and depth: `WatchInvariance`, the invariant of the subscriptions, their goroutines,
the dispatchers and the reads, on which the next module builds.

**`DeliveryProofs`**: `NothingIsMissed`, that is
`WatchSpec /\ []PollKeepsUp /\ []PagesWhole => []NothingMissed`. The premises are what
the code relies on and does not check: no more than a page of events and no
compaction past `lastRev` between two polls, and full replay pages that end with a
whole commit. The runs `poll_batch` and `replay_pages` show what happens without
them. The third, `PrefixWatches`, leaves out general ranges, of which `watchPrefix`
makes no prefix that covers them, and prefixes with a backslash, of which the replay may
leave out keys. `DeliveryInv` says that an event the poll loop has
gone past since a client subscribed is received, in its channel or held by the
dispatcher about to send it (`Caught`), that the same holds for what the replay has
gone past (`ReplayedPast`), and that a page leaves out only what comes after it
(`PageExact`, `PollPage`). The invariant and the steps that begin and end a
subscription are at the end of `WatcherProofs`, the other steps in this module.

The same module has `SentinelAlwaysFits`, `WatchSpec => []SentinelFits`, for any finite
number of partitions. `Room` says of a subscription whose channel has been drained that
what is in the channel and the dispatchers that saw it open are together no more than
the dispatchers there are: one of them that sends becomes a batch, and none that looks
later finds it open.

**`ServingProofs`**, for any number of watches, tokens and keys, any channel
capacities, lifetimes and page size: `CancelsOwn`, `ResponsesAreInOrder`,
`TokensAreHonoured`, `MigrationIsComplete`,
`VerifiedKeysAreThere`. The invariant has four parts. `StreamInv`: an id is in
`cancelledCh` only after the store ended its subscription and a cancel is in `reqCh`
only after the client asked, and ids not given out yet have no `watchLoop`; so the id
that the main loop drains late cannot be one of a newer watch. `OrderInv`: as long as
the sender runs, the responses of a watch that were made and not sent are in
`respCh`, so none is sent out of turn. `ServingInv`: a token whose lifetime is not
over is in the map. `ToolInv`: as long as
the source was not written, every key before the tool's position is copied or a
failure is recorded (`CopyInv`; a full page ends with its largest key, a short one
with the last key of the source), and during verification what was read is still to
be compared, equal, or recorded as bad (`CompareInv`).

Modelling assumptions: Spanner transactions are serializable and commit
timestamps strictly increase, as the comment at `pkg/schema/schema.go:22` says
(`CommitTimestamp` is the only place that uses it); the migration's destination
has no other clients and its batch size is not zero.

Every invariant and every action property the passing runs check is proved, under the
premises named above; `ReadTypeOK` and `AfterComplete` also hold beside RPCs and
watches, since `ServerIInv` and `WatchIInv` contain the invariant of the reads. Only
model-checked are the liveness properties (`LeaseExpires`, `EventArrives`,
`CancelledIsTold`, `EveryRowDispatched`, `ShutdownReturns`, `StoreEndIsTold`,
`StreamWindsDown`, `ExpiredTokenCollected`, `ShutdownEnds`): liveness under fairness
is outside what TLAPS can do, as are `ENABLED` and induction over recursive
definitions.

## 5. What is not modelled

Whole parts: the maintenance and cluster RPCs (fixed or stateless answers), metrics,
benchmarks, DDL, TLS, flags and start-up. They keep no state the rest reads.

Inside the modelled parts:

* a commit whose acknowledgement is lost (the client sees an error, the row is
  there); only the migration tool's `Put` has this case;
* the poll interval. `csHealthy` only decides how often the loop polls; it is set
  10 seconds after the change stream was started even if that failed
  (`pkg/store/watch.go:342`), which slows polling to every 30 seconds. Nothing the
  properties promise depends on the interval, but events come later and more of
  them come between two polls (see `poll_batch`);
* what a change record is decoded to: its events have no previous value;
* progress responses of a watch, which may be ahead of events not yet sent;
* a grant whose insert takes longer than its TTL;
* `Version`, which the code computes from revisions;
* tokens across replicas: each keeps its own, so one replica's token is unknown to
  the others.
