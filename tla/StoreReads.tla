---------------------------- MODULE StoreReads ----------------------------
(***************************************************************************)
(* The reads of pkg/store/store.go: Get, List, Count and After.  None is a *)
(* transaction.  Each is a sequence of Single() reads, every one of a      *)
(* fresh snapshot: first the current revision, which caps what the read    *)
(* may see, then the compaction revision, which decides ErrCompacted, then *)
(* the rows.  Writers and compaction passes take steps in between.         *)
(*                                                                         *)
(* A key prefix is modelled by the set of keys it selects.  Keys are       *)
(* numbered in the order Spanner sorts them.                               *)
(***************************************************************************)
EXTENDS KVStore

CONSTANTS
    Reader,       \* reads in progress at once, on any replica
    ReadRequest   \* the reads clients ask for

\* The arguments of a read.  Get has one key and no limit, Count no limit.  A
\* limit of 0 is "no limit"; After returns what is above its revision.
Request == [op : {"get", "list", "count", "after"}, keys : SUBSET Key,
            limit : Nat, revision : Revision]

ASSUME ReadAssumption ==
    /\ Key \subseteq Nat
    /\ ReadRequest \subseteq Request
    /\ \A q \in ReadRequest :
          /\ q.op \in {"get", "count"} => q.limit = 0
          /\ q.op = "get" => Cardinality(q.keys) = 1

VARIABLE reader  \* reader[r]: the read r is doing, or has just answered

readVars == <<kv, compactRev, clock, pass, written, reader>>

ReadState == [pc : {"idle", "check", "query", "compacted", "answered"},
              req : Request,
              currentRev : Revision, \* the current revision it read
              horizon : Target,      \* history: kv_rev when the rows were read
              asOf : Revision,       \* history: last commit when they were
              rows : SUBSET Row]     \* the rows returned

NoRead == [pc |-> "idle",
           req |-> [op |-> "get", keys |-> {}, limit |-> 0, revision |-> 0],
           currentRev |-> 0, horizon |-> 0, asOf |-> 0, rows |-> {}]

-----------------------------------------------------------------------------
(* Queries. *)

revCap(revision, currentRev) == IF revision > 0 THEN revision ELSE currentRev

\* Variant: the newest row of all, when it is at or below cap.
LiveAtUncapped(keys, cap) ==
    {r \in kv : /\ r.key \in keys /\ r.rev <= cap /\ ~r.deleted
                /\ \A s \in kv : s.key = r.key => s.rev <= r.rev}

\* The newest row of each of keys at or below cap, tombstones left out.
LiveAt(keys, cap) ==
    {r \in kv : /\ r.key \in keys /\ r.rev <= cap /\ ~r.deleted
                /\ \A s \in kv : s.key = r.key /\ s.rev <= cap => s.rev <= r.rev}

KeyOrder(a, b) == a.key < b.key

\* Variant: ORDER BY rev DESC.
RevOrderDescending(a, b) == a.rev > b.rev

RevOrder(a, b) == a.rev < b.rev

Before(op, a, b) == IF op = "after" THEN RevOrder(a, b) ELSE KeyOrder(a, b)

\* ORDER BY .. LIMIT: a prefix of rows in the order of read op, of the length
\* the limit allows.  Rows that tie (same commit timestamp) may come in any
\* order.
LimitedTo(op, limit, rows) ==
    IF limit = 0 \/ Cardinality(rows) <= limit THEN {rows}
    ELSE {s \in SUBSET rows :
            /\ s # {} /\ Cardinality(s) = limit
            /\ \A a \in s, b \in rows \ s : ~Before(op, b, a)}

EventsAfter(keys, afterRev) == {r \in kv : r.key \in keys /\ r.rev > afterRev}

-----------------------------------------------------------------------------
(* The steps of a read. *)

\* Read the current revision, and go on to the compaction revision or to the
\* rows.
Begin(r, req, next) ==
    /\ reader[r].pc \in {"idle", "compacted", "answered"}
    /\ reader' = [reader EXCEPT ![r] =
            [NoRead EXCEPT !.pc = next, !.req = req, !.currentRev = CurrentRevision]]
    /\ UNCHANGED vars

\* Get, Count and After skip the compaction check when the revision is 0.
Get(r, req) ==
    /\ req.op = "get"
    /\ Begin(r, req, IF req.revision > 0 THEN "check" ELSE "query")

Count(r, req) ==
    /\ req.op = "count"
    /\ Begin(r, req, IF req.revision > 0 THEN "check" ELSE "query")

After(r, req) ==
    /\ req.op = "after"
    /\ Begin(r, req, IF req.revision > 0 THEN "check" ELSE "query")

List(r, req) ==
    /\ req.op = "list"
    /\ Begin(r, req, "check")

\* The revision asked for is compacted.  After excludes its revision, the
\* other reads include it.
IsCompacted(req) ==
    IF req.op = "after" THEN req.revision < compactRev
    ELSE compactRev > 1 /\ req.revision > 0 /\ req.revision <= compactRev

CheckCompacted(r) ==
    /\ reader[r].pc = "check"
    /\ reader' = [reader EXCEPT ![r].pc =
                    IF IsCompacted(reader[r].req) THEN "compacted" ELSE "query"]
    /\ UNCHANGED vars

\* No read sees rows above its cap.
Cap(rd) == revCap(rd.req.revision, rd.currentRev)

\* What the query of a read may return.
Answers(rd) ==
    CASE rd.req.op \in {"get", "count"} -> {LiveAt(rd.req.keys, Cap(rd))}
      [] rd.req.op = "list" ->
            LimitedTo("list", rd.req.limit, LiveAt(rd.req.keys, Cap(rd)))
      [] rd.req.op = "after" ->
            LimitedTo("after", rd.req.limit, EventsAfter(rd.req.keys, rd.req.revision))

Query(r) ==
    /\ reader[r].pc = "query"
    /\ \E rows \in Answers(reader[r]) :
          reader' = [reader EXCEPT ![r].pc = "answered", ![r].rows = rows,
                                   ![r].horizon = compactRev, ![r].asOf = clock]
    /\ UNCHANGED vars

\* A Spanner error: the caller gets the error and no rows.
ReadError(r) ==
    /\ reader[r].pc \in {"check", "query"}
    /\ reader' = [reader EXCEPT ![r] = NoRead]
    /\ UNCHANGED vars

-----------------------------------------------------------------------------
ReadInit == Init /\ reader = [r \in Reader |-> NoRead]

ReadStep(r) ==
    \/ \E req \in ReadRequest :
          Get(r, req) \/ Count(r, req) \/ After(r, req) \/ List(r, req)
    \/ CheckCompacted(r)
    \/ Query(r)
    \/ ReadError(r)

\* Compaction as a caller of the store sees it: kv_rev rises, to any revision a
\* client names, and rows it allows to go do go, in any order and any number.
\* This is all a pass can do to the tables: a row it scanned stays superseded
\* until it is deleted (PassSafe of KVStore).
HorizonRises ==
    /\ \E target \in Target : target > compactRev /\ RecordCompactRev(target)
    /\ UNCHANGED <<kv, clock, pass, written>>

RowCompacted ==
    /\ \E r \in Eligible(compactRev) : kv' = kv \ {r}
    /\ UNCHANGED <<compactRev, clock, pass, written>>

ReadNext ==
    \/ Next /\ UNCHANGED reader
    \/ \E r \in Reader : ReadStep(r)

ReadSpec == ReadInit /\ [][ReadNext]_readVars

-----------------------------------------------------------------------------
(* Properties. *)

\* Every read in progress is well formed.
ReadTypeOK == reader \in [Reader -> ReadState]

\* Rows in the answer to a read of a snapshot, and to a read of events.
SnapshotRead(rd) == rd.pc = "answered" /\ rd.req.op # "after"

EventRead(rd) == rd.pc = "answered" /\ rd.req.op = "after"

\* Row w is what a read of its key should see: the newest, at or below the
\* cap, of all rows ever written before the rows were read.
Visible(rd, w) ==
    LET inScope(s) == /\ s.key = w.key /\ s.rev <= rd.asOf
                      /\ s.rev <= Cap(rd)
    IN  inScope(w) /\ \A s \in written : inScope(s) => s.rev <= w.rev

\* The limit did not cut off key k.
Covered(rd, k) ==
    \/ rd.req.limit = 0 \/ Cardinality(rd.rows) < rd.req.limit
    \/ \E r \in rd.rows : k <= r.key

NewestEver(w) == \A s \in written : s.key = w.key => s.rev <= w.rev

\* Get, List and Count answer with the row they should for every key whose
\* row is above the compaction revision or has not been superseded since: no
\* interleaving of writes and compaction between the three reads of a Get
\* shows such a key as missing, live after its deletion, or with a stale row.
SnapshotExact ==
    \A r \in Reader : SnapshotRead(reader[r]) =>
        \A w \in written :
            /\ w.key \in reader[r].req.keys
            /\ Covered(reader[r], w.key)
            /\ Visible(reader[r], w)
            /\ w.rev > compactRev \/ NewestEver(w)
            => {s \in reader[r].rows : s.key = w.key} = IF w.deleted THEN {} ELSE {w}

\* After returns every event of its keys above its revision, up to the limit,
\* that was still above the compaction revision by the time the rows were read,
\* though rows are deleted while it runs.
AfterComplete ==
    \A r \in Reader : EventRead(reader[r]) =>
        \A w \in written :
            /\ w.key \in reader[r].req.keys
            /\ reader[r].req.revision < w.rev /\ w.rev <= reader[r].asOf
            /\ reader[r].horizon < w.rev
            /\ \/ reader[r].req.limit = 0
               \/ Cardinality(reader[r].rows) < reader[r].req.limit
               \/ \E last \in reader[r].rows : w.rev < last.rev
            => w \in reader[r].rows

=============================================================================
