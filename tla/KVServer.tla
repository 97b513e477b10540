----------------------------- MODULE KVServer -----------------------------
(***************************************************************************)
(* The KV service (pkg/server/kv.go): how its RPCs are put together from   *)
(* calls of the store.  Txn with simple operations is the store's          *)
(* AtomicTxn.  Put, DeleteRange over a range, and Txn with operations that *)
(* do not fit one Spanner transaction are sequences of store calls with no *)
(* lock between them, so everything other clients, lease expiry and        *)
(* compaction do may come in between.                                      *)
(*                                                                         *)
(* A call that reads uses the read of StoreReads with its own name, so a   *)
(* Get inside a Put is itself three interleavable reads.                   *)
(***************************************************************************)
EXTENDS StoreReads, KeyRanges

CONSTANTS
    ServerRequest  \* the RPCs clients make

\* An operation of an RPC; limit, revision and countOnly are a range's.  A put
\* has a key, and what a request writes is one of the keys.
ServerOp ==
    {op \in [type : {"put", "delete", "range"}, range : KeyRange, value : Value,
             lease : LeaseOrNone, ignoreValue : BOOLEAN, ignoreLease : BOOLEAN,
             limit : Nat, revision : Revision, countOnly : BOOLEAN] :
        /\ op.type = "put" => op.range.end = <<>>
        /\ op.type # "range" /\ op.range.end = <<>> => Listed(op.range) # {}}

\* Range, Put and DeleteRange are requests with one operation and no compares;
\* a bare DeleteRange goes on after an error, one inside a Txn stops.
ASSUME ServerAssumption ==
    /\ DOMAIN KeyName = Key
    /\ \A q \in ServerRequest :
          /\ q.rpc \in {"range", "put", "deleteRange", "txn"}
          /\ q.compares \in Seq(TxnCompare)
          /\ q.success \in Seq(ServerOp)
          /\ q.failure \in Seq(ServerOp)

VARIABLE call  \* call[c]: the RPC client c waits for

serverVars == <<kv, compactRev, clock, pass, written, reader, call>>

\* pc is the next store call.  todo: keys a range delete has still to delete.
\* modRev: the revision the next compare-and-set expects.  start, decided:
\* history, the last commit when the call began and when its branch was
\* chosen.  done: history, the operations finished and their revisions.
NoCall == [pc |-> "idle", req |-> {}, compares |-> <<>>, ops |-> <<>>,
           succeeded |-> TRUE, todo |-> {}, modRev |-> 0, value |-> NoValue,
           lease |-> 0, start |-> 0, decided |-> 0, done |-> <<>>]

Set(c, new) == call' = [call EXCEPT ![c] = new]

-----------------------------------------------------------------------------
(* Reads made on behalf of a call. *)

SingleKey(op) == op.range.end = <<>>

TheKey(op) == CHOOSE k \in Listed(op.range) : TRUE

ReadOf(op, keys) == [op |-> op, keys |-> keys, limit |-> 0, revision |-> 0]

Ask(c, req) ==
    /\ reader[c].pc = "idle"
    /\ Get(c, req) \/ List(c, req) \/ Count(c, req)
    /\ UNCHANGED call

\* The call takes the answer, and its next read starts afresh.
Answered(c) ==
    /\ reader[c].pc = "answered"
    /\ reader' = [reader EXCEPT ![c] = NoRead]
    /\ UNCHANGED vars

ReadGoesOn(c) == (CheckCompacted(c) \/ Query(c)) /\ UNCHANGED call

\* The client gets an error.
Fail(c) == Set(c, [call[c] EXCEPT !.pc = "failed"])

\* A read fails: the RPC returns the error, what it wrote stays.
ReadFails(c) == ReadError(c) /\ Fail(c)

\* So does one of a compacted revision.
ReadCompacted(c) ==
    /\ reader[c].pc = "compacted"
    /\ reader' = [reader EXCEPT ![c] = NoRead]
    /\ UNCHANGED vars
    /\ Fail(c)

-----------------------------------------------------------------------------
(* Calls. *)

\* Two mutations of one key in a branch; a range delete is not looked into.
DuplicateKey(ops) ==
    \E i, j \in DOMAIN ops :
        /\ i # j /\ ops[i].type # "range" /\ ops[j].type # "range"
        /\ SingleKey(ops[i]) /\ ops[i].range = ops[j].range

\* A Txn with such a branch is refused.
StartCall(c, q) ==
    /\ call[c].pc \in {"idle", "answered", "failed"}
    /\ ~DuplicateKey(q.success) /\ ~DuplicateKey(q.failure)
    /\ Set(c, [NoCall EXCEPT !.pc = "compare", !.req = q, !.compares = q.compares,
                             !.start = clock, !.decided = clock])
    /\ UNCHANGED <<vars, reader>>

\* evaluateCompare: one Get per compare; the first that fails decides.
CompareAsk(c) ==
    /\ call[c].pc = "compare" /\ call[c].compares # <<>>
    /\ Ask(c, ReadOf("get", {Head(call[c].compares).key}))

ModRevOf(rows) == IF rows = {} THEN 0 ELSE (CHOOSE r \in rows : TRUE).rev

Choose(c, succeeded) ==
    Set(c, [call[c] EXCEPT !.pc = "op", !.succeeded = succeeded, !.compares = <<>>,
                           !.ops = IF succeeded THEN call[c].req.success
                                   ELSE call[c].req.failure,
                           !.decided = clock])

\* Variant: the last compare decides.
CompareReadLast(c) ==
    /\ call[c].pc = "compare" /\ call[c].compares # <<>>
    /\ Answered(c)
    /\ IF \/ ModRevOf(reader[c].rows) = Head(call[c].compares).modRev
          \/ Len(call[c].compares) > 1
       THEN Set(c, [call[c] EXCEPT !.compares = Tail(call[c].compares)])
       ELSE Choose(c, FALSE)

CompareRead(c) ==
    /\ call[c].pc = "compare" /\ call[c].compares # <<>>
    /\ Answered(c)
    /\ IF ModRevOf(reader[c].rows) = Head(call[c].compares).modRev
       THEN Set(c, [call[c] EXCEPT !.compares = Tail(call[c].compares)])
       ELSE Choose(c, FALSE)

CompareHolds(c) ==
    /\ call[c].pc = "compare" /\ call[c].compares = <<>>
    /\ Choose(c, TRUE)
    /\ UNCHANGED <<vars, reader>>

\* What the call makes of the keys a List returns.  A Txn keeps to the end of
\* the range, a bare Range or DeleteRange does not.
Taken(c, rows) ==
    {r \in rows : call[c].req.rpc = "txn" => BelowEnd(Head(call[c].ops).range, r.key)}

\* An operation is finished; rev is its revision, applied whether it wrote.
Finish(c, rev, applied) ==
    Set(c, [call[c] EXCEPT
        !.pc = IF Len(call[c].ops) = 1 THEN "answered" ELSE "op",
        !.ops = Tail(call[c].ops), !.todo = {}, !.modRev = 0,
        !.done = Append(call[c].done,
            [op |-> Head(call[c].ops), rev |-> rev, applied |-> applied,
             rows |-> IF Head(call[c].ops).countOnly THEN reader[c].rows
                     ELSE Taken(c, reader[c].rows),
             at |-> Max2(clock, rev)])])

\* A Txn with no operation to run answers with the current revision, unless
\* reading that fails.
NoOps(c) ==
    /\ call[c].pc = "op" /\ call[c].ops = <<>>
    /\ \E pc \in {"answered", "failed"} : Set(c, [call[c] EXCEPT !.pc = pc])
    /\ UNCHANGED <<vars, reader>>

AtOp(c, type) ==
    call[c].pc = "op" /\ call[c].ops # <<>> /\ Head(call[c].ops).type = type

-----------------------------------------------------------------------------
(* Put: Create, and when the key exists Get and then Update. *)

\* Only a Txn's put honours IgnoreValue and IgnoreLease; a bare Put does not
\* look at them.
Ignores(c) ==
    /\ call[c].req.rpc = "txn"
    /\ Head(call[c].ops).ignoreValue \/ Head(call[c].ops).ignoreLease

PutCreate(c) ==
    /\ AtOp(c, "put") /\ ~Ignores(c)
    /\ LET op == Head(call[c].ops) IN
       IF keyExistsTxn(TheKey(op))
       THEN /\ Set(c, [call[c] EXCEPT !.pc = "get"])
            /\ UNCHANGED vars
       ELSE /\ Create(TheKey(op), op.value, op.lease)
            /\ Finish(c, CommitTimestamp, TRUE)
    /\ UNCHANGED reader

PutAsk(c) ==
    /\ call[c].pc = "get"
    /\ Ask(c, ReadOf("get", Listed(Head(call[c].ops).range)))

\* Variant: the create revision is taken for the mod revision.
PutReadCreateRev(c) ==
    /\ call[c].pc = "get"
    /\ Answered(c)
    /\ LET op == Head(call[c].ops)
           createRevs == {r.createRev : r \in reader[c].rows} \cup {0}
       IN  Set(c, [call[c] EXCEPT !.pc = "update", !.value = op.value, !.lease = op.lease,
                       !.modRev = CHOOSE n \in createRevs : \A m \in createRevs : m <= n])

\* A key that reads as missing gives revision 0.
PutRead(c) ==
    /\ call[c].pc = "get"
    /\ Answered(c)
    /\ LET op == Head(call[c].ops) IN
       Set(c, [call[c] EXCEPT !.pc = "update", !.modRev = ModRevOf(reader[c].rows),
                              !.value = op.value, !.lease = op.lease])

\* IgnoreValue and IgnoreLease: the value or lease just read is written back,
\* and a key that reads as missing is an error.
IgnoreAsk(c) ==
    /\ AtOp(c, "put") /\ Ignores(c)
    /\ Ask(c, ReadOf("get", Listed(Head(call[c].ops).range)))

IgnoreRead(c) ==
    /\ AtOp(c, "put") /\ Ignores(c)
    /\ Answered(c)
    /\ LET op == Head(call[c].ops) IN
       IF reader[c].rows = {} THEN Fail(c)
       ELSE \E cur \in reader[c].rows :
            Set(c, [call[c] EXCEPT !.pc = "update", !.modRev = cur.rev,
                        !.value = IF op.ignoreValue THEN cur.value ELSE op.value,
                        !.lease = IF op.ignoreLease THEN cur.lease ELSE op.lease])

CanUpdate(c) ==
    \E prev \in getLatestTxn(TheKey(Head(call[c].ops))) : prev.rev = call[c].modRev

\* Variant: without the compare-and-set.
PutUpdateAnyRev(c) ==
    /\ call[c].pc = "update"
    /\ LET k == TheKey(Head(call[c].ops)) IN
       \E prev \in getLatestTxn(k) : Update(k, call[c].value, prev.rev, call[c].lease)
    /\ Finish(c, CommitTimestamp, TRUE)
    /\ UNCHANGED reader

PutUpdate(c) ==
    /\ call[c].pc = "update" /\ CanUpdate(c)
    /\ Update(TheKey(Head(call[c].ops)), call[c].value, call[c].modRev, call[c].lease)
    /\ Finish(c, CommitTimestamp, TRUE)
    /\ UNCHANGED reader

\* The compare-and-set fails.  A put that ignores nothing does not look at
\* Update's ok and answers with the current revision.  Update reads that after
\* its transaction; it is of no use but in the response header, so that it is
\* no step of its own here, nor in DeleteKey.
PutMismatch(c) ==
    /\ call[c].pc = "update" /\ ~CanUpdate(c)
    /\ IF Ignores(c) THEN Fail(c)
       ELSE Finish(c, CurrentRevision, FALSE)
    /\ UNCHANGED <<vars, reader>>

-----------------------------------------------------------------------------
(* DeleteRange and Range. *)

DeleteKey(c) ==
    /\ AtOp(c, "delete") /\ SingleKey(Head(call[c].ops))
    /\ LET k == TheKey(Head(call[c].ops)) IN
       IF keyExistsTxn(k)
       THEN Delete(k, 0) /\ Finish(c, CommitTimestamp, TRUE)
       ELSE Finish(c, CurrentRevision, FALSE) /\ UNCHANGED vars
    /\ UNCHANGED reader

\* Variant: only the first page of keys is listed.
DeleteAskOnePage(c) ==
    /\ AtOp(c, "delete") /\ ~SingleKey(Head(call[c].ops))
    /\ Ask(c, [ReadOf("list", Listed(Head(call[c].ops).range)) EXCEPT !.limit = 1])

DeleteAsk(c) ==
    /\ AtOp(c, "delete") /\ ~SingleKey(Head(call[c].ops))
    /\ Ask(c, ReadOf("list", Listed(Head(call[c].ops).range)))

DeleteRead(c) ==
    /\ AtOp(c, "delete") /\ ~SingleKey(Head(call[c].ops))
    /\ Answered(c)
    /\ Set(c, [call[c] EXCEPT !.pc = "each", !.todo = {r.key : r \in Taken(c, reader[c].rows)}])

\* The keys listed are deleted one transaction at a time, in key order,
\* whatever their revision is by then.
DeleteEach(c) ==
    /\ call[c].pc = "each"
    /\ \E k \in call[c].todo :
        /\ \A other \in call[c].todo : k <= other
        /\ IF keyExistsTxn(k)
           THEN /\ Delete(k, 0)
                /\ Set(c, [call[c] EXCEPT !.todo = @ \ {k}, !.modRev = CommitTimestamp])
           ELSE /\ Set(c, [call[c] EXCEPT !.todo = @ \ {k}])
                /\ UNCHANGED vars
    /\ UNCHANGED reader

DeleteDone(c) ==
    /\ call[c].pc = "each" /\ call[c].todo = {}
    /\ Finish(c, IF call[c].modRev = 0 THEN CurrentRevision ELSE call[c].modRev,
              call[c].modRev # 0)
    /\ UNCHANGED <<vars, reader>>

\* A key is read with Get, which has no limit, a range with Count or List.
RangeAsk(c) ==
    /\ AtOp(c, "range")
    /\ LET op == Head(call[c].ops)
           read == CASE SingleKey(op) -> "get"
                     [] ~SingleKey(op) /\ op.countOnly -> "count"
                     [] ~SingleKey(op) /\ ~op.countOnly -> "list"
       IN  Ask(c, [op |-> read, keys |-> Listed(op.range), revision |-> op.revision,
                   limit |-> IF read = "list" THEN op.limit ELSE 0])

RangeRead(c) ==
    /\ AtOp(c, "range")
    /\ Answered(c)
    /\ Finish(c, reader[c].currentRev, FALSE)

\* A store call fails.  Only a bare DeleteRange over a range goes on, with
\* the next key; the key is not reported.
StoreError(c) ==
    /\ call[c].pc \in {"op", "update", "each"} /\ call[c].ops # <<>>
    /\ reader[c].pc = "idle"
    /\ IF call[c].pc = "each" /\ call[c].req.rpc = "deleteRange"
       THEN \E k \in call[c].todo :
                /\ \A other \in call[c].todo : k <= other
                /\ Set(c, [call[c] EXCEPT !.todo = @ \ {k}])
       ELSE Fail(c)
    /\ UNCHANGED <<vars, reader>>

-----------------------------------------------------------------------------
ServerInit == ReadInit /\ call = [c \in Reader |-> NoCall]

CallStep(c) ==
    \/ \E q \in ServerRequest : StartCall(c, q)
    \/ CompareAsk(c) \/ CompareRead(c) \/ CompareHolds(c) \/ NoOps(c)
    \/ PutCreate(c) \/ PutAsk(c) \/ PutRead(c) \/ IgnoreAsk(c) \/ IgnoreRead(c)
    \/ PutUpdate(c) \/ PutMismatch(c)
    \/ DeleteKey(c) \/ DeleteAsk(c) \/ DeleteRead(c) \/ DeleteEach(c) \/ DeleteDone(c)
    \/ RangeAsk(c) \/ RangeRead(c)
    \/ ReadGoesOn(c) \/ ReadFails(c) \/ ReadCompacted(c) \/ StoreError(c)

\* What goes on beside the calls: atomic Txns, lease expiry, compaction.
Background ==
    \/ \E t \in TxnRequest : AtomicTxn(t)
    \/ \E k \in Key, l \in Lease : DeleteIfLease(k, l)
    \/ HorizonRises \/ RowCompacted

ServerNext ==
    \/ Background /\ UNCHANGED <<reader, call>>
    \/ \E c \in Reader : CallStep(c)

ServerSpec == ServerInit /\ [][ServerNext]_serverVars

-----------------------------------------------------------------------------
(* Properties. *)

\* The finished operations of all calls, with the call they are part of.
Finished == UNION {{c} \X DOMAIN call[c].done : c \in Reader}

DoneOp(f) == call[f[1]].done[f[2]]

\* What key k held after the commit at revision rev.
HeldAt(k, rev) ==
    {w \in written : w.key = k /\ w.rev <= rev
                     /\ \A s \in written : s.key = k /\ s.rev <= rev => s.rev <= w.rev}

WrittenBetween(k, from, to) ==
    \E w \in written : w.key = k /\ from < w.rev /\ w.rev <= to

\* A Put that is acknowledged without having written lost a race: somebody
\* else wrote the key during the call.  Compaction alone never defeats it.
PutLostOnlyToRace ==
    \A f \in Finished :
        DoneOp(f).op.type = "put" /\ ~DoneOp(f).applied =>
            WrittenBetween(TheKey(DoneOp(f).op), call[f[1]].start, DoneOp(f).at)

\* A put of a Txn that keeps the value (IgnoreValue) or the lease
\* (IgnoreLease) keeps the one of the row it replaces, not one that was
\* current when it looked.
IgnoredFieldKept ==
    \A f \in Finished :
        DoneOp(f).op.type = "put" /\ DoneOp(f).applied /\ call[f[1]].req.rpc = "txn" =>
            \A w \in written : w.key = TheKey(DoneOp(f).op) /\ w.rev = DoneOp(f).rev =>
                /\ DoneOp(f).op.ignoreValue => w.value = w.oldValue
                /\ DoneOp(f).op.ignoreLease =>
                      \E p \in written : p.key = w.key /\ p.rev = w.prevRev
                                         /\ p.lease = w.lease

\* A range delete that met no error leaves none of the keys it should: a key
\* live when the call began, in a row above the compaction revision, has been
\* deleted since, by this call or by someone else.
DeleteRangeComplete ==
    \A f \in Finished :
        DoneOp(f).op.type = "delete" /\ call[f[1]].req.rpc = "txn" =>
            \A k \in {k \in Key : InRange(DoneOp(f).op.range, k)} : \A w \in HeldAt(k, call[f[1]].start) :
                ~w.deleted /\ w.rev > compactRev =>
                    \E t \in written : /\ t.key = k /\ t.deleted
                                       /\ w.rev < t.rev /\ t.rev <= DoneOp(f).at

\* A Range or DeleteRange in a Txn, of a key, a prefix or everything from a key
\* on, answers with and deletes no key outside the range, though the prefix it
\* looks up is shorter than the range's and LIKE takes its bytes for wildcards.
TxnRangeExact ==
    /\ \A f \in Finished :
          call[f[1]].req.rpc = "txn" /\ ~DoneOp(f).op.countOnly =>
              \A r \in DoneOp(f).rows : InRange(DoneOp(f).op.range, r.key)
    /\ \A c \in Reader :
          call[c].pc = "each" /\ call[c].req.rpc = "txn" =>
              \A k \in call[c].todo : InRange(Head(call[c].ops).range, k)

\* The non-atomic Txn takes the branch an atomic one would have, when nobody
\* writes the compared keys while it compares.
CompareExact ==
    \A c \in Reader :
        /\ call[c].pc \in {"op", "get", "update", "each", "answered"}
        /\ call[c].req.rpc = "txn"
        /\ \A i \in DOMAIN call[c].req.compares :
              ~WrittenBetween(call[c].req.compares[i].key, call[c].start, call[c].decided)
        => call[c].succeeded =
              \A i \in DOMAIN call[c].req.compares :
                LET k == call[c].req.compares[i].key
                    live == {w \in HeldAt(k, call[c].start) : ~w.deleted}
                IN  ModRevOf(live) = call[c].req.compares[i].modRev

\* "Put: Create + unconditional update": an acknowledged Put has written its
\* value.
PutApplied ==
    \A f \in Finished : DoneOp(f).op.type = "put" => DoneOp(f).applied

=============================================================================
