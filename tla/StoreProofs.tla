---------------------------- MODULE StoreProofs ----------------------------
(***************************************************************************)
(* Proofs about KVStore, for every set of keys, values, leases, requests   *)
(* and concurrent compaction passes, and every batch size and age; and     *)
(* about StoreReads, for any readers, requests and limits beside it.       *)
(*                                                                         *)
(* The key fact is CurrentRowIsNewest: the row a transaction reads as the  *)
(* newest of the compacted table is the newest of the full history.  It    *)
(* follows from NewestRowKept, and NewestRowKept needs PassSafe, because   *)
(* a batch is deleted some time after it was read.                         *)
(*                                                                         *)
(* What a read answers is judged against the history written.  It is exact *)
(* at the step that reads the rows because of the store's invariant, and   *)
(* stays so because later commits are above asOf and the conditions under  *)
(* which the properties speak of a row only become harder to meet.         *)
(*                                                                         *)
(* The last section is about the key ranges both the KV service and the    *)
(* watches use.                                                            *)
(***************************************************************************)
EXTENDS StoreReads, KeyRanges, TLAPS

\* SMT is the prover of a step that does not name another; it has a minute.
USE SMTT(60)

-----------------------------------------------------------------------------
(* The newest row of a key in the compacted table is its newest row ever:  *)
(* what a transaction reads as current is current.                         *)
LEMMA CurrentRowIsNewest ==
    ASSUME IInv, NEW k, NEW r \in NewestRows(kv, k)
    PROVE  r \in NewestRows(written, k)
<1>1. r \in written /\ r.key = k
  BY DEF NewestRows, IInv, TypeOK
<1>2. PICK m \in written : /\ m.key = k
                           /\ \A s \in written : s.key = k => s.rev <= m.rev
  BY <1>1, ZenonT(60) DEF IInv, RevisionBounds
<1>3. m \in kv
  BY <1>2 DEF IInv, NewestRowKept
<1>4. m.rev <= r.rev
  BY <1>2, <1>3 DEF NewestRows
<1>5. ASSUME NEW s \in written, s.key = k PROVE s.rev <= r.rev
  <2>1. s.rev \in Nat /\ m.rev \in Nat /\ r.rev \in Nat
    BY <1>1 DEF IInv, TypeOK, Row, Revision
  <2> QED BY <2>1, <1>2, <1>4, <1>5
<1> QED BY <1>1, <1>5 DEF NewestRows

-----------------------------------------------------------------------------
(* Committing a transaction. *)

(* What every write hands to Commit: rows of the next commit timestamp, each *)
(* the first of a lifetime of a key that is not live or a continuation of   *)
(* the row read as current, and at most one per key.                        *)
ValidRow(w) ==
    /\ w \in Row
    /\ w.rev = CommitTimestamp
    /\ \/ StartsLifetime(w) /\ getLatestTxn(w.key) = {}
       \/ \E p \in getLatestTxn(w.key) : Continues(w, p)

ValidInsert(rows) ==
    /\ rows # {}
    /\ \A w \in rows : ValidRow(w)
    /\ \A w, r \in rows : w.key = r.key => w = r

(* An inserted row supersedes the row that was newest of its key, and only  *)
(* that one.                                                                *)
LEMMA InsertSupersedes ==
    ASSUME IInv, NEW rows, ValidInsert(rows), Commit(rows), NEW w \in rows
    PROVE  /\ \A p \in NewestRows(written, w.key) : Supersedes(w, p)'
           /\ \A p \in written' : Supersedes(w, p)' => p \in NewestRows(kv, w.key)
<1>1. /\ written' = written \cup rows
      /\ clock \in Nat /\ w.rev = clock + 1
      /\ \A r \in rows : r.rev = clock + 1
      /\ \A r \in written : r.rev \in Nat /\ r.rev <= clock
  BY DEF Commit, ValidInsert, ValidRow, CommitTimestamp, IInv, TypeOK, RevisionBounds,
         Row, Revision
<1>2. ASSUME NEW p \in NewestRows(written, w.key) PROVE Supersedes(w, p)'
  BY <1>1, <1>2 DEF NewestRows, Supersedes
<1>3. ASSUME NEW p \in written', Supersedes(w, p)'
      PROVE  p \in NewestRows(kv, w.key)
  <2>1. p.key = w.key /\ p.rev < w.rev
    BY <1>3 DEF Supersedes
  <2>2. p \in written
    BY <2>1, <1>1
  <2>3. ASSUME NEW r \in written, r.key = w.key PROVE r.rev <= p.rev
    BY <1>1, <1>3, <2>2, <2>3 DEF Supersedes
  <2>4. p \in kv
    BY <2>1, <2>2, <2>3 DEF IInv, NewestRowKept
  <2> QED BY <2>1, <2>3, <2>4 DEF NewestRows, IInv, TypeOK
<1> QED BY <1>2, <1>3

(* The full history stays chained. *)
LEMMA CommitChained ==
    ASSUME IInv, NEW rows, ValidInsert(rows), Commit(rows)
    PROVE  HistoryChained'
<1>1. /\ written' = written \cup rows
      /\ clock \in Nat
      /\ \A r \in rows : r.rev = clock + 1
      /\ \A r \in written : r.rev \in Nat /\ r.rev <= clock
  BY DEF Commit, ValidInsert, ValidRow, CommitTimestamp, IInv, TypeOK, RevisionBounds,
         Row, Revision
<1>2. ASSUME NEW w \in written', NEW r \in written', w.key = r.key, w.rev = r.rev
      PROVE  w = r
  <2>1. CASE w \in written /\ r \in written
    BY <2>1, <1>2 DEF IInv, HistoryChained
  <2>2. CASE w \in rows /\ r \in rows
    BY <2>2, <1>2 DEF ValidInsert
  <2> QED BY <1>1, <1>2, <2>1, <2>2
<1>3. ASSUME NEW w \in written
      PROVE  \/ /\ StartsLifetime(w)
                /\ \A p \in written' : Supersedes(w, p)' => p.deleted
             \/ \E p \in written' : Supersedes(w, p)' /\ Continues(w, p)
  <2>1. ASSUME NEW p \in written' PROVE Supersedes(w, p)' => p \in written /\ Supersedes(w, p)
    BY <1>1 DEF Supersedes
  <2>2. ASSUME NEW p \in written, Supersedes(w, p) PROVE Supersedes(w, p)'
    BY <1>1, <2>2 DEF Supersedes
  <2> QED BY <1>1, <2>1, <2>2 DEF IInv, HistoryChained
<1>4. ASSUME NEW w \in rows
      PROVE  \/ /\ StartsLifetime(w)
                /\ \A p \in written' : Supersedes(w, p)' => p.deleted
             \/ \E p \in written' : Supersedes(w, p)' /\ Continues(w, p)
  <2>1. CASE StartsLifetime(w) /\ getLatestTxn(w.key) = {}
    BY <2>1, InsertSupersedes DEF getLatestTxn
  <2>2. CASE \E p \in getLatestTxn(w.key) : Continues(w, p)
    <3>1. PICK p \in getLatestTxn(w.key) : Continues(w, p)
      BY <2>2
    <3>2. p \in NewestRows(written, w.key)
      BY CurrentRowIsNewest DEF getLatestTxn
    <3>3. p \in written' /\ Supersedes(w, p)'
      BY <1>1, <3>2, InsertSupersedes DEF NewestRows
    <3> QED BY <3>1, <3>3
  <2> QED BY <2>1, <2>2 DEF ValidInsert, ValidRow
<1>5. \A w \in written' : StartsLifetime(w)' <=> StartsLifetime(w)
  BY DEF StartsLifetime
<1>6. \A w, p \in written' : Continues(w, p)' <=> Continues(w, p)
  BY DEF Continues
<1> QED BY <1>1, <1>2, <1>3, <1>4, <1>5, <1>6 DEF HistoryChained

(* A transaction that inserts valid rows preserves the inductive invariant. *)
LEMMA CommitPreserves ==
    ASSUME IInv, NEW rows, ValidInsert(rows), Commit(rows)
    PROVE  IInv'
<1>1. /\ written' = written \cup rows /\ kv' = kv \cup rows
      /\ clock' = clock + 1 /\ clock \in Nat /\ clock < MaxRev
      /\ compactRev' = compactRev /\ pass' = pass
      /\ rows # {} /\ rows \subseteq Row
      /\ \A r \in rows : r.rev = clock + 1
      /\ \A r \in written : r.rev \in Nat /\ r.rev <= clock
  BY DEF Commit, ValidInsert, ValidRow, CommitTimestamp, IInv, TypeOK, RevisionBounds,
         Row, Revision
<1>2. TypeOK'
  BY <1>1, StoreAssumption DEF IInv, TypeOK, Revision
<1>3. RevisionBounds'
  <2>1. /\ \A w \in written' : 1 < w.rev /\ w.rev <= clock'
        /\ \E w \in written' : w.rev = clock'
    BY <1>1, StoreAssumption DEF IInv, TypeOK, Revision, RevisionBounds
  <2>2. ASSUME NEW w \in written'
        PROVE  \E m \in written' : /\ m.key = w.key
                                   /\ \A s \in written' : s.key = w.key => s.rev <= m.rev
    <3>1. CASE \E r \in rows : r.key = w.key
      BY <1>1, <3>1
    <3>2. CASE ~\E r \in rows : r.key = w.key
      <4>1. w \in written /\ \A s \in written' : s.key = w.key => s \in written
        BY <1>1, <3>2, ZenonT(60)
      <4> QED BY <1>1, <4>1, ZenonT(60) DEF IInv, RevisionBounds
    <3> QED BY <3>1, <3>2, ZenonT(60)
  <2> QED BY <2>1, <2>2, ZenonT(60) DEF RevisionBounds
<1>4. PassSafe'
  BY <1>1 DEF IInv, PassSafe
<1>5. NewestRowKept'
  BY <1>1 DEF IInv, NewestRowKept
<1>6. AboveHorizonKept'
  BY <1>1 DEF IInv, AboveHorizonKept
<1>7. HistoryChained'
  BY CommitChained
<1> QED BY <1>2, <1>3, <1>4, <1>5, <1>6, <1>7 DEF IInv

-----------------------------------------------------------------------------
(* Each write operation inserts valid rows. *)

(* A key has at most one current row. *)
LEMMA OneCurrentRow ==
    ASSUME IInv, NEW k, NEW p \in getLatestTxn(k), NEW q \in getLatestTxn(k)
    PROVE  p = q
<1>1. /\ p \in written /\ q \in written /\ p.key = k /\ q.key = k
      /\ p.rev <= q.rev /\ q.rev <= p.rev
  BY DEF getLatestTxn, NewestRows, IInv, TypeOK
<1>2. p.rev \in Nat /\ q.rev \in Nat
  BY <1>1 DEF IInv, TypeOK, Row, Revision
<1>3. p.rev = q.rev
  BY <1>1, <1>2
<1> QED BY <1>1, <1>3 DEF IInv, HistoryChained

(* A current row is a live row of its key. *)
LEMMA CurrentRowType ==
    ASSUME IInv, NEW k, NEW p \in getLatestTxn(k)
    PROVE  p \in Row /\ p.key = k /\ ~p.deleted
BY DEF getLatestTxn, NewestRows, IInv, TypeOK

(* The next commit timestamp is a revision while the bound is not reached. *)
LEMMA TimestampType ==
    ASSUME IInv, clock < MaxRev
    PROVE  CommitTimestamp \in Revision
BY StoreAssumption DEF CommitTimestamp, IInv, TypeOK, Revision

(* The row Create inserts for a key that is not live is a valid insert. *)
LEMMA CreatedRowValid ==
    ASSUME IInv, clock < MaxRev, NEW k \in Key, NEW v \in Value,
           NEW l \in LeaseOrNone, ~keyExistsTxn(k)
    PROVE  ValidRow(CreatedRow(k, v, l)) /\ CreatedRow(k, v, l).key = k
<1>1. CreatedRow(k, v, l) \in Row
  <2>1. 0 \in Revision
    BY StoreAssumption DEF Revision
  <2> QED BY <2>1, TimestampType DEF CreatedRow, Row
<1>2. getLatestTxn(k) = {}
  BY DEF getLatestTxn, keyExistsTxn
<1>3. StartsLifetime(CreatedRow(k, v, l))
  BY DEF StartsLifetime, CreatedRow
<1>4. CreatedRow(k, v, l).key = k /\ CreatedRow(k, v, l).rev = CommitTimestamp
  BY DEF CreatedRow
<1> QED BY <1>1, <1>2, <1>3, <1>4 DEF ValidRow

(* The row Update inserts over a current row is a valid insert. *)
LEMMA UpdatedRowValid ==
    ASSUME IInv, clock < MaxRev, NEW k \in Key, NEW v \in Value \cup {NoValue},
           NEW l \in LeaseOrNone, NEW prev \in getLatestTxn(k)
    PROVE  ValidRow(UpdatedRow(prev, v, l)) /\ UpdatedRow(prev, v, l).key = k
<1>1. prev \in Row /\ prev.key = k /\ ~prev.deleted
  BY CurrentRowType
<1>2. UpdatedRow(prev, v, l) \in Row
  BY <1>1, TimestampType DEF UpdatedRow, Row
<1>3. Continues(UpdatedRow(prev, v, l), prev)
  BY <1>1 DEF Continues, UpdatedRow
<1>4. UpdatedRow(prev, v, l).key = k /\ UpdatedRow(prev, v, l).rev = CommitTimestamp
  BY <1>1 DEF UpdatedRow
<1> QED BY <1>2, <1>3, <1>4 DEF ValidRow

(* The tombstone of a current row is a valid insert. *)
LEMMA TombstoneValid ==
    ASSUME IInv, clock < MaxRev, NEW k \in Key, NEW prev \in getLatestTxn(k)
    PROVE  ValidRow(Tombstone(prev)) /\ Tombstone(prev).key = k
<1>1. prev \in Row /\ prev.key = k /\ ~prev.deleted
  BY CurrentRowType
<1>2. Tombstone(prev) \in Row
  BY <1>1, TimestampType DEF Tombstone, Row, LeaseOrNone
<1>3. Continues(Tombstone(prev), prev)
  BY <1>1 DEF Continues, Tombstone
<1>4. Tombstone(prev).key = k /\ Tombstone(prev).rev = CommitTimestamp
  BY <1>1 DEF Tombstone
<1> QED BY <1>2, <1>3, <1>4 DEF ValidRow

(* One operation of a transaction inserts at most one row, of its own key. *)
LEMMA OpRowsValid ==
    ASSUME IInv, clock < MaxRev, NEW op \in TxnOp
    PROVE  /\ \A w \in OpRows(op) : ValidRow(w) /\ w.key = op.key /\ Mutates(op)
           /\ \A w, r \in OpRows(op) : w = r
<1>1. /\ op.type \in {"put", "delete", "get"} /\ op.key \in Key
      /\ op.value \in Value /\ op.lease \in LeaseOrNone
  BY DEF TxnOp
<1>2. CASE op.type = "get"
  BY <1>2 DEF OpRows
<1>3. CASE op.type = "put" /\ keyExistsTxn(op.key)
  <2>1. OpRows(op) = {UpdatedRow(prev, op.value, op.lease) :
                        prev \in getLatestTxn(op.key)}
    BY <1>3 DEF OpRows
  <2>2. Mutates(op)
    BY <1>3 DEF Mutates
  <2> QED BY <1>1, <2>1, <2>2, UpdatedRowValid, OneCurrentRow
<1>4. CASE op.type = "put" /\ ~keyExistsTxn(op.key)
  <2>1. OpRows(op) = {CreatedRow(op.key, op.value, op.lease)}
    BY <1>4 DEF OpRows
  <2>2. Mutates(op)
    BY <1>4 DEF Mutates
  <2> QED BY <1>1, <1>4, <2>1, <2>2, CreatedRowValid
<1>5. CASE op.type = "delete"
  <2>1. OpRows(op) = {Tombstone(prev) : prev \in getLatestTxn(op.key)}
    BY <1>5 DEF OpRows
  <2>2. Mutates(op)
    BY <1>5 DEF Mutates
  <2> QED BY <1>1, <2>1, <2>2, TombstoneValid, OneCurrentRow
<1> QED BY <1>1, <1>2, <1>3, <1>4, <1>5

(* Every write commits a valid set of rows. *)
LEMMA WriteCommits ==
    ASSUME IInv, WriteStep
    PROVE  \E rows : ValidInsert(rows) /\ Commit(rows)
<1>1. ASSUME NEW k \in Key, NEW v \in Value, NEW l \in LeaseOrNone, Create(k, v, l)
      PROVE  \E rows : ValidInsert(rows) /\ Commit(rows)
  <2>1. ValidInsert({CreatedRow(k, v, l)})
    BY <1>1, CreatedRowValid DEF Create, Commit, ValidInsert
  <2> QED BY <1>1, <2>1 DEF Create
<1>2. ASSUME NEW k \in Key, NEW v \in Value, NEW l \in LeaseOrNone,
             NEW revision \in Revision, Update(k, v, revision, l)
      PROVE  \E rows : ValidInsert(rows) /\ Commit(rows)
  <2>1. PICK prev \in getLatestTxn(k) : Commit({UpdatedRow(prev, v, l)})
    BY <1>2 DEF Update
  <2>2. ValidInsert({UpdatedRow(prev, v, l)})
    BY <2>1, UpdatedRowValid DEF Commit, ValidInsert
  <2> QED BY <2>1, <2>2
<1>3. ASSUME NEW k \in Key, NEW prev \in getLatestTxn(k), Commit({Tombstone(prev)})
      PROVE  \E rows : ValidInsert(rows) /\ Commit(rows)
  <2>1. ValidInsert({Tombstone(prev)})
    BY <1>3, TombstoneValid DEF Commit, ValidInsert
  <2> QED BY <1>3, <2>1
<1>4. ASSUME NEW k \in Key, NEW revision \in Revision, Delete(k, revision)
      PROVE  \E rows : ValidInsert(rows) /\ Commit(rows)
  BY <1>3, <1>4 DEF Delete
<1>5. ASSUME NEW k \in Key, NEW l \in LeaseOrNone, DeleteIfLease(k, l)
      PROVE  \E rows : ValidInsert(rows) /\ Commit(rows)
  BY <1>3, <1>5 DEF DeleteIfLease
<1>6. ASSUME NEW t \in TxnRequest, AtomicTxn(t)
      PROVE  \E rows : ValidInsert(rows) /\ Commit(rows)
  <2> DEFINE ops == Branch(t)
             rows == UNION {OpRows(ops[i]) : i \in DOMAIN ops}
  <2>1. ~DuplicateMutation(ops) /\ rows # {} /\ Commit(rows)
    BY <1>6 DEF AtomicTxn
  <2>2. clock < MaxRev
    BY <2>1 DEF Commit
  <2>3. \A i \in DOMAIN ops : ops[i] \in TxnOp
    <3>1. ops \in Seq(TxnOp)
      BY TxnAssumption DEF Branch
    <3> QED BY <3>1
  <2>4. \A w \in rows : ValidRow(w)
    BY <2>2, <2>3, OpRowsValid
  <2>5. ASSUME NEW w \in rows, NEW r \in rows, w.key = r.key PROVE w = r
    <3>1. PICK i \in DOMAIN ops : w \in OpRows(ops[i])
      OBVIOUS
    <3>2. PICK j \in DOMAIN ops : r \in OpRows(ops[j])
      OBVIOUS
    <3>3. /\ Mutates(ops[i]) /\ w.key = ops[i].key
          /\ Mutates(ops[j]) /\ r.key = ops[j].key
      BY <2>2, <2>3, <3>1, <3>2, OpRowsValid
    <3>4. i = j
      BY <2>1, <2>5, <3>3, ZenonT(60) DEF DuplicateMutation
    <3> QED BY <2>2, <2>3, <3>1, <3>2, <3>4, OpRowsValid
  <2>6. ValidInsert(rows)
    <3> HIDE DEF rows
    <3> QED BY <2>1, <2>4, <2>5 DEF ValidInsert
  <2> QED BY <2>1, <2>6
<1> QED BY <1>1, <1>2, <1>4, <1>5, <1>6 DEF WriteStep

-----------------------------------------------------------------------------
(* Compaction. *)

(* The largest revision left in the table is the last commit timestamp. *)
LEMMA CurrentIsClock ==
    ASSUME IInv
    PROVE  CurrentRevision = clock
<1>1. /\ clock \in Nat /\ kv \subseteq written
      /\ \A r \in written : r.rev \in Nat /\ 1 < r.rev /\ r.rev <= clock
  BY DEF IInv, TypeOK, RevisionBounds, Row, Revision
<1>2. CASE clock = 1
  BY <1>1, <1>2 DEF CurrentRevision
<1>3. CASE \E w \in written : w.rev = clock
  <2>1. PICK w \in written : w.rev = clock
    BY <1>3
  <2>2. w \in kv
    BY <1>1, <2>1 DEF IInv, NewestRowKept
  <2> DEFINE P(n) == \A r \in kv : r.rev <= n
  <2>3. clock \in {r.rev : r \in kv} /\ P(clock)
    BY <1>1, <2>1, <2>2
  <2>4. ASSUME NEW n \in {r.rev : r \in kv}, P(n) PROVE n = clock
    <3>1. n \in Nat /\ n <= clock
      BY <1>1
    <3>2. clock <= n
      BY <2>1, <2>2, <2>4
    <3> QED BY <1>1, <3>1, <3>2
  <2>5. CurrentRevision = CHOOSE n \in {r.rev : r \in kv} : P(n)
    BY <2>2 DEF CurrentRevision
  <2> QED BY <2>3, <2>4, <2>5
<1> QED BY <1>2, <1>3 DEF IInv, RevisionBounds

(* A pass may hold x between two of its steps. *)
SafeState(x, horizon) ==
    /\ x \in PassState
    /\ x.pc \in {"effective", "scan", "delete"} => x.target <= horizon
    /\ \A b \in x.batch :
          /\ b \in written /\ b.rev <= horizon
          /\ \E n \in written : n.key = b.key /\ n.rev > b.rev

(* A step that writes no row leaves the chain of rows as it was. *)
LEMMA HistoryKept ==
    ASSUME HistoryChained, written' = written
    PROVE  HistoryChained'
<1>1. \A w, p : Supersedes(w, p)' <=> Supersedes(w, p)
  BY DEF Supersedes
<1> QED BY <1>1 DEF HistoryChained, StartsLifetime, Continues

(* A step of one pass that leaves the rows alone. *)
LEMMA PassStepPreserves ==
    ASSUME IInv, NEW p \in Pass, NEW x, pass' = [pass EXCEPT ![p] = x],
           SafeState(x, compactRev'),
           compactRev' \in Target, compactRev <= compactRev',
           UNCHANGED <<kv, clock, written>>
    PROVE  IInv'
<1>1. /\ compactRev \in Nat \ {0} /\ compactRev' \in Nat \ {0}
      /\ \A r \in written : r.rev \in Nat
      /\ \A q \in Pass : pass[q].target \in Nat
      /\ pass \in [Pass -> PassState]
  BY StoreAssumption DEF IInv, TypeOK, Row, Revision, Target, PassState
<1>2. TypeOK'
  BY <1>1 DEF IInv, TypeOK, SafeState
<1>3. RevisionBounds' /\ NewestRowKept' /\ HistoryChained'
  <2>1. RevisionBounds' /\ NewestRowKept'
    BY DEF IInv, RevisionBounds, NewestRowKept
  <2> QED BY <2>1, HistoryKept DEF IInv
<1>4. AboveHorizonKept'
  BY <1>1 DEF IInv, AboveHorizonKept
<1>5. PassSafe'
  <2>1. SUFFICES ASSUME NEW q \in Pass
                 PROVE  /\ pass'[q].pc \in {"effective", "scan", "delete"} =>
                              pass'[q].target <= compactRev'
                        /\ \A b \in pass'[q].batch :
                              /\ b \in written /\ b.rev <= compactRev'
                              /\ \E n \in written : n.key = b.key /\ n.rev > b.rev
    BY DEF PassSafe
  <2>2. CASE q = p
    BY <1>1, <2>2 DEF SafeState
  <2>3. CASE q # p
    <3>1. pass'[q] = pass[q]
      BY <1>1, <2>3
    <3>2. /\ pass[q].pc \in {"effective", "scan", "delete"} =>
                pass[q].target <= compactRev
          /\ \A b \in pass[q].batch :
                /\ b \in written /\ b.rev <= compactRev
                /\ \E n \in written : n.key = b.key /\ n.rev > b.rev
      BY DEF IInv, PassSafe
    <3> QED BY <1>1, <3>1, <3>2
  <2> QED BY <2>2, <2>3
<1> QED BY <1>2, <1>3, <1>4, <1>5 DEF IInv

(* Deleting a batch read earlier keeps every newest row and every row above *)
(* the compaction revision, because PassSafe still holds of the batch.      *)
LEMMA CompactDeletePreserves ==
    ASSUME IInv, NEW p \in Pass, CompactDelete(p)
    PROVE  IInv'
<1>1. /\ compactRev \in Nat /\ \A r \in written : r.rev \in Nat
      /\ pass \in [Pass -> PassState]
      /\ pass[p].target \in Target
      /\ kv \subseteq written
  BY StoreAssumption DEF IInv, TypeOK, Row, Revision, Target, PassState
<1>2. /\ kv' = kv \ pass[p].batch
      /\ UNCHANGED <<compactRev, clock, written>>
  BY DEF CompactDelete
<1>3. \A b \in pass[p].batch :
          /\ b.rev <= compactRev
          /\ \E n \in written : n.key = b.key /\ n.rev > b.rev
  BY DEF IInv, PassSafe
<1>4. PICK x : /\ pass' = [pass EXCEPT ![p] = x]
               /\ x \in PassState /\ x.batch = {}
               /\ x.pc = "idle" \/ x.target = pass[p].target
  <2>1. CASE Cardinality(pass[p].batch) < CompactBatchSize
    <3> DEFINE y == [pc |-> "idle", target |-> 0, batch |-> {}]
    <3>1. y \in PassState /\ y.batch = {} /\ y.pc = "idle"
      BY StoreAssumption DEF PassState, Target
    <3> QED BY <2>1, <3>1 DEF CompactDelete, Goto
  <2>2. CASE ~(Cardinality(pass[p].batch) < CompactBatchSize)
    <3> DEFINE y == [pc |-> "scan", target |-> pass[p].target, batch |-> {}]
    <3>1. y \in PassState /\ y.batch = {} /\ y.target = pass[p].target
      BY <1>1 DEF PassState
    <3> QED BY <2>2, <3>1, ZenonT(60) DEF CompactDelete, Goto
  <2> QED BY <2>1, <2>2
<1>5. TypeOK'
  BY <1>1, <1>2, <1>4 DEF IInv, TypeOK
<1>6. RevisionBounds' /\ HistoryChained'
  <2>1. RevisionBounds'
    BY <1>2 DEF IInv, RevisionBounds
  <2>2. HistoryChained'
    BY <1>2, HistoryKept DEF IInv
  <2> QED BY <2>1, <2>2
<1>7. NewestRowKept'
  BY <1>1, <1>2, <1>3 DEF IInv, NewestRowKept
<1>8. AboveHorizonKept'
  BY <1>1, <1>2, <1>3 DEF IInv, AboveHorizonKept
<1>9. PassSafe'
  <2>1. pass[p].pc = "delete" /\ pass[p].target <= compactRev
    BY ZenonT(60) DEF CompactDelete, IInv, PassSafe
  <2> QED BY <1>1, <1>2, <1>4, <2>1 DEF IInv, PassSafe
<1> QED BY <1>5, <1>6, <1>7, <1>8, <1>9 DEF IInv

(* Goto with a safe state, in the form PassStepPreserves wants. *)
LEMMA GotoPreserves ==
    ASSUME IInv, NEW p \in Pass, NEW pc, NEW target \in Target, NEW batch,
           Goto(p, pc, target, batch),
           pc \in {"idle", "effective", "raise", "record", "scan", "delete"},
           pc \in {"effective", "scan", "delete"} => target <= compactRev',
           \A b \in batch :
              /\ b \in written /\ b.rev <= compactRev'
              /\ \E n \in written : n.key = b.key /\ n.rev > b.rev,
           compactRev' \in Target, compactRev <= compactRev',
           UNCHANGED <<kv, clock, written>>
    PROVE  IInv'
<1> DEFINE x == [pc |-> pc, target |-> target, batch |-> batch]
<1>1. batch \subseteq Row
  BY DEF IInv, TypeOK
<1>2. SafeState(x, compactRev')
  BY <1>1 DEF SafeState, PassState
<1>3. pass' = [pass EXCEPT ![p] = x]
  BY DEF Goto
<1> HIDE DEF x
<1> QED BY <1>2, <1>3, PassStepPreserves, ZenonT(60)

(* Every step of a compaction pass preserves the inductive invariant. *)
LEMMA CompactStepPreserves ==
    ASSUME IInv, NEW p \in Pass, CompactStep(p)
    PROVE  IInv'
<1>1. /\ Target \subseteq Nat /\ 0 \in Target
      /\ compactRev \in Target /\ pass[p].target \in Target
      /\ clock \in Nat /\ clock <= MaxRev
      /\ MaxRev \in Nat /\ AutoCompactAge \in Nat
      /\ CurrentRevision = clock
  BY StoreAssumption, CurrentIsClock DEF IInv, TypeOK, Target, Revision, PassState
<1>2. /\ \A a, b \in Target : Max2(a, b) \in Target /\ a <= Max2(a, b) /\ b <= Max2(a, b)
      /\ \A a, b \in Target : \A c \in Target : a <= c /\ b <= c => Max2(a, b) <= c
  BY <1>1 DEF Max2
<1>3. pass[p].pc \in {"effective", "scan", "delete"} => pass[p].target <= compactRev
  BY DEF IInv, PassSafe
<1>4. ASSUME NEW target \in Target, Compact(p, target) PROVE IInv'
  <2>1. compactRev' = Max2(compactRev, target) /\ Goto(p, "effective", target, {})
        /\ UNCHANGED <<kv, clock, written>>
    BY <1>4 DEF Compact, RecordCompactRev
  <2>2. compactRev' \in Target /\ compactRev <= compactRev' /\ target <= compactRev'
    BY <1>1, <1>2, <2>1
  <2> QED BY <2>1, <2>2, GotoPreserves
<1>5. ASSUME CompactEffective(p) PROVE IInv'
  <2>1. PICK stored \in {0, compactRev} :
              Goto(p, "scan", Max2(pass[p].target, stored), {})
    BY <1>5 DEF CompactEffective
  <2>2. UNCHANGED <<kv, clock, written>> /\ compactRev' = compactRev
    BY <1>5 DEF CompactEffective, tables
  <2>3. pass[p].target <= compactRev
    BY <1>3, <1>5 DEF CompactEffective
  <2>4. Max2(pass[p].target, stored) \in Target
        /\ Max2(pass[p].target, stored) <= compactRev'
    <3>1. compactRev \in Nat /\ 0 \in Target /\ compactRev \in Target
      BY <1>1, ZenonT(60)
    <3>2. stored = 0 \/ stored = compactRev
      OBVIOUS
    <3>3. stored \in Target
      BY <3>1, <3>2
    <3>4. stored <= compactRev
      BY <3>1, <3>2
    <3> QED BY <1>1, <1>2, <2>2, <2>3, <3>3, <3>4, ZenonT(60)
  <2>5. compactRev' \in Target /\ compactRev <= compactRev'
    BY <1>1, <2>2
  <2> QED BY <2>1, <2>2, <2>4, <2>5, GotoPreserves
<1>6. ASSUME AutoCompact(p) PROVE IInv'
  <2>1. CurrentRevision - AutoCompactAge \in Target
    BY <1>1, <1>6 DEF AutoCompact, Target
  <2>2. /\ Goto(p, "raise", CurrentRevision - AutoCompactAge, {})
        /\ UNCHANGED <<kv, clock, written>> /\ compactRev' = compactRev
    BY <1>6 DEF AutoCompact, tables
  <2>3. compactRev' \in Target /\ compactRev <= compactRev'
    BY <1>1, <2>2
  <2> QED BY <2>1, <2>2, <2>3, GotoPreserves
<1>7. ASSUME AutoCompactRaise(p) PROVE IInv'
  <2>1. PICK existing \in {0, compactRev} :
              Goto(p, "record", Max2(pass[p].target, existing), {})
    BY <1>7 DEF AutoCompactRaise
  <2>2. UNCHANGED <<kv, clock, written>> /\ compactRev' = compactRev
    BY <1>7 DEF AutoCompactRaise, tables
  <2>3. Max2(pass[p].target, existing) \in Target
    <3>1. existing \in Target
      BY <1>1
    <3> QED BY <1>1, <1>2, <3>1, ZenonT(60)
  <2>4. compactRev' \in Target /\ compactRev <= compactRev'
    BY <1>1, <2>2
  <2> QED BY <2>1, <2>2, <2>3, <2>4, GotoPreserves
<1>8. ASSUME AutoCompactRecord(p) PROVE IInv'
  <2>1. /\ compactRev' = Max2(compactRev, pass[p].target)
        /\ Goto(p, "scan", pass[p].target, {})
        /\ UNCHANGED <<kv, clock, written>>
    BY <1>8 DEF AutoCompactRecord, RecordCompactRev
  <2>2. compactRev' \in Target /\ compactRev <= compactRev'
        /\ pass[p].target <= compactRev'
    BY <1>1, <1>2, <2>1, ZenonT(60)
  <2>3. pass[p].target \in Target
    BY <1>1
  <2> QED BY <2>1, <2>2, <2>3, GotoPreserves
<1>9. ASSUME CompactScan(p) PROVE IInv'
  <2>1. PICK b \in scanCompactBatch(pass[p].target) :
            IF b = {} THEN Goto(p, "idle", 0, {})
            ELSE Goto(p, "delete", pass[p].target, b)
    BY <1>9 DEF CompactScan
  <2>2. UNCHANGED <<kv, clock, written>> /\ compactRev' = compactRev
    BY <1>9 DEF CompactScan, tables
  <2>3. pass[p].target <= compactRev
    BY <1>3, <1>9 DEF CompactScan
  <2>4. ASSUME NEW r \in b
        PROVE  /\ r \in written /\ r.rev <= compactRev'
               /\ \E n \in written : n.key = r.key /\ n.rev > r.rev
    <3>1. /\ r \in kv /\ r.rev <= pass[p].target
          /\ \E n \in kv : n.key = r.key /\ n.rev > r.rev
      BY DEF scanCompactBatch, Eligible
    <3>2. kv \subseteq written /\ r.rev \in Nat
      BY <3>1 DEF IInv, TypeOK, Row, Revision
    <3>3. compactRev \in Nat /\ pass[p].target \in Nat
      BY <1>1, ZenonT(60)
    <3> QED BY <2>2, <2>3, <3>1, <3>2, <3>3
  <2>5. compactRev' \in Target /\ compactRev <= compactRev'
    BY <1>1, <2>2
  <2>6. CASE b = {}
    <3>1. Goto(p, "idle", 0, {})
      BY <2>1, <2>6
    <3> QED BY <1>1, <2>2, <2>5, <3>1, GotoPreserves
  <2>7. CASE b # {}
    <3>1. Goto(p, "delete", pass[p].target, b)
      BY <2>1, <2>7
    <3> QED BY <1>1, <2>2, <2>3, <2>4, <2>5, <3>1, GotoPreserves, ZenonT(60)
  <2> QED BY <2>6, <2>7
<1>10. ASSUME CompactDelete(p) PROVE IInv'
  BY <1>10, CompactDeletePreserves
<1>11. ASSUME CompactAbort(p) PROVE IInv'
  <2>1. /\ Goto(p, "idle", 0, {})
        /\ UNCHANGED <<kv, clock, written>> /\ compactRev' = compactRev
    BY <1>11 DEF CompactAbort, tables
  <2>2. compactRev' \in Target /\ compactRev <= compactRev'
    BY <1>1, <2>1
  <2> QED BY <1>1, <2>1, <2>2, GotoPreserves
<1> QED BY <1>4, <1>5, <1>6, <1>7, <1>8, <1>9, <1>10, <1>11 DEF CompactStep

-----------------------------------------------------------------------------
(* The invariants. *)

(* The inductive invariant holds of the empty tables. *)
LEMMA InitIInv == Init => IInv
<1> SUFFICES ASSUME Init PROVE IInv
  OBVIOUS
<1>1. TypeOK
  BY StoreAssumption DEF Init, TypeOK, Target, Revision, PassState
<1>2. RevisionBounds /\ NewestRowKept /\ AboveHorizonKept /\ HistoryChained
  BY DEF Init, RevisionBounds, NewestRowKept, AboveHorizonKept, HistoryChained
<1>3. PassSafe
  BY DEF Init, PassSafe
<1> QED BY <1>1, <1>2, <1>3 DEF IInv

(* Every step preserves the inductive invariant. *)
LEMMA NextIInv == IInv /\ [Next]_vars => IInv'
<1> SUFFICES ASSUME IInv, [Next]_vars PROVE IInv'
  OBVIOUS
<1>1. CASE WriteStep
  BY <1>1, WriteCommits, CommitPreserves
<1>2. ASSUME NEW p \in Pass, CompactStep(p) PROVE IInv'
  BY <1>2, CompactStepPreserves
<1>3. CASE UNCHANGED vars
  <2>1. TypeOK'
    BY <1>3 DEF vars, IInv, TypeOK
  <2>2. RevisionBounds' /\ PassSafe'
    BY <1>3, ZenonT(60) DEF vars, IInv, RevisionBounds, PassSafe
  <2>3. NewestRowKept' /\ AboveHorizonKept'
    BY <1>3 DEF vars, IInv, NewestRowKept, AboveHorizonKept
  <2>4. HistoryChained'
    BY <1>3, HistoryKept DEF vars, IInv
  <2> QED BY <2>1, <2>2, <2>3, <2>4 DEF IInv
<1> QED BY <1>1, <1>2, <1>3 DEF Next

(* The inductive invariant holds in every reachable state. *)
THEOREM Invariance == Spec => []IInv
BY InitIInv, NextIInv, PTL DEF Spec

(* Every variable keeps its type. *)
THEOREM TypeCorrect == Spec => []TypeOK
<1>1. IInv => TypeOK
  BY DEF IInv
<1> QED BY <1>1, Invariance, PTL

(* No interleaving of any number of compaction passes with writers deletes  *)
(* the newest row of a key.                                                 *)
THEOREM NewestRowIsKept == Spec => []NewestRowKept
<1>1. IInv => NewestRowKept
  BY DEF IInv
<1> QED BY <1>1, Invariance, PTL

(* A row above the compaction revision is never deleted. *)
THEOREM AboveHorizonIsKept == Spec => []AboveHorizonKept
<1>1. IInv => AboveHorizonKept
  BY DEF IInv
<1> QED BY <1>1, Invariance, PTL

(* Every row was written over its immediate predecessor in the full         *)
(* history: no lost update, no stale prev_revision or old_value.            *)
THEOREM HistoryIsChained == Spec => []HistoryChained
<1>1. IInv => HistoryChained
  BY DEF IInv
<1> QED BY <1>1, Invariance, PTL

(* MAX(rev) over the compacted table is the last commit timestamp. *)
THEOREM CurrentRevisionIsExact == Spec => []CurrentRevisionExact
<1>1. IInv => CurrentRevisionExact
  BY CurrentIsClock DEF CurrentRevisionExact
<1> QED BY <1>1, Invariance, PTL

-----------------------------------------------------------------------------
(* Steps. *)

(* What the compacted table shows is current: a fact of every state, in a   *)
(* form that can also be used of the next state.                            *)
TableIsCurrent ==
    /\ CurrentRevision = clock
    /\ \A k : NewestRows(kv, k) = NewestRows(written, k)
    /\ \A k : \A p, q \in getLatestTxn(k) : p = q

(* In a state of the invariant MAX(rev) is the clock, and compaction has
   left the newest rows in place. *)
LEMMA CurrentFacts == IInv => TableIsCurrent
<1> SUFFICES ASSUME IInv PROVE TableIsCurrent
  OBVIOUS
<1>1. ASSUME NEW k, NEW r \in NewestRows(written, k) PROVE r \in NewestRows(kv, k)
  BY DEF NewestRows, IInv, TypeOK, NewestRowKept
<1>2. \A k : NewestRows(kv, k) = NewestRows(written, k)
  BY <1>1, CurrentRowIsNewest
<1> QED BY <1>2, CurrentIsClock, OneCurrentRow DEF TableIsCurrent

(* The same facts, of the state after a step. *)
LEMMA NextFacts == IInv' => TableIsCurrent'
BY CurrentFacts, PTL

(* A step of a compaction pass leaves the clock and the history alone. *)
LEMMA CompactionStep ==
    ASSUME IInv, NEW p \in Pass, CompactStep(p)
    PROVE  clock' = clock /\ written' = written /\ compactRev <= compactRev'
<1>1. compactRev \in Nat
  BY StoreAssumption DEF IInv, TypeOK, Target
<1>2. clock' = clock /\ written' = written
  BY ZenonT(60) DEF CompactStep, Compact, CompactEffective, AutoCompact, AutoCompactRaise,
     AutoCompactRecord, CompactScan, CompactDelete, CompactAbort, tables
<1>3. compactRev' = compactRev \/ \E t \in Target : compactRev' = Max2(compactRev, t)
  <2>1. pass[p].target \in Target
    BY DEF IInv, TypeOK, PassState
  <2> QED BY <2>1, ZenonT(60) DEF CompactStep, Compact, CompactEffective, AutoCompact, AutoCompactRaise,
     AutoCompactRecord, CompactScan, CompactDelete, CompactAbort, tables, RecordCompactRev
<1>4. \A t \in Target : compactRev <= Max2(compactRev, t)
  BY <1>1, StoreAssumption DEF Target, Max2
<1> QED BY <1>1, <1>2, <1>3, <1>4

(* Neither observable revision goes back. *)
THEOREM RevisionsAreMonotonic == Spec => RevisionsMonotonic
<1>1. IInv /\ IInv' /\ [Next]_vars =>
        [CurrentRevision' >= CurrentRevision /\ compactRev' >= compactRev]_vars
  <2> SUFFICES ASSUME IInv, IInv', Next
               PROVE  CurrentRevision' >= CurrentRevision /\ compactRev' >= compactRev
    OBVIOUS
  <2>1. CurrentRevision = clock /\ CurrentRevision' = clock'
    BY CurrentFacts, NextFacts DEF TableIsCurrent
  <2>2. clock \in Nat /\ compactRev \in Nat /\ compactRev' \in Nat
    BY StoreAssumption DEF IInv, TypeOK, Target, Revision
  <2>3. CASE WriteStep
    <3>1. PICK rows : Commit(rows)
      BY <2>3, WriteCommits
    <3> QED BY <2>1, <2>2, <3>1 DEF Commit, CommitTimestamp
  <2>4. ASSUME NEW p \in Pass, CompactStep(p)
        PROVE  CurrentRevision' >= CurrentRevision /\ compactRev' >= compactRev
    BY <2>1, <2>2, <2>4, CompactionStep
  <2> QED BY <2>3, <2>4 DEF Next
<1> QED BY <1>1, Invariance, PTL DEF Spec, RevisionsMonotonic

-----------------------------------------------------------------------------
(* Refinement: the table with its compaction implements EtcdKV. *)

(* What the members of Live are: the key-values of current rows. *)
LEMMA LiveMembers ==
    \A c : c \in Live <=> \E k \in Key : \E r \in getLatestTxn(k) : c = KeyValueOf(r)
BY DEF Live

(* The same, of the state after a step. *)
LEMMA LiveMembersNext ==
    \A c : c \in Live' <=> \E k \in Key : \E r \in getLatestTxn(k)' : c = KeyValueOf(r)
BY ZenonT(60) DEF Live, KeyValueOf

(* The current row of a key is a row of that key. *)
LEMMA LatestKey ==
    /\ \A k : \A r \in getLatestTxn(k) : KeyValueOf(r).key = k /\ r.key = k
    /\ \A k : \A r \in getLatestTxn(k)' : KeyValueOf(r).key = k /\ r.key = k
BY DEF getLatestTxn, NewestRows, KeyValueOf

(* The current row of a key after a commit. *)
LEMMA CommitLatest ==
    ASSUME IInv, NEW rows, ValidInsert(rows), Commit(rows), NEW k
    PROVE  getLatestTxn(k)' = IF \E w \in rows : w.key = k
                              THEN {w \in rows : w.key = k /\ ~w.deleted}
                              ELSE getLatestTxn(k)
<1>1. /\ kv' = kv \cup rows /\ clock \in Nat
      /\ \A r \in rows : r.rev = clock + 1
      /\ \A r \in kv : r.rev \in Nat /\ r.rev <= clock
      /\ \A w, r \in rows : w.key = r.key => w = r
  BY DEF Commit, ValidInsert, ValidRow, CommitTimestamp, IInv, TypeOK,
         RevisionBounds, Row, Revision
<1>2. CASE \E w \in rows : w.key = k
  <2>1. PICK w \in rows : w.key = k
    BY <1>2
  <2>2. NewestRows(kv, k)' = {w}
    BY <1>1, <2>1 DEF NewestRows
  <2>3. {r \in rows : r.key = k /\ ~r.deleted} = {r \in {w} : ~r.deleted}
    BY <1>1, <2>1
  <2> QED BY <1>2, <2>2, <2>3 DEF getLatestTxn
<1>3. CASE ~ \E w \in rows : w.key = k
  <2>1. NewestRows(kv, k)' = NewestRows(kv, k)
    BY <1>1, <1>3 DEF NewestRows
  <2> QED BY <1>3, <2>1 DEF getLatestTxn
<1> QED BY <1>2, <1>3

(* A commit is one mutation of the abstract store. *)
LEMMA CommitMutates ==
    ASSUME IInv, IInv', NEW rows, ValidInsert(rows), Commit(rows)
    PROVE  Etcd!Next
<1> DEFINE touched == {w.key : w \in rows}
<1>1. touched # {} /\ touched \in SUBSET Key
  BY DEF ValidInsert, ValidRow, Row
<1>2. /\ CurrentRevision = clock /\ CurrentRevision' = clock + 1 /\ clock \in Nat
      /\ \A w \in rows : w.rev = CurrentRevision'
  <2>1. CurrentRevision = clock /\ CurrentRevision' = clock'
    BY CurrentFacts, NextFacts DEF TableIsCurrent
  <2>2. clock' = clock + 1 /\ clock \in Nat
    BY DEF Commit, CommitTimestamp, IInv, TypeOK, Revision
  <2>3. \A w \in rows : w.rev = clock + 1
    BY DEF ValidInsert, ValidRow, CommitTimestamp
  <2> QED BY <2>1, <2>2, <2>3
<1>3. ASSUME NEW c \in Live, c.key \notin touched PROVE c \in Live'
  <2>1. PICK k \in Key : \E r \in getLatestTxn(k) : c = KeyValueOf(r)
    BY LiveMembers
  <2>2. c.key = k
    BY <2>1, LatestKey
  <2>3. getLatestTxn(k)' = getLatestTxn(k)
    BY <1>3, <2>2, CommitLatest
  <2> QED BY <2>1, <2>3, LiveMembersNext
<1>4. ASSUME NEW c \in Live'
      PROVE  IF c.key \in touched THEN Etcd!FreshPut(c, CurrentRevision') ELSE c \in Live
  <2>0. PICK k \in Key : \E r \in getLatestTxn(k)' : c = KeyValueOf(r)
    BY LiveMembersNext
  <2>1. PICK r \in getLatestTxn(k)' : c = KeyValueOf(r)
    BY <2>0
  <2>2. c.key = k /\ r.key = k
    BY <2>1, LatestKey
  <2>3. CASE k \notin touched
    <3>1. getLatestTxn(k)' = getLatestTxn(k)
      BY <2>3, CommitLatest
    <3>2. c \in Live
      BY <2>1, <3>1, LiveMembers
    <3> QED BY <2>2, <2>3, <3>2
  <2>4. CASE k \in touched
    <3>1. r \in rows
      BY <2>4, CommitLatest, ZenonT(60)
    <3>2. c.modRev = CurrentRevision' /\ c.createRev = r.createRev
      BY <1>2, <2>1, <3>1, ZenonT(60) DEF KeyValueOf
    <3>3. CASE StartsLifetime(r) /\ getLatestTxn(k) = {}
      <4>1. \A old \in Live : old.key # c.key
        <5>1. SUFFICES ASSUME NEW old \in Live, old.key = k PROVE FALSE
          BY <2>2
        <5>2. PICK j \in Key : \E q \in getLatestTxn(j) : old = KeyValueOf(q)
          BY LiveMembers
        <5>3. old.key = j
          BY <5>2, LatestKey
        <5> QED BY <3>3, <5>1, <5>2, <5>3
      <4> QED BY <1>2, <2>2, <2>4, <3>1, <3>2, <3>3, <4>1, ZenonT(60) DEF Etcd!FreshPut, StartsLifetime
    <3>4. CASE \E p \in getLatestTxn(k) : Continues(r, p)
      <4>1. PICK p \in getLatestTxn(k) : Continues(r, p)
        BY <3>4
      <4>2. KeyValueOf(p) \in Live /\ KeyValueOf(p).key = k
            /\ KeyValueOf(p).createRev = r.createRev
        BY <4>1, LiveMembers, LatestKey, ZenonT(60) DEF KeyValueOf, Continues
      <4> QED BY <2>2, <2>4, <3>2, <4>2, ZenonT(60) DEF Etcd!FreshPut
    <3> QED BY <2>2, <3>1, <3>3, <3>4, ZenonT(60) DEF ValidInsert, ValidRow
  <2> QED BY <2>3, <2>4, ZenonT(60)
<1>5. ASSUME NEW c \in Live', NEW d \in Live', c.key = d.key PROVE c = d
  <2>1. PICK k \in Key : \E r \in getLatestTxn(k)' : c = KeyValueOf(r)
    BY LiveMembersNext
  <2>2. PICK j \in Key : \E r \in getLatestTxn(j)' : d = KeyValueOf(r)
    BY LiveMembersNext
  <2>3. c.key = k /\ d.key = j
    BY <2>1, <2>2, LatestKey, ZenonT(60)
  <2>4. \A p, q \in getLatestTxn(k)' : p = q
    BY NextFacts DEF TableIsCurrent
  <2> QED BY <1>5, <2>1, <2>2, <2>3, <2>4
<1>6. Etcd!Mutate(touched)
  <2> HIDE DEF touched
  <2> QED BY <1>2, <1>3, <1>4, <1>5 DEF Etcd!Mutate
<1> HIDE DEF touched
<1> QED BY <1>1, <1>6 DEF Etcd!Next

(* A compaction step changes nothing the abstract store shows. *)
LEMMA CompactionStutters ==
    ASSUME IInv, IInv', written' = written, clock' = clock
    PROVE  UNCHANGED Etcd!etcdVars
<1>1. CurrentRevision' = CurrentRevision
  BY CurrentFacts, NextFacts DEF TableIsCurrent
<1>2. ASSUME NEW k PROVE getLatestTxn(k)' = getLatestTxn(k)
  <2>1. NewestRows(written, k)' = NewestRows(written, k)
    BY DEF NewestRows
  <2>2. NewestRows(kv, k)' = NewestRows(kv, k)
    BY <2>1, CurrentFacts, NextFacts DEF TableIsCurrent
  <2> QED BY <2>2 DEF getLatestTxn
<1>3. Live' = Live
  BY <1>2, LiveMembers, LiveMembersNext, ZenonT(60)
<1> QED BY <1>1, <1>3 DEF Etcd!etcdVars

(* The table with its background compaction passes implements the etcd      *)
(* key-value store: each transaction is one atomic mutation, and compaction *)
(* is invisible.                                                            *)
THEOREM Refinement == Spec => ImplementsEtcd
<1>1. Init => Etcd!Init
  <2> SUFFICES ASSUME Init PROVE Etcd!Init
    OBVIOUS
  <2>1. Live = {}
    BY ZenonT(60) DEF Init, Live, getLatestTxn, NewestRows
  <2> QED BY <2>1 DEF Init, Etcd!Init, CurrentRevision
<1>2. IInv /\ IInv' /\ [Next]_vars => [Etcd!Next]_(Etcd!etcdVars)
  <2> SUFFICES ASSUME IInv, IInv', [Next]_vars
               PROVE  Etcd!Next \/ UNCHANGED Etcd!etcdVars
    OBVIOUS
  <2>1. CASE WriteStep
    BY <2>1, WriteCommits, CommitMutates
  <2>2. ASSUME NEW p \in Pass, CompactStep(p) PROVE UNCHANGED Etcd!etcdVars
    BY <2>2, CompactionStep, CompactionStutters
  <2>3. CASE UNCHANGED vars
    BY <2>3, CompactionStutters DEF vars
  <2> QED BY <2>1, <2>2, <2>3 DEF Next
<1> QED BY <1>1, <1>2, Invariance, PTL DEF Spec, ImplementsEtcd, Etcd!Spec

-----------------------------------------------------------------------------
(* Reads. *)

(* A read has looked at rows committed by now only. *)
ReadInPast == \A r \in Reader : reader[r].asOf <= clock

(* AfterComplete, and an answer without rows misses nothing either. *)
AfterExact ==
    \A r \in Reader : EventRead(reader[r]) =>
        \A w \in written :
            /\ w.key \in reader[r].req.keys
            /\ reader[r].req.revision < w.rev /\ w.rev <= reader[r].asOf
            /\ reader[r].horizon < w.rev
            /\ \/ reader[r].req.limit = 0
               \/ Cardinality(reader[r].rows) < reader[r].req.limit
               \/ reader[r].rows = {}
               \/ \E last \in reader[r].rows : w.rev < last.rev
            => w \in reader[r].rows

ReadIInv == IInv /\ ReadTypeOK /\ ReadInPast /\ SnapshotExact /\ AfterExact

(* The history grows by commits above the clock. *)
StoreMoves ==
    /\ written \subseteq written' /\ compactRev <= compactRev' /\ clock <= clock'
    /\ \A w \in written' \ written : w.rev > clock

(* What every step of the store does to the history. *)
LEMMA HistoryGrows ==
    ASSUME IInv, [Next]_vars
    PROVE  StoreMoves
<1>1. clock \in Nat /\ compactRev \in Nat
  BY StoreAssumption DEF IInv, TypeOK, Revision, Target
<1>2. CASE WriteStep
  <2>1. PICK rows : ValidInsert(rows) /\ Commit(rows)
    BY <1>2, WriteCommits
  <2> QED BY <1>1, <2>1 DEF Commit, ValidInsert, ValidRow, CommitTimestamp, StoreMoves
<1>3. ASSUME NEW p \in Pass, CompactStep(p)
      PROVE  StoreMoves
  BY <1>1, <1>3, CompactionStep DEF StoreMoves
<1>4. CASE UNCHANGED vars
  BY <1>1, <1>4 DEF vars, StoreMoves
<1> QED BY <1>2, <1>3, <1>4 DEF Next

(* Compaction as a caller of the store sees it keeps what the passes keep. *)
LEMMA CompactionSeen ==
    ASSUME IInv, HorizonRises \/ RowCompacted
    PROVE  IInv' /\ StoreMoves
<1>1. /\ clock \in Nat /\ compactRev \in Nat /\ compactRev # 0 /\ clock <= MaxRev
      /\ \A w \in written : w.rev \in Nat
  BY StoreAssumption DEF IInv, TypeOK, Revision, Target, Row
<1>2. CASE HorizonRises
  <2>1. /\ UNCHANGED <<kv, clock, pass, written>>
        /\ compactRev' \in Target /\ compactRev' \in Nat /\ compactRev < compactRev'
    BY <1>1, <1>2, StoreAssumption DEF HorizonRises, RecordCompactRev, Max2, Target, IInv, TypeOK
  <2>2. TypeOK'
    BY <1>1, <2>1, StoreAssumption DEF IInv, TypeOK, Target
  <2>3. RevisionBounds' /\ NewestRowKept' /\ HistoryChained'
    BY <2>1, HistoryKept, ZenonT(60) DEF IInv, RevisionBounds, NewestRowKept
  <2>4. AboveHorizonKept'
    BY <1>1, <2>1 DEF IInv, AboveHorizonKept
  <2>5. PassSafe'
    <3>1. \A p \in Pass : pass[p].target \in Nat
      BY StoreAssumption DEF IInv, TypeOK, PassState, Target
    <3> QED BY <1>1, <2>1, <3>1 DEF IInv, PassSafe
  <2> QED BY <1>1, <2>1, <2>2, <2>3, <2>4, <2>5 DEF IInv, StoreMoves
<1>3. CASE RowCompacted
  <2>1. PICK x \in Eligible(compactRev) : kv' = kv \ {x}
    BY <1>3, ZenonT(60) DEF RowCompacted
  <2>2. UNCHANGED <<compactRev, clock, pass, written>>
    BY <1>3, ZenonT(60) DEF RowCompacted
  <2>3. /\ x \in written /\ x.rev <= compactRev
        /\ \E newer \in written : newer.key = x.key /\ newer.rev > x.rev
    BY <2>1 DEF Eligible, IInv, TypeOK
  <2>4. TypeOK'
    BY <2>1, <2>2 DEF IInv, TypeOK
  <2>5. RevisionBounds' /\ PassSafe' /\ HistoryChained'
    BY <2>2, HistoryKept, ZenonT(60) DEF IInv, RevisionBounds, PassSafe
  <2>6. NewestRowKept' /\ AboveHorizonKept'
    BY <1>1, <2>1, <2>2, <2>3 DEF IInv, NewestRowKept, AboveHorizonKept
  <2> QED BY <1>1, <2>2, <2>4, <2>5, <2>6 DEF IInv, StoreMoves
<1> QED BY <1>2, <1>3

(* Steps of the store leave answers exact. *)
LEMMA StorePreserves ==
    ASSUME ReadIInv, IInv', StoreMoves, UNCHANGED reader
    PROVE  ReadIInv'
<1>1. IInv'
  OBVIOUS
<1>2. /\ written \subseteq written' /\ compactRev <= compactRev' /\ clock <= clock'
      /\ \A w \in written' \ written : w.rev > clock
  BY DEF StoreMoves
<1>3. /\ clock \in Nat /\ clock' \in Nat /\ compactRev \in Nat /\ compactRev' \in Nat
      /\ \A w \in written' : w.rev \in Nat
      /\ \A r \in Reader : reader[r].asOf \in Nat
  BY <1>1, StoreAssumption DEF ReadIInv, IInv, TypeOK, Row, Revision, Target, ReadTypeOK, ReadState
<1>4. ReadTypeOK'
  BY DEF ReadIInv, ReadTypeOK
<1>5. ReadInPast'
  BY <1>2, <1>3 DEF ReadIInv, ReadInPast
<1>6. \A r \in Reader : \A w \in written' : w.rev <= reader[r].asOf => w \in written
  BY <1>2, <1>3 DEF ReadIInv, ReadInPast
<1>7. SnapshotExact'
  <2> SUFFICES ASSUME NEW r \in Reader, SnapshotRead(reader[r]), NEW w \in written',
                      w.key \in reader[r].req.keys, Covered(reader[r], w.key),
                      Visible(reader[r], w)', w.rev > compactRev' \/ NewestEver(w)'
               PROVE  {s \in reader[r].rows : s.key = w.key} = IF w.deleted THEN {} ELSE {w}
    BY DEF SnapshotExact, SnapshotRead, Covered
  <2>1. w \in written /\ Visible(reader[r], w)
    BY <1>2, <1>6 DEF Visible, Cap
  <2>2. w.rev > compactRev \/ NewestEver(w)
    BY <1>2, <1>3 DEF NewestEver
  <2> QED BY <2>1, <2>2 DEF ReadIInv, SnapshotExact
<1>8. AfterExact'
  <2> SUFFICES ASSUME NEW r \in Reader, EventRead(reader[r]),
                      NEW w \in written', w.key \in reader[r].req.keys,
                      reader[r].req.revision < w.rev, w.rev <= reader[r].asOf,
                      reader[r].horizon < w.rev,
                      \/ reader[r].req.limit = 0
                      \/ Cardinality(reader[r].rows) < reader[r].req.limit
                      \/ reader[r].rows = {}
                      \/ \E last \in reader[r].rows : w.rev < last.rev
               PROVE  w \in reader[r].rows
    BY DEF AfterExact, EventRead
  <2> QED BY <1>6, ZenonT(60) DEF ReadIInv, AfterExact
<1> QED BY <1>1, <1>4, <1>5, <1>7, <1>8 DEF ReadIInv

(* A read that starts, fails or is refused has answered nothing. *)
LEMMA UnansweredPreserves ==
    ASSUME ReadIInv, NEW r \in Reader, NEW new \in ReadState,
           reader' = [reader EXCEPT ![r] = new], new.pc # "answered", new.asOf <= clock,
           UNCHANGED vars
    PROVE  ReadIInv'
<1>1. IInv'
  BY NextIInv DEF ReadIInv
<1>2. ReadTypeOK' /\ reader'[r] = new /\ \A q \in Reader : q # r => reader'[q] = reader[q]
  BY DEF ReadIInv, ReadTypeOK
<1>3. ReadInPast'
  BY <1>2 DEF ReadIInv, ReadInPast, vars
<1>4. SnapshotExact'
  <2>0. written' = written /\ compactRev' = compactRev
    BY DEF vars
  <2> SUFFICES ASSUME NEW q \in Reader, SnapshotRead(reader'[q]), NEW w \in written,
                      w.key \in reader'[q].req.keys, Covered(reader'[q], w.key),
                      Visible(reader'[q], w), w.rev > compactRev \/ NewestEver(w)
               PROVE  {s \in reader'[q].rows : s.key = w.key} = IF w.deleted THEN {} ELSE {w}
    BY <2>0 DEF SnapshotExact, SnapshotRead, Covered, Visible, NewestEver, Cap
  <2>1. reader'[q] = reader[q]
    BY <1>2 DEF SnapshotRead
  <2> QED BY <2>1, ZenonT(60) DEF ReadIInv, SnapshotExact
<1>5. AfterExact'
  <2>0. written' = written
    BY DEF vars
  <2>1. \A q \in Reader : EventRead(reader'[q]) => reader'[q] = reader[q]
    BY <1>2 DEF EventRead
  <2> QED BY <2>0, <2>1, ZenonT(60) DEF ReadIInv, AfterExact, EventRead
<1> QED BY <1>1, <1>2, <1>3, <1>4, <1>5 DEF ReadIInv

\* A reader that reads nothing has its type.
LEMMA NoReadType == NoRead \in ReadState
<1>1. 0 \in Revision /\ 0 \in Target
  BY StoreAssumption DEF Revision, Target
<1> QED BY <1>1 DEF NoRead, ReadState, Request

\* A read begins with the current revision.
LEMMA BeginPreserves ==
    ASSUME ReadIInv, NEW r \in Reader, NEW q \in Request, NEW next \in {"check", "query"},
           Begin(r, q, next)
    PROVE  ReadIInv'
<1> DEFINE new == [NoRead EXCEPT !.pc = next, !.req = q, !.currentRev = CurrentRevision]
<1>1. q \in Request /\ CurrentRevision \in Revision /\ clock \in Nat
  BY CurrentIsClock, StoreAssumption DEF ReadIInv, IInv, TypeOK, Revision
<1>2. new \in ReadState /\ new.pc = next /\ new.asOf = 0
  BY <1>1, NoReadType, ZenonT(60) DEF NoRead, ReadState
<1>3. reader' = [reader EXCEPT ![r] = new] /\ UNCHANGED vars
  BY DEF Begin
<1> HIDE DEF new
<1>4. new.pc # "answered" /\ new.asOf <= clock
  BY <1>1, <1>2
<1> QED BY <1>2, <1>3, <1>4, UnansweredPreserves, ZenonT(60)

(* The compaction revision is read. *)
LEMMA CheckPreserves ==
    ASSUME ReadIInv, NEW r \in Reader, CheckCompacted(r)
    PROVE  ReadIInv'
<1>1. PICK c \in {"compacted", "query"} : reader' = [reader EXCEPT ![r].pc = c]
  BY ZenonT(60) DEF CheckCompacted
<1> DEFINE new == [reader[r] EXCEPT !.pc = c]
<1>2. reader[r] \in ReadState /\ reader' = [reader EXCEPT ![r] = new]
  BY <1>1 DEF ReadIInv, ReadTypeOK
<1>3. new \in ReadState /\ new.pc = c /\ new.asOf = reader[r].asOf
  BY <1>2 DEF ReadState
<1>4. new.pc # "answered" /\ new.asOf <= clock
  BY <1>3 DEF ReadIInv, ReadInPast
<1> HIDE DEF new
<1> QED BY <1>2, <1>3, <1>4, UnansweredPreserves, ZenonT(60) DEF CheckCompacted

(* A read fails, or its caller is through with the answer. *)
LEMMA ForgetPreserves ==
    ASSUME ReadIInv, NEW r \in Reader, reader' = [reader EXCEPT ![r] = NoRead], UNCHANGED vars
    PROVE  ReadIInv'
<1>1. NoRead.pc # "answered" /\ NoRead.asOf <= clock
  BY StoreAssumption DEF NoRead, ReadIInv, IInv, TypeOK, Revision
<1> QED BY <1>1, NoReadType, UnansweredPreserves, ZenonT(60)

(* The rows of one key in LiveAt, when the row that should be visible has not *)
(* been compacted.                                                            *)
LEMMA LiveAtExact ==
    ASSUME IInv, NEW keys, NEW cap \in Nat, NEW w \in written, w.key \in keys, w.rev <= cap,
           \A s \in written : s.key = w.key /\ s.rev <= cap => s.rev <= w.rev,
           w.rev > compactRev \/ NewestEver(w)
    PROVE  {s \in LiveAt(keys, cap) : s.key = w.key} = IF w.deleted THEN {} ELSE {w}
<1>1. /\ kv \subseteq written
      /\ \A a \in written : a.rev \in Nat /\ a.deleted \in BOOLEAN
      /\ \A a, b \in written : a.key = b.key /\ a.rev = b.rev => a = b
  BY DEF IInv, TypeOK, Row, Revision, HistoryChained
<1>2. w \in kv
  BY DEF IInv, AboveHorizonKept, NewestRowKept, NewestEver
<1>3. ASSUME NEW s \in LiveAt(keys, cap), s.key = w.key PROVE s = w /\ ~w.deleted
  <2>1. s \in kv /\ s.rev <= cap /\ ~s.deleted /\ w.rev <= s.rev
    BY <1>2, <1>3 DEF LiveAt
  <2>2. s.rev = w.rev
    BY <1>1, <1>3, <2>1
  <2> QED BY <1>1, <1>3, <2>1, <2>2
<1>4. ~w.deleted => w \in LiveAt(keys, cap)
  BY <1>1, <1>2 DEF LiveAt
<1> QED BY <1>3, <1>4

(* What ORDER BY .. LIMIT leaves out: nothing, or only what comes last. *)
LEMMA LimitKeeps ==
    ASSUME NEW op, NEW limit \in Nat, NEW rows, NEW s \in LimitedTo(op, limit, rows)
    PROVE  /\ s \subseteq rows
           /\ limit = 0 \/ Cardinality(s) < limit \/ s = {} => s = rows
           /\ \A a \in s, b \in rows \ s : ~Before(op, b, a)
<1>1. CASE limit = 0 \/ Cardinality(rows) <= limit
  BY <1>1 DEF LimitedTo
<1>2. CASE ~(limit = 0 \/ Cardinality(rows) <= limit)
  <2>1. /\ s \in SUBSET rows /\ s # {} /\ Cardinality(s) = limit
        /\ \A a \in s, b \in rows \ s : ~Before(op, b, a)
    BY <1>2 DEF LimitedTo
  <2> QED BY <1>2, <2>1
<1> QED BY <1>1, <1>2

(* The step that reads the rows. *)
LEMMA QueryPreserves ==
    ASSUME ReadIInv, NEW r \in Reader, Query(r)
    PROVE  ReadIInv'
<1> DEFINE rd == reader[r]
<1>1. PICK rows \in Answers(rd) :
         reader' = [reader EXCEPT ![r].pc = "answered", ![r].rows = rows,
                                  ![r].horizon = compactRev, ![r].asOf = clock]
  BY ZenonT(60) DEF Query
<1>2. UNCHANGED vars
  BY DEF Query
<1>3. IInv /\ IInv' /\ rd \in ReadState /\ rd.req \in Request
  BY <1>2, NextIInv DEF ReadIInv, ReadTypeOK, ReadState
<1>4. /\ clock \in Revision /\ compactRev \in Target /\ clock \in Nat /\ compactRev \in Nat
      /\ kv \subseteq written /\ kv \subseteq Row
      /\ \A w \in written : w.rev \in Nat /\ w.key \in Nat /\ w.rev <= clock
  <2>1. clock \in Revision /\ compactRev \in Target /\ kv \subseteq written /\ written \subseteq Row
    BY <1>3 DEF IInv, TypeOK
  <2>2. \A w \in written : w.rev \in Revision /\ w.key \in Key
    BY <2>1 DEF Row
  <2>3. Key \subseteq Nat
    BY ReadAssumption
  <2>4. \A w \in written : w.rev <= clock
    BY <1>3 DEF IInv, RevisionBounds
  <2>5. Revision \subseteq Nat /\ Target \subseteq Nat
    BY StoreAssumption DEF Revision, Target
  <2> QED BY <2>1, <2>2, <2>3, <2>4, <2>5, ZenonT(60)
<1>5. Cap(rd) \in Nat /\ rd.req.limit \in Nat /\ rd.req.revision \in Nat
  BY <1>3, StoreAssumption DEF ReadState, Request, Revision, Cap, revCap
<1>6. rows \subseteq kv
  <2>1. LiveAt(rd.req.keys, Cap(rd)) \subseteq kv
    BY DEF LiveAt
  <2>2. EventsAfter(rd.req.keys, rd.req.revision) \subseteq kv
    BY DEF EventsAfter
  <2>3. rd.req.op \in {"get", "list", "count", "after"}
    BY <1>3 DEF Request
  <2>4. CASE rd.req.op \in {"get", "count"}
    BY <2>1, <2>4 DEF Answers
  <2>5. CASE rd.req.op = "list"
    <3>1. rows \in LimitedTo("list", rd.req.limit, LiveAt(rd.req.keys, Cap(rd)))
      BY <2>5 DEF Answers
    <3> QED BY <1>5, <2>1, <3>1, LimitKeeps
  <2>6. CASE rd.req.op = "after"
    <3>1. rows \in LimitedTo("after", rd.req.limit, EventsAfter(rd.req.keys, rd.req.revision))
      BY <2>6 DEF Answers
    <3> QED BY <1>5, <2>2, <3>1, LimitKeeps
  <2> QED BY <2>3, <2>4, <2>5, <2>6
<1> DEFINE new == [rd EXCEPT !.pc = "answered", !.rows = rows, !.horizon = compactRev, !.asOf = clock]
<1>7. /\ new \in ReadState /\ new.pc = "answered" /\ new.rows = rows /\ new.horizon = compactRev
      /\ new.asOf = clock /\ new.req = rd.req /\ new.currentRev = rd.currentRev
  BY <1>3, <1>4, <1>6, ZenonT(60) DEF ReadState
<1>8. reader' = [reader EXCEPT ![r] = new]
  BY <1>1, ZenonT(60) DEF ReadIInv, ReadTypeOK
<1> HIDE DEF new
<1>9. /\ ReadTypeOK' /\ reader'[r] = new
      /\ \A q \in Reader : q # r => reader'[q] = reader[q]
  BY <1>7, <1>8 DEF ReadIInv, ReadTypeOK
<1>10. ReadInPast'
  BY <1>2, <1>4, <1>7, <1>9 DEF ReadIInv, ReadInPast, vars
<1>11. Cap(new) = Cap(rd)
  BY <1>7 DEF Cap
<1>12. ASSUME SnapshotRead(new), NEW w \in written, w.key \in new.req.keys,
              Covered(new, w.key), Visible(new, w), w.rev > compactRev \/ NewestEver(w)
       PROVE  {s \in new.rows : s.key = w.key} = IF w.deleted THEN {} ELSE {w}
  <2> DEFINE live == LiveAt(rd.req.keys, Cap(rd))
  <2>1. /\ w.rev <= Cap(rd)
        /\ \A s \in written : s.key = w.key /\ s.rev <= Cap(rd) => s.rev <= w.rev
    BY <1>4, <1>7, <1>11, <1>12, ZenonT(60) DEF Visible
  <2>2. {s \in live : s.key = w.key} = IF w.deleted THEN {} ELSE {w}
    BY <1>3, <1>5, <1>7, <1>12, <2>1, LiveAtExact
  <2>3. CASE rd.req.op \in {"get", "count"}
    BY <1>7, <2>2, <2>3 DEF Answers
  <2>4. CASE rd.req.op = "list"
    <3>1. rows \in LimitedTo("list", rd.req.limit, live)
      BY <2>4 DEF Answers
    <3> HIDE DEF live
    <3>2. /\ rows \subseteq live
          /\ rd.req.limit = 0 \/ Cardinality(rows) < rd.req.limit => rows = live
          /\ \A a \in rows, b \in live \ rows : ~Before("list", b, a)
      BY <1>5, <3>1, LimitKeeps
    <3>3. CASE rows = live
      BY <1>7, <2>2, <3>3
    <3>4. CASE rows # live
      <4>1. PICK a \in rows : w.key <= a.key
        BY <1>7, <1>12, <3>2, <3>4, ZenonT(60) DEF Covered
      <4>2. ASSUME w \in live, w \notin rows PROVE FALSE
        <5>1. ~(w.key < a.key)
          BY <3>2, <4>2 DEF Before, KeyOrder
        <5>2. a.key = w.key
          BY <1>4, <1>6, <4>1, <5>1
        <5>3. a = w
          BY <2>2, <3>2, <4>2, <5>2
        <5> QED BY <4>2, <5>3
      <4> QED BY <1>7, <2>2, <3>2, <4>2
    <3> QED BY <3>3, <3>4
  <2>5. rd.req.op \in {"get", "list", "count"}
    BY <1>3, <1>7, <1>12, ZenonT(60) DEF SnapshotRead, Request
  <2> QED BY <2>3, <2>4, <2>5
<1>13. SnapshotExact'
  <2>0. written' = written /\ compactRev' = compactRev
    BY <1>2 DEF vars
  <2> SUFFICES ASSUME NEW q \in Reader, SnapshotRead(reader'[q]), NEW w \in written,
                      w.key \in reader'[q].req.keys, Covered(reader'[q], w.key),
                      Visible(reader'[q], w), w.rev > compactRev \/ NewestEver(w)
               PROVE  {s \in reader'[q].rows : s.key = w.key} = IF w.deleted THEN {} ELSE {w}
    BY <2>0, ZenonT(60) DEF SnapshotExact, SnapshotRead, Covered, Visible, NewestEver, Cap
  <2>1. CASE q = r
    BY <1>9, <1>12, <2>1, ZenonT(60)
  <2>2. CASE q # r
    <3>1. reader'[q] = reader[q]
      BY <1>9, <2>2
    <3> QED BY <3>1, ZenonT(60) DEF ReadIInv, SnapshotExact
  <2> QED BY <2>1, <2>2
<1>14. ASSUME EventRead(new), NEW w \in written, w.key \in new.req.keys,
              new.req.revision < w.rev, new.horizon < w.rev,
              \/ new.req.limit = 0
              \/ Cardinality(new.rows) < new.req.limit
              \/ new.rows = {}
              \/ \E last \in new.rows : w.rev < last.rev
       PROVE  w \in new.rows
  <2> DEFINE events == EventsAfter(rd.req.keys, rd.req.revision)
  <2>1. w \in events
    <3>1. w.rev > compactRev /\ w.rev <= clock
      BY <1>4, <1>5, <1>7, <1>14
    <3>2. w \in kv
      BY <1>3, <3>1 DEF IInv, AboveHorizonKept
    <3> QED BY <1>7, <1>14, <3>2 DEF EventsAfter
  <2>2. rows \in LimitedTo("after", rd.req.limit, events)
    BY <1>7, <1>14 DEF Answers, EventRead
  <2> HIDE DEF events
  <2>3. /\ rows \subseteq events
        /\ rd.req.limit = 0 \/ Cardinality(rows) < rd.req.limit \/ rows = {} => rows = events
        /\ \A a \in rows, b \in events \ rows : ~Before("after", b, a)
    BY <1>5, <2>2, LimitKeeps
  <2> QED BY <1>7, <1>14, <2>1, <2>3, ZenonT(60) DEF Before, RevOrder
<1>15. AfterExact'
  <2>0. written' = written
    BY <1>2 DEF vars
  <2> SUFFICES ASSUME NEW q \in Reader, EventRead(reader'[q]),
                      NEW w \in written, w.key \in reader'[q].req.keys,
                      reader'[q].req.revision < w.rev, w.rev <= reader'[q].asOf,
                      reader'[q].horizon < w.rev,
                      \/ reader'[q].req.limit = 0
                      \/ Cardinality(reader'[q].rows) < reader'[q].req.limit
                      \/ reader'[q].rows = {}
                      \/ \E last \in reader'[q].rows : w.rev < last.rev
               PROVE  w \in reader'[q].rows
    BY <2>0 DEF AfterExact, EventRead
  <2>1. CASE q = r
    BY <1>9, <1>14, <2>1, ZenonT(60)
  <2>2. CASE q # r
    <3>1. reader'[q] = reader[q]
      BY <1>9, <2>2
    <3> QED BY <3>1, ZenonT(60) DEF ReadIInv, AfterExact
  <2> QED BY <2>1, <2>2
<1> QED BY <1>3, <1>9, <1>10, <1>13, <1>15 DEF ReadIInv

-----------------------------------------------------------------------------
(* What the caller of a read sees of it. *)

\* Reader r alone takes a step; the store does not.
OnlyReader(r) == UNCHANGED vars /\ \A q \in Reader : q # r => reader'[q] = reader[q]

\* The store's own invariant gives the types of what the actions use.
LEMMA StoreTypes ==
    ASSUME ReadIInv
    PROVE  /\ clock \in Revision /\ clock \in Nat /\ compactRev \in Nat /\ CurrentRevision = clock
           /\ written \subseteq Row /\ kv \subseteq written
           /\ \A w \in written : w.rev \in Nat /\ w.key \in Key /\ w.rev <= clock
           /\ \A r \in Reader : /\ reader[r] \in ReadState /\ reader[r].rows \subseteq Row
                                /\ reader[r].asOf \in Nat /\ reader[r].currentRev \in Revision
                                /\ reader[r].asOf <= clock /\ reader[r].horizon \in Nat
<1>1. /\ clock \in Revision /\ clock \in Nat /\ compactRev \in Nat
      /\ written \subseteq Row /\ kv \subseteq written
  BY StoreAssumption, SMTT(60) DEF ReadIInv, IInv, TypeOK, Revision, Target
<1>2. CurrentRevision = clock
  BY CurrentIsClock, ZenonT(60) DEF ReadIInv
<1>0. Revision \subseteq Nat /\ Target \subseteq Nat
  BY StoreAssumption, SMTT(60) DEF Revision, Target
<1>3. \A w \in written : w.rev \in Nat /\ w.key \in Key /\ w.rev <= clock
  <2>1. \A w \in written : w.rev \in Revision /\ w.key \in Key
    BY <1>1, ZenonT(60) DEF Row
  <2>2. \A w \in written : w.rev <= clock
    BY ZenonT(60) DEF ReadIInv, IInv, RevisionBounds
  <2> QED BY <1>0, <2>1, <2>2, ZenonT(60)
<1>4. ASSUME NEW r \in Reader
      PROVE  /\ reader[r] \in ReadState /\ reader[r].rows \subseteq Row
             /\ reader[r].asOf \in Nat /\ reader[r].currentRev \in Revision
             /\ reader[r].asOf <= clock /\ reader[r].horizon \in Nat
  <2>1. reader[r] \in ReadState /\ reader[r].asOf <= clock
    BY ZenonT(60) DEF ReadIInv, ReadTypeOK, ReadInPast
  <2>2. reader[r].rows \subseteq Row /\ reader[r].asOf \in Nat /\ reader[r].currentRev \in Revision
    BY <1>0, <2>1, ZenonT(60) DEF ReadState
  <2>3. reader[r].horizon \in Nat
    BY <1>0, <2>1, ZenonT(60) DEF ReadState
  <2> QED BY <2>1, <2>2, <2>3, ZenonT(60)
<1> QED BY <1>1, <1>2, <1>3, <1>4, ZenonT(60)

\* A read is called.
LEMMA ReadBegins ==
    ASSUME ReadIInv, NEW r \in Reader, NEW req \in Request,
           Get(r, req) \/ List(r, req) \/ Count(r, req) \/ After(r, req)
    PROVE  /\ ReadIInv' /\ OnlyReader(r)
           /\ reader'[r].pc \in {"check", "query"} /\ reader'[r].req = req
           /\ reader'[r].currentRev = clock /\ reader'[r].horizon = 0 /\ reader'[r].rows = {}
<1> DEFINE first == IF req.revision > 0 THEN "check" ELSE "query"
<1>0. first \in {"check", "query"} /\ (Begin(r, req, first) \/ Begin(r, req, "check"))
  BY ZenonT(60) DEF Get, List, Count, After
<1> HIDE DEF first
<1>1. PICK next \in {"check", "query"} : Begin(r, req, next)
  BY <1>0, ZenonT(60)
<1>2. ReadIInv' /\ UNCHANGED vars
  <2>1. UNCHANGED vars
    BY <1>1, ZenonT(60) DEF Begin
  <2>2. ReadIInv'
    BY <1>1, BeginPreserves, ZenonT(60)
  <2> QED BY <2>1, <2>2, ZenonT(60)
<1>3. reader' = [reader EXCEPT ![r] =
                   [NoRead EXCEPT !.pc = next, !.req = req, !.currentRev = clock]]
  BY <1>1, StoreTypes, ZenonT(60) DEF Begin
<1>4. reader \in [Reader -> ReadState]
  BY ZenonT(60) DEF ReadIInv, ReadTypeOK
<1>5. reader'[r] = [NoRead EXCEPT !.pc = next, !.req = req, !.currentRev = clock]
  BY <1>3, <1>4, ZenonT(60)
<1>6. \A q \in Reader : q # r => reader'[q] = reader[q]
  BY <1>3, <1>4, ZenonT(60)
<1>7. /\ reader'[r].pc = next /\ reader'[r].req = req /\ reader'[r].currentRev = clock
      /\ reader'[r].horizon = 0 /\ reader'[r].rows = {}
  BY <1>5, ZenonT(60) DEF NoRead
<1> QED BY <1>1, <1>2, <1>6, <1>7, ZenonT(60) DEF OnlyReader

\* It reads the compaction revision, or the rows.
LEMMA ReadAdvances ==
    ASSUME ReadIInv, NEW r \in Reader, CheckCompacted(r) \/ Query(r)
    PROVE  /\ ReadIInv' /\ OnlyReader(r)
           /\ reader[r].pc \in {"check", "query"} /\ reader'[r].pc # "idle"
           /\ reader'[r].req = reader[r].req /\ reader'[r].currentRev = reader[r].currentRev
           /\ reader'[r].horizon \in {reader[r].horizon, compactRev}
           /\ reader'[r].pc = "compacted" => reader[r].pc = "check" /\ IsCompacted(reader[r].req)
           /\ reader'[r].pc # "answered" => reader'[r].rows = reader[r].rows
           /\ reader'[r].pc = "answered" =>
                /\ reader[r].pc = "query" /\ reader'[r].rows \in Answers(reader[r])
                /\ reader'[r].asOf = clock /\ reader'[r].horizon = compactRev
<1>1. reader \in [Reader -> ReadState] /\ reader[r] \in ReadState
  BY ZenonT(60) DEF ReadIInv, ReadTypeOK
<1>2. CASE CheckCompacted(r)
  <2>1. PICK c \in {"compacted", "query"} : reader' = [reader EXCEPT ![r].pc = c]
    BY <1>2, ZenonT(60) DEF CheckCompacted
  <2>2. reader'[r] = [reader[r] EXCEPT !.pc = c] /\ \A q \in Reader : q # r => reader'[q] = reader[q]
    BY <1>1, <2>1, ZenonT(60)
  <2>3. /\ reader'[r].pc = c /\ reader'[r].req = reader[r].req
        /\ reader'[r].currentRev = reader[r].currentRev /\ reader'[r].horizon = reader[r].horizon
        /\ reader'[r].rows = reader[r].rows
    BY <1>1, <2>2, ZenonT(60) DEF ReadState
  <2>5. reader[r].pc = "check" /\ (reader'[r].pc = "compacted" => IsCompacted(reader[r].req))
    <3>1. CASE IsCompacted(reader[r].req)
      BY <1>2, <3>1, ZenonT(60) DEF CheckCompacted
    <3>2. CASE ~IsCompacted(reader[r].req)
      <4>1. reader' = [reader EXCEPT ![r].pc = "query"]
        BY <1>2, <3>2, ZenonT(60) DEF CheckCompacted
      <4>2. reader'[r].pc = "query"
        BY <1>1, <4>1, ZenonT(60) DEF ReadState
      <4> QED BY <1>2, <4>2, ZenonT(60) DEF CheckCompacted
    <3> QED BY <3>1, <3>2, ZenonT(60)
  <2>4. ReadIInv'
    BY <1>2, CheckPreserves, ZenonT(60)
  <2> QED BY <1>2, <2>1, <2>2, <2>3, <2>4, <2>5, ZenonT(60) DEF CheckCompacted, OnlyReader
<1>3. CASE Query(r)
  <2>1. PICK rows \in Answers(reader[r]) :
           reader' = [reader EXCEPT ![r].pc = "answered", ![r].rows = rows,
                                    ![r].horizon = compactRev, ![r].asOf = clock]
    BY <1>3, ZenonT(60) DEF Query
  <2>2. /\ reader'[r] = [reader[r] EXCEPT !.pc = "answered", !.rows = rows,
                                          !.horizon = compactRev, !.asOf = clock]
        /\ \A q \in Reader : q # r => reader'[q] = reader[q]
    BY <1>1, <2>1, ZenonT(60)
  <2>3. /\ reader'[r].pc = "answered" /\ reader'[r].req = reader[r].req
        /\ reader'[r].currentRev = reader[r].currentRev /\ reader'[r].asOf = clock
        /\ reader'[r].rows = rows /\ reader'[r].horizon = compactRev
    BY <1>1, <2>2, ZenonT(60) DEF ReadState
  <2>4. ReadIInv'
    BY <1>3, QueryPreserves, ZenonT(60)
  <2> QED BY <1>3, <2>1, <2>2, <2>3, <2>4, ZenonT(60) DEF Query, OnlyReader
<1> QED BY <1>2, <1>3, ZenonT(60)

\* The caller takes the answer, or gets an error.
LEMMA ReadEnds ==
    ASSUME ReadIInv, NEW r \in Reader, reader' = [reader EXCEPT ![r] = NoRead], UNCHANGED vars
    PROVE  /\ ReadIInv' /\ OnlyReader(r) /\ reader'[r].pc = "idle" /\ reader'[r].currentRev = 0
           /\ reader'[r].horizon = 0 /\ reader'[r].rows = {}
<1>1. reader \in [Reader -> ReadState]
  BY ZenonT(60) DEF ReadIInv, ReadTypeOK
<1>2. reader'[r] = NoRead /\ \A q \in Reader : q # r => reader'[q] = reader[q]
  BY <1>1, ZenonT(60)
<1>3. ReadIInv'
  BY ForgetPreserves, ZenonT(60)
<1> QED BY <1>2, <1>3, SMTT(60) DEF OnlyReader, NoRead

-----------------------------------------------------------------------------
(* The results. *)

\* An empty table and no read.
LEMMA ReadInitIInv == ReadInit => ReadIInv
<1> SUFFICES ASSUME ReadInit PROVE ReadIInv
  OBVIOUS
<1>1. IInv /\ clock \in Nat
  BY InitIInv, StoreAssumption DEF ReadInit, IInv, TypeOK, Revision
<1>2. ReadTypeOK /\ \A r \in Reader : reader[r] = NoRead
  BY NoReadType DEF ReadInit, ReadTypeOK
<1>3. ReadInPast
  BY <1>1, <1>2 DEF ReadInPast, NoRead
<1>4. \A r \in Reader : ~SnapshotRead(reader[r]) /\ ~EventRead(reader[r])
  BY <1>2 DEF SnapshotRead, EventRead, NoRead
<1>5. SnapshotExact /\ AfterExact
  BY <1>4, ZenonT(60) DEF SnapshotExact, AfterExact
<1> QED BY <1>1, <1>2, <1>3, <1>5 DEF ReadIInv

\* Every step keeps the invariant.
LEMMA ReadNextIInv == ReadIInv /\ [ReadNext]_readVars => ReadIInv'
<1> SUFFICES ASSUME ReadIInv, [ReadNext]_readVars PROVE ReadIInv'
  OBVIOUS
<1>1. CASE [Next]_vars /\ UNCHANGED reader
  BY <1>1, NextIInv, HistoryGrows, StorePreserves DEF ReadIInv
<1>2. CASE UNCHANGED readVars
  BY <1>1, <1>2, ZenonT(60) DEF readVars, vars
<1>3. ASSUME NEW r \in Reader, ReadStep(r) PROVE ReadIInv'
  <2>1. ASSUME NEW q \in ReadRequest, Get(r, q) \/ Count(r, q) \/ After(r, q) \/ List(r, q)
        PROVE  ReadIInv'
    <3>1. PICK next \in {"check", "query"} : Begin(r, q, next)
      BY <2>1 DEF Get, Count, After, List
    <3> QED BY <3>1, BeginPreserves, ReadAssumption
  <2>2. CASE CheckCompacted(r)
    BY <2>2, CheckPreserves, ZenonT(60)
  <2>3. CASE Query(r)
    BY <2>3, QueryPreserves
  <2>4. CASE ReadError(r)
    BY <2>4, ForgetPreserves, ZenonT(60) DEF ReadError
  <2> QED BY <1>3, <2>1, <2>2, <2>3, <2>4 DEF ReadStep
<1> QED BY <1>1, <1>2, <1>3 DEF ReadNext

(* Reads in progress and what they answer, in every reachable state. *)
THEOREM ReadInvariance == ReadSpec => []ReadIInv
BY ReadInitIInv, ReadNextIInv, PTL DEF ReadSpec

(* Every read in progress is well formed. *)
THEOREM ReadTypeCorrect == ReadSpec => []ReadTypeOK
<1>1. ReadIInv => ReadTypeOK
  BY DEF ReadIInv
<1> QED BY <1>1, ReadInvariance, PTL

(* Get, List and Count, each several snapshots with writes and compaction in  *)
(* between, answer exactly for every key whose row was not both superseded    *)
(* and compacted.                                                             *)
THEOREM SnapshotIsExact == ReadSpec => []SnapshotExact
<1>1. ReadIInv => SnapshotExact
  BY DEF ReadIInv
<1> QED BY <1>1, ReadInvariance, PTL

(* After misses no event that its page has room for, above its revision and   *)
(* above the compaction revision at the time the rows were read.              *)
THEOREM AfterIsComplete == ReadSpec => []AfterComplete
<1>1. ReadIInv => AfterComplete
  BY ZenonT(60) DEF ReadIInv, AfterExact, AfterComplete
<1> QED BY <1>1, ReadInvariance, PTL

-----------------------------------------------------------------------------
(* Key ranges. *)

(* A prefix LIKE takes as it is written: it has no backslash. *)
Unescaped(prefix) == \A i \in DOMAIN prefix : prefix[i] # Escape

(* A key that begins with the prefix is found by the LIKE of likePrefix, also *)
(* when the prefix has bytes that are wildcards to LIKE.                      *)
LEMMA LikeFinds ==
    ASSUME NEW p \in Seq(Nat), NEW s \in Seq(Nat), HasPrefix(s, p), Unescaped(p)
    PROVE  Like(p, s)
<1> DEFINE n == Len(p)
           pat == likePrefix(p)
           cut == [i \in 1..(n + 2) |-> IF i <= n + 1 THEN i ELSE Len(s) + 1]
<1>1. /\ n \in Nat /\ Len(s) \in Nat /\ n <= Len(s) /\ DOMAIN p = 1..n
      /\ \A i \in 1..n : p[i] = s[i] /\ p[i] # Escape
  BY DEF HasPrefix, Unescaped
<1>2. /\ Len(pat) = n + 1 /\ DOMAIN pat = 1..(n + 1) /\ pat[n + 1] = Percent
      /\ \A i \in 1..n : pat[i] = p[i]
  BY LikeAssumption DEF likePrefix
<1> HIDE DEF n, pat
<1>3. IsLiteral({}, pat)
  <2> SUFFICES ASSUME NEW i \in 1..(n + 1), i > 1 PROVE pat[i - 1] # Escape
    BY <1>2 DEF IsLiteral
  <2>1. (i - 1) \in 1..n
    BY <1>1
  <2> QED BY <1>1, <1>2, <2>1
<1>4. cut \in [1..(Len(pat) + 1) -> 1..(Len(s) + 1)] /\ cut[1] = 1 /\ cut[Len(pat) + 1] = Len(s) + 1
  BY <1>1, <1>2
<1>5. ASSUME NEW i \in DOMAIN pat PROVE StandsFor({}, pat, s, i, cut[i], cut[i + 1])
  <2>1. CASE i \in 1..n
    <3>1. cut[i] = i /\ cut[i + 1] = i + 1 /\ s[i] = pat[i] /\ pat[i] # Escape
      BY <1>1, <1>2, <2>1
    <3>2. i <= i + 1
      BY <1>1, <2>1
    <3> HIDE DEF cut
    <3> QED BY <3>1, <3>2 DEF StandsFor
  <2>2. CASE i = n + 1
    <3>1. cut[i] = i /\ cut[i + 1] = Len(s) + 1 /\ pat[i] = Percent
      BY <1>1, <1>2, <2>2
    <3>2. i <= Len(s) + 1
      BY <1>1, <2>2
    <3> HIDE DEF cut
    <3> QED BY <3>1, <3>2, LikeAssumption DEF StandsFor
  <2> QED BY <1>1, <1>2, <2>1, <2>2
<1> HIDE DEF cut
<1>6. {} \in SUBSET DOMAIN pat
  OBVIOUS
<1>7. MatchesLike(s, pat)
  BY <1>3, <1>4, <1>5, <1>6, ZenonT(60) DEF MatchesLike
<1> QED BY <1>7 DEF Like, pat

(* Likewise a key that begins with the prefix less a % at its end. *)
LEMMA LikeFindsTrimmed ==
    ASSUME NEW p \in Seq(Nat), NEW s \in Seq(Nat), p # <<>>, p[Len(p)] = Percent,
           HasPrefix(s, ButLast(p)), Unescaped(p)
    PROVE  Like(p, s)
<1> DEFINE n == Len(p)
           pat == likePrefix(p)
           cut == [i \in 1..(n + 2) |-> IF i <= n THEN i ELSE Len(s) + 1]
<1>1. n \in Nat /\ n > 0 /\ Len(s) \in Nat /\ DOMAIN p = 1..n /\ p[n] = Percent
  BY SMTT(60)
<1>2. /\ Len(ButLast(p)) = n - 1 /\ DOMAIN ButLast(p) = 1..(n - 1)
      /\ \A i \in 1..(n - 1) : ButLast(p)[i] = p[i]
  BY <1>1, SMTT(60) DEF ButLast
<1>3. n - 1 <= Len(s) /\ (\A i \in 1..(n - 1) : p[i] = s[i]) /\ \A i \in 1..n : p[i] # Escape
  BY <1>1, <1>2 DEF HasPrefix, Unescaped
<1>4. /\ Len(pat) = n + 1 /\ DOMAIN pat = 1..(n + 1) /\ pat[n + 1] = Percent
      /\ \A i \in 1..n : pat[i] = p[i]
  BY LikeAssumption DEF likePrefix
<1> HIDE DEF n, pat
<1>5. IsLiteral({}, pat)
  <2> SUFFICES ASSUME NEW i \in 1..(n + 1), i > 1 PROVE pat[i - 1] # Escape
    BY <1>4 DEF IsLiteral
  <2>1. (i - 1) \in 1..n
    BY <1>1
  <2> QED BY <1>3, <1>4, <2>1
<1>6. cut \in [1..(Len(pat) + 1) -> 1..(Len(s) + 1)] /\ cut[1] = 1 /\ cut[Len(pat) + 1] = Len(s) + 1
  BY <1>1, <1>3, <1>4
<1>7. ASSUME NEW i \in DOMAIN pat PROVE StandsFor({}, pat, s, i, cut[i], cut[i + 1])
  <2>1. CASE i \in 1..(n - 1)
    <3>1. cut[i] = i /\ cut[i + 1] = i + 1 /\ s[i] = pat[i] /\ pat[i] # Escape
      BY <1>1, <1>3, <1>4, <2>1
    <3>2. i <= i + 1
      BY <1>1, <2>1
    <3> HIDE DEF cut
    <3> QED BY <3>1, <3>2 DEF StandsFor
  <2>2. CASE i \in {n, n + 1}
    <3>1. cut[i] <= cut[i + 1] /\ pat[i] = Percent
      BY <1>1, <1>3, <1>4, <2>2
    <3> HIDE DEF cut
    <3> QED BY <3>1, LikeAssumption DEF StandsFor
  <2> QED BY <1>1, <1>4, <2>1, <2>2
<1> HIDE DEF cut
<1>8. {} \in SUBSET DOMAIN pat
  OBVIOUS
<1>9. MatchesLike(s, pat)
  BY <1>5, <1>6, <1>7, <1>8, ZenonT(60) DEF MatchesLike
<1> QED BY <1>9 DEF Like, pat

=============================================================================
