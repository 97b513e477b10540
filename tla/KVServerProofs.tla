--------------------------- MODULE KVServerProofs ---------------------------
(***************************************************************************)
(* Proofs about KVServer, for everything CallProofs is general in: the     *)
(* steps of a call that write, the invariance of ServerIInv, and what it   *)
(* shows of puts, deletes, transactions and reads; and that the KV service *)
(* implements EtcdKV.                                                      *)
(***************************************************************************)
EXTENDS CallProofs

\* Zenon is the prover of a step that does not name another; it has a minute.
USE ZenonT(60)

-----------------------------------------------------------------------------
(* Put. *)

\* A transaction of a call commits.
LEMMA CommitKeeps ==
    ASSUME ReadIInv, NEW rows, ValidInsert(rows), Commit(rows), UNCHANGED reader
    PROVE  /\ ReadIInv' /\ StoreMoves /\ written' = written \cup rows /\ clock \in Nat
           /\ clock' = clock + 1 /\ CommitTimestamp = clock' /\ CommitTimestamp \in Revision
           /\ Max2(clock, CommitTimestamp) = clock' /\ compactRev' = compactRev
<1>1. IInv /\ clock \in Nat /\ compactRev \in Nat
  BY StoreTypes DEF ReadIInv
<1>2. /\ written' = written \cup rows /\ clock' = clock + 1 /\ CommitTimestamp = clock'
      /\ clock < MaxRev /\ compactRev' = compactRev
  BY DEF Commit, CommitTimestamp
<1>3. IInv' /\ CommitTimestamp \in Revision
  BY <1>1, <1>2, CommitPreserves, TimestampType
<1>4. Max2(clock, CommitTimestamp) = clock' /\ clock <= clock' /\ compactRev <= compactRev'
  BY <1>1, <1>2, SMTT(60) DEF Max2
<1>5. \A w \in written' \ written : w.rev > clock
  <2>1. \A w \in rows : w.rev = clock + 1
    BY <1>2 DEF ValidInsert, ValidRow
  <2>2. clock + 1 > clock
    BY <1>1, SMTT(60)
  <2> QED BY <1>2, <2>1, <2>2
<1>6. StoreMoves
  BY <1>2, <1>4, <1>5 DEF StoreMoves
<1> QED BY <1>1, <1>2, <1>3, <1>4, <1>6, StorePreserves

\* Put calls Create.
LEMMA PutCreateKeeps ==
    ASSUME ServerIInv, NEW c \in Reader, PutCreate(c)
    PROVE  ServerIInv'
<1> DEFINE x == call[c]
           op == Op(x)
           k == TheKey(op)
<1>1. /\ x.pc = "op" /\ x.ops # <<>> /\ op.type = "put" /\ ~Keeps(x) /\ UNCHANGED reader
      /\ ReadIInv /\ IInv /\ x \in CallState /\ x.req \in ServerRequest
  BY CallFields DEF PutCreate, AtOp, Ignores, Keeps, Op, IsTxn, ServerIInv, ReadIInv
<1>2. k \in Key /\ op.value \in Value /\ op.lease \in LeaseOrNone
  BY <1>1, PutKey
<1>3. reader[c].pc = "idle" /\ reader[c].rows = {}
  BY <1>1, IdleReader DEF Asks
<1> HIDE DEF op, k
<1>4. CASE keyExistsTxn(k)
  <2> DEFINE new == [x EXCEPT !.pc = "get"]
  <2>1. call' = [call EXCEPT ![c] = new] /\ UNCHANGED vars
    BY <1>4 DEF PutCreate, Set, op, k, Op
  <2>2. /\ new \in CallState /\ new.pc = "get" /\ new.req = x.req /\ new.ops = x.ops
        /\ new.start = x.start /\ new.done = x.done /\ new.succeeded = x.succeeded
        /\ new.decided = x.decided /\ new.modRev = x.modRev
    <3>1. new \in CallState
      BY <1>1 DEF CallState
    <3>2. /\ new.pc = "get" /\ new.req = x.req /\ new.ops = x.ops
          /\ new.start = x.start /\ new.done = x.done /\ new.succeeded = x.succeeded
          /\ new.decided = x.decided /\ new.modRev = x.modRev
      BY <1>1, SMTT(60) DEF CallState
    <3> QED BY <3>1, <3>2
  <2>3. Op(new) = op /\ ~Keeps(new)
    BY <1>1, <2>2 DEF op, Op, Keeps, IsTxn
  <2> HIDE DEF new
  <2>4. ReadIInv' /\ StoreMoves /\ clock' = clock /\ written' = written
    BY <1>1, <2>1, Still, StorePreserves
  <2>5. AtOps(new, clock')
    BY <1>1, <2>2, <2>3, <2>4, CallFields DEF AtOps, op
  <2>6. PutOn(new, written', clock')
    <3>1. PICK w \in NewestRows(kv, k) : ~w.deleted
      BY <1>4 DEF keyExistsTxn
    <3>2. w \in NewestRows(written, k)
      BY <1>1, <3>1, CurrentRowIsNewest
    <3>3. w \in written /\ w.key = k /\ NewestIn(written, w)
      BY <3>2 DEF NewestRows, NewestIn
    <3>4. new.pc # "update"
      BY <2>2, SMTT(60)
    <3> QED BY <2>3, <2>4, <3>1, <3>3, <3>4 DEF PutOn, k
  <2>7. KeepOn(new, written') /\ EachOn(new, written', clock', compactRev') /\ new.pc # "compare"
    BY <2>2, SMTT(60) DEF KeepOn, EachOn
  <2>8. Chosen(new, written') /\ DoneOn(new, written', clock', compactRev')
    BY <1>1, <2>2, <2>4, ChosenKept, DoneKept
  <2> QED BY <1>1, <1>3, <2>1, <2>2, <2>4, <2>5, <2>6, <2>7, <2>8, Advance
<1>5. CASE ~keyExistsTxn(k)
  <2>1. Create(k, op.value, op.lease) /\ Finish(c, CommitTimestamp, TRUE)
    BY <1>5 DEF PutCreate, op, k, Op
  <2> DEFINE row == CreatedRow(k, op.value, op.lease)
  <2>2. Commit({row}) /\ clock < MaxRev
    BY <2>1 DEF Create, Commit
  <2>3. ValidInsert({row})
    BY <1>1, <1>2, <1>5, <2>2, CreatedRowValid DEF ValidInsert
  <2> HIDE DEF row
  <2>4. /\ ReadIInv' /\ StoreMoves /\ clock' \in Nat /\ CommitTimestamp = clock'
        /\ CommitTimestamp \in Revision /\ CommitTimestamp <= clock'
    <3>1. /\ ReadIInv' /\ StoreMoves /\ clock \in Nat /\ clock' = clock + 1
          /\ CommitTimestamp = clock' /\ CommitTimestamp \in Revision
      BY <1>1, <2>2, <2>3, CommitKeeps
    <3> QED BY <3>1, SMTT(60)
  <2>5. IsTxn(x) => Kept(Entry(c, CommitTimestamp, TRUE), written')
    <3> SUFFICES ASSUME IsTxn(x) PROVE Kept(Entry(c, CommitTimestamp, TRUE), written')
      OBVIOUS
    <3>1. ~op.ignoreValue /\ ~op.ignoreLease
      BY <1>1 DEF Keeps, op
    <3>2. Entry(c, CommitTimestamp, TRUE).op = op
      BY SMTT(60) DEF Entry, op
    <3> QED BY <3>1, <3>2 DEF Kept
  <2>6. TRUE \in BOOLEAN /\ Op(call[c]).type # "delete"
    BY <1>1, SMTT(60) DEF op
  <2> QED BY <1>1, <1>3, <2>1, <2>4, <2>5, <2>6, FinishKeeps
<1> QED BY <1>4, <1>5

\* Put, and a put that keeps something, call Get.
LEMMA PutAskKeeps ==
    ASSUME ServerIInv, NEW c \in Reader, PutAsk(c) \/ IgnoreAsk(c)
    PROVE  ServerIInv'
<1> DEFINE req == ReadOf("get", Listed(Op(call[c]).range))
<1>1. req \in Request
  BY ReadOfType, ListedKeys
<1>2. Ask(c, req) /\ Asks(call[c], req)
  BY DEF PutAsk, IgnoreAsk, AtOp, Ignores, Asks, Op, Keeps, IsTxn
<1> QED BY <1>1, <1>2, AskKeeps

\* The mod revision of what a Get returns.
LEMMA ModRevs ==
    /\ ModRevOf({}) = 0
    /\ \A w : ModRevOf({w}) = w.rev
<1>1. ModRevOf({}) = 0
  BY DEF ModRevOf
<1>2. ASSUME NEW w PROVE ModRevOf({w}) = w.rev
  <2>1. (CHOOSE r \in {w} : TRUE) = w
    OBVIOUS
  <2>2. {w} # {}
    OBVIOUS
  <2> QED BY <2>1, <2>2 DEF ModRevOf
<1> QED BY <1>1, <1>2

\* It is a revision of the past.
LEMMA ModRevType ==
    ASSUME ServerIInv, NEW c \in Reader
    PROVE  ModRevOf(reader[c].rows) \in Revision /\ ModRevOf(reader[c].rows) <= clock
<1>1. ReadIInv /\ ReadsOn(call[c], reader[c], written, clock)
  BY CallFields DEF ServerIInv, CallOK
<1>2. /\ clock \in Nat /\ reader[c].rows \subseteq written
      /\ \A w \in written : w.rev \in Revision /\ w.rev <= clock
  <2>1. clock \in Nat /\ written \subseteq Row /\ \A w \in written : w.rev <= clock
    BY <1>1, StoreTypes
  <2>2. \A w \in written : w.rev \in Revision
    BY <2>1, SMTT(60) DEF Row
  <2> QED BY <1>1, <2>1, <2>2 DEF ReadsOn
<1>3. CASE reader[c].rows = {}
  <2>1. 0 \in Revision /\ 0 <= clock
    BY <1>2, StoreAssumption, SMTT(60) DEF Revision
  <2> QED BY <1>3, <2>1, ModRevs
<1>4. CASE reader[c].rows # {}
  <2>1. (CHOOSE r \in reader[c].rows : TRUE) \in reader[c].rows
    BY <1>4
  <2> QED BY <1>2, <1>4, <2>1 DEF ModRevOf
<1> QED BY <1>3, <1>4

\* Put has the row it will replace.
LEMMA PutReadKeeps ==
    ASSUME ServerIInv, NEW c \in Reader, PutRead(c)
    PROVE  ServerIInv'
<1> DEFINE x == call[c]
           op == Op(x)
           k == TheKey(op)
           new == [x EXCEPT !.pc = "update", !.modRev = ModRevOf(reader[c].rows),
                            !.value = op.value, !.lease = op.lease]
<1>1. /\ x.pc = "get" /\ reader[c].pc = "answered" /\ reader' = [reader EXCEPT ![c] = NoRead]
      /\ UNCHANGED vars /\ ReadIInv /\ call' = [call EXCEPT ![c] = new]
  BY DEF PutRead, Answered, Set, Op, ServerIInv
<1>2. /\ x \in CallState /\ x.ops # <<>> /\ op.type = "put" /\ ~Keeps(x) /\ x.req \in ServerRequest
      /\ PutOn(x, written, clock)
  BY <1>1, CallFields DEF CallOK, AtOps
<1>3. k \in Key /\ Listed(op.range) = {k} /\ op.value \in Value /\ op.lease \in LeaseOrNone
  BY <1>2, PutKey
<1>4. reader[c].req = ReadOf("get", {k})
  <2>1. x.pc # "compare" /\ x.pc # "op"
    BY <1>1, SMTT(60)
  <2> QED BY <1>1, <1>3, <2>1, ReadingCall DEF Asks
<1>5. ReadIInv' /\ OnlyReader(c) /\ reader'[c].pc = "idle" /\ reader'[c].rows = {}
  BY <1>1, ReadEnds
<1>6. StoreMoves /\ clock' = clock /\ written' = written
  BY <1>1, Still
<1>7. ModRevOf(reader[c].rows) \in Revision /\ ModRevOf(reader[c].rows) <= clock
  BY ModRevType
<1>8. /\ new \in CallState /\ new.pc = "update" /\ new.req = x.req /\ new.ops = x.ops
      /\ new.start = x.start /\ new.done = x.done /\ new.succeeded = x.succeeded
      /\ new.decided = x.decided /\ new.modRev = ModRevOf(reader[c].rows)
  <2>1. new \in CallState
    BY <1>2, <1>3, <1>7 DEF CallState
  <2>2. /\ new.pc = "update" /\ new.req = x.req /\ new.ops = x.ops
        /\ new.start = x.start /\ new.done = x.done /\ new.succeeded = x.succeeded
        /\ new.decided = x.decided /\ new.modRev = ModRevOf(reader[c].rows)
    BY <1>2, <1>3, <1>7, SMTT(60) DEF CallState
  <2> QED BY <2>1, <2>2
<1>9. Op(new) = op /\ ~Keeps(new)
  BY <1>2, <1>8 DEF Op, Keeps, IsTxn
<1> HIDE DEF new, op, k
<1>10. AtOps(new, clock')
  BY <1>2, <1>6, <1>7, <1>8, <1>9, CallFields DEF AtOps
<1>11. PutOn(new, written', clock')
  <2>1. CASE Between(written, k, x.start, clock)
    BY <1>6, <1>8, <1>9, <2>1 DEF PutOn, k
  <2>2. CASE ~Between(written, k, x.start, clock)
    <3>1. PICK w \in written : w.key = k /\ ~w.deleted /\ NewestIn(written, w)
      BY <1>1, <1>2, <2>2 DEF PutOn, op, k
    <3>2. reader[c].rows = IF w.deleted THEN {} ELSE {w}
      BY <1>1, <1>3, <1>4, <2>2, <3>1, GetExact
    <3>3. new.modRev = w.rev
      BY <1>8, <3>1, <3>2, ModRevs
    <3> QED BY <1>6, <1>9, <3>1, <3>3 DEF PutOn, k
  <2> QED BY <2>1, <2>2
<1>12. KeepOn(new, written') /\ EachOn(new, written', clock', compactRev') /\ new.pc # "compare"
  <2>1. new.pc # "each" /\ new.pc # "compare"
    BY <1>8, SMTT(60)
  <2> QED BY <1>9, <2>1 DEF KeepOn, EachOn
<1>13. Chosen(new, written') /\ DoneOn(new, written', clock', compactRev')
  BY <1>1, <1>5, <1>6, <1>8, ChosenKept, DoneKept
<1> QED BY <1>1, <1>5, <1>6, <1>8, <1>10, <1>11, <1>12, <1>13, Advance DEF OnlyReader

\* A put that keeps something has the row to keep it of.
LEMMA IgnoreReadKeeps ==
    ASSUME ServerIInv, NEW c \in Reader, IgnoreRead(c)
    PROVE  ServerIInv'
<1> DEFINE x == call[c]
           op == Op(x)
           k == TheKey(op)
<1>1. /\ x.pc = "op" /\ x.ops # <<>> /\ op.type = "put" /\ Keeps(x) /\ reader[c].pc = "answered"
      /\ reader' = [reader EXCEPT ![c] = NoRead] /\ UNCHANGED vars /\ ReadIInv
  BY DEF IgnoreRead, AtOp, Ignores, Answered, Op, Keeps, IsTxn, ServerIInv
<1>2. ReadIInv' /\ OnlyReader(c) /\ reader'[c].pc = "idle" /\ reader'[c].rows = {}
  BY <1>1, ReadEnds
<1>3. CASE reader[c].rows = {}
  <2>1. Fail(c) /\ x.pc # "idle"
    BY <1>1, <1>3 DEF IgnoreRead
  <2> QED BY <1>1, <1>2, <2>1, FailKeeps DEF OnlyReader
<1>4. CASE reader[c].rows # {}
  <2>1. PICK cur \in reader[c].rows :
          Set(c, [x EXCEPT !.pc = "update", !.modRev = cur.rev,
                     !.value = IF op.ignoreValue THEN cur.value ELSE op.value,
                     !.lease = IF op.ignoreLease THEN cur.lease ELSE op.lease])
    BY <1>4 DEF IgnoreRead, Op
  <2> DEFINE v == IF op.ignoreValue THEN cur.value ELSE op.value
             l == IF op.ignoreLease THEN cur.lease ELSE op.lease
             new == [x EXCEPT !.pc = "update", !.modRev = cur.rev, !.value = v, !.lease = l]
  <2>2. x \in CallState /\ x.req \in ServerRequest
    BY <1>1, CallFields
  <2>3. k \in Key /\ Listed(op.range) = {k} /\ op.value \in Value /\ op.lease \in LeaseOrNone
    BY <1>1, PutKey
  <2>4. reader[c].req = ReadOf("get", {k})
    <3>1. x.pc # "compare" /\ x.pc # "get" /\ op.type # "delete" /\ op.type # "range"
      BY <1>1, SMTT(60)
    <3> QED BY <1>1, <2>3, <3>1, ReadingCall DEF Asks
  <2>5. reader[c].req.keys = {k}
    BY <2>3, <2>4, ReadOfType
  <2>6. cur \in written /\ cur.key = k
    <3>1. cur \in written /\ cur.key \in reader[c].req.keys
      BY <1>1, CallFields DEF CallOK, ReadsOn
    <3> QED BY <2>5, <3>1
  <2>7. cur.rev \in Revision /\ cur.rev <= clock /\ v \in Value \cup {NoValue} /\ l \in LeaseOrNone
    <3>1. cur \in Row /\ cur.rev <= clock
      BY <1>1, <2>6, StoreTypes
    <3>2. cur.rev \in Revision /\ cur.value \in Value \cup {NoValue} /\ cur.lease \in LeaseOrNone
      BY <3>1, SMTT(60) DEF Row
    <3> QED BY <2>3, <3>1, <3>2
  <2>8. call' = [call EXCEPT ![c] = new]
    BY <2>1 DEF Set
  <2> HIDE DEF v, l, op, k
  <2>9. /\ new \in CallState /\ new.pc = "update" /\ new.req = x.req /\ new.ops = x.ops
        /\ new.start = x.start /\ new.done = x.done /\ new.succeeded = x.succeeded
        /\ new.decided = x.decided /\ new.modRev = cur.rev /\ new.value = v /\ new.lease = l
    <3>1. new \in CallState
      BY <2>2, <2>7 DEF CallState
    <3>2. /\ new.pc = "update" /\ new.req = x.req /\ new.ops = x.ops
          /\ new.start = x.start /\ new.done = x.done /\ new.succeeded = x.succeeded
          /\ new.decided = x.decided /\ new.modRev = cur.rev /\ new.value = v /\ new.lease = l
      BY <2>2, <2>7, SMTT(60) DEF CallState
    <3> QED BY <3>1, <3>2
  <2>10. Op(new) = op /\ Keeps(new)
    BY <1>1, <2>9 DEF Op, Keeps, IsTxn, op
  <2> HIDE DEF new
  <2>11. StoreMoves /\ clock' = clock /\ written' = written
    BY <1>1, Still
  <2>12. AtOps(new, clock')
    BY <1>1, <2>2, <2>7, <2>9, <2>10, <2>11, CallFields DEF AtOps
  <2>13. KeepOn(new, written')
    BY <2>6, <2>9, <2>10, <2>11 DEF KeepOn, v, l, k
  <2>14. PutOn(new, written', clock') /\ EachOn(new, written', clock', compactRev') /\ new.pc # "compare"
    <3>1. new.pc # "each" /\ new.pc # "compare"
      BY <2>9, SMTT(60)
    <3> QED BY <2>10, <3>1 DEF PutOn, EachOn
  <2>15. Chosen(new, written') /\ DoneOn(new, written', clock', compactRev')
    BY <1>1, <1>2, <2>9, <2>11, ChosenKept, DoneKept
  <2> QED BY <1>2, <2>8, <2>9, <2>11, <2>12, <2>13, <2>14, <2>15, Advance DEF OnlyReader
<1> QED BY <1>3, <1>4

\* The compare-and-set succeeds.
LEMMA PutUpdateKeeps ==
    ASSUME ServerIInv, NEW c \in Reader, PutUpdate(c)
    PROVE  ServerIInv'
<1> DEFINE x == call[c]
           op == Op(x)
           k == TheKey(op)
<1>1. /\ x.pc = "update" /\ UNCHANGED reader /\ ReadIInv /\ IInv /\ Finish(c, CommitTimestamp, TRUE)
      /\ Update(k, x.value, x.modRev, x.lease)
  BY DEF PutUpdate, Op, ServerIInv, ReadIInv
<1>2. /\ x \in CallState /\ x.ops # <<>> /\ op.type = "put" /\ KeepOn(x, written)
      /\ x.value \in Value \cup {NoValue} /\ x.lease \in LeaseOrNone
  <2>1. x \in CallState /\ x.ops # <<>> /\ op.type = "put" /\ KeepOn(x, written)
    BY <1>1, CallFields DEF CallOK, AtOps
  <2> QED BY <2>1, SMTT(60) DEF CallState
<1>3. k \in Key
  BY <1>2, PutKey
<1>4. reader[c].pc = "idle" /\ reader[c].rows = {}
  BY <1>1, IdleReader DEF Asks
<1>5. PICK prev \in getLatestTxn(k) : prev.rev = x.modRev /\ Commit({UpdatedRow(prev, x.value, x.lease)})
  BY <1>1 DEF Update
<1> DEFINE row == UpdatedRow(prev, x.value, x.lease)
<1>6. ValidInsert({row})
  <2>1. clock < MaxRev
    BY <1>5 DEF Commit
  <2>2. ValidRow(row) /\ row.key = k
    <3> HIDE DEF k, op, x
    <3> QED BY <1>1, <1>2, <1>3, <2>1, UpdatedRowValid, SMTT(60)
  <2> QED BY <2>2 DEF ValidInsert
<1>7. prev \in written /\ prev.key = k
  BY <1>1 DEF getLatestTxn, NewestRows, IInv, TypeOK
<1>8. /\ row.key = k /\ row.value = x.value /\ row.oldValue = prev.value /\ row.lease = x.lease
      /\ row.prevRev = prev.rev
  BY <1>7, SMTT(60) DEF UpdatedRow
<1> HIDE DEF row, op, k
<1>9. /\ ReadIInv' /\ StoreMoves /\ clock' \in Nat /\ CommitTimestamp = clock'
      /\ CommitTimestamp \in Revision /\ CommitTimestamp <= clock' /\ written' = written \cup {row}
      /\ \A w \in written : w.rev # clock'
  <2>1. /\ ReadIInv' /\ StoreMoves /\ written' = written \cup {row} /\ clock \in Nat
        /\ clock' = clock + 1 /\ CommitTimestamp = clock' /\ CommitTimestamp \in Revision
    BY <1>1, <1>5, <1>6, CommitKeeps DEF row
  <2>2. \A w \in written : w.rev \in Nat /\ w.rev <= clock
    BY <1>1, StoreTypes
  <2>3. clock' \in Nat /\ CommitTimestamp <= clock' /\ \A w \in written : w.rev # clock'
    BY <2>1, <2>2, SMTT(60)
  <2> QED BY <2>1, <2>3
<1>10. IsTxn(x) => Kept(Entry(c, CommitTimestamp, TRUE), written')
  <2> SUFFICES ASSUME IsTxn(x) PROVE Kept(Entry(c, CommitTimestamp, TRUE), written')
    OBVIOUS
  <2>1. Entry(c, CommitTimestamp, TRUE).op = op /\ Entry(c, CommitTimestamp, TRUE).rev = CommitTimestamp
    BY SMTT(60) DEF Entry, op
  <2>2. \A w \in written' : w.rev = CommitTimestamp => w = row
    BY <1>9
  <2>3. ASSUME op.ignoreValue \/ op.ignoreLease
        PROVE  /\ op.ignoreValue => row.value = row.oldValue
               /\ op.ignoreLease => prev.lease = row.lease
    <3>1. Keeps(x)
      BY <2>3 DEF Keeps, op
    <3>2. PICK cur \in written : /\ cur.key = k /\ cur.rev = x.modRev
                                 /\ op.ignoreValue => x.value = cur.value
                                 /\ op.ignoreLease => x.lease = cur.lease
      BY <1>1, <1>2, <3>1 DEF KeepOn, op, k
    <3>3. cur = prev
      BY <1>1, <1>5, <1>7, <3>2 DEF IInv, HistoryChained
    <3> QED BY <1>8, <3>2, <3>3
  <2>4. prev \in written' /\ prev.key = row.key /\ prev.rev = row.prevRev
    BY <1>7, <1>8, <1>9
  <2> QED BY <2>1, <2>2, <2>3, <2>4 DEF Kept
<1>11. TRUE \in BOOLEAN /\ Op(call[c]).type # "delete"
  BY <1>2, SMTT(60) DEF op
<1> QED BY <1>1, <1>2, <1>4, <1>9, <1>10, <1>11, FinishKeeps

\* The compare-and-set fails.
LEMMA PutMismatchKeeps ==
    ASSUME ServerIInv, NEW c \in Reader, PutMismatch(c)
    PROVE  ServerIInv'
<1> DEFINE x == call[c]
           op == Op(x)
           k == TheKey(op)
<1>1. x.pc = "update" /\ ~CanUpdate(c) /\ UNCHANGED vars /\ UNCHANGED reader /\ ReadIInv /\ IInv
  BY DEF PutMismatch, ServerIInv, ReadIInv
<1>2. /\ ReadIInv' /\ StoreMoves /\ clock' = clock /\ written' = written
      /\ CurrentRevision = clock /\ clock \in Revision /\ clock \in Nat
  BY <1>1, Still, StorePreserves, StoreTypes
<1>3. reader[c].pc = "idle" /\ reader[c].rows = {}
  BY <1>1, IdleReader DEF Asks
<1>4. CASE Keeps(x)
  <2>1. Fail(c) /\ x.pc # "idle"
    BY <1>1, <1>4 DEF PutMismatch, Keeps, Ignores, IsTxn, Op
  <2> QED BY <1>1, <1>2, <1>3, <2>1, FailKeeps
<1>5. CASE ~Keeps(x)
  <2>1. Finish(c, clock, FALSE)
    BY <1>2, <1>5 DEF PutMismatch, Keeps, Ignores, IsTxn, Op
  <2>2. x.ops # <<>> /\ op.type = "put" /\ PutOn(x, written, clock)
    BY <1>1, CallFields DEF CallOK, AtOps
  <2>3. Between(written, k, x.start, clock)
    <3> SUFFICES ASSUME NEW w \in written, w.key = k, ~w.deleted, NewestIn(written, w), x.modRev = w.rev
                 PROVE  FALSE
      BY <1>1, <1>5, <2>2 DEF PutOn
    <3>1. w \in kv
      BY <1>1 DEF IInv, NewestRowKept, NewestIn
    <3>2. \A s \in kv : s.key = k => s.rev <= w.rev
      BY <1>1 DEF IInv, TypeOK, NewestIn
    <3>3. w \in getLatestTxn(k)
      BY <3>1, <3>2 DEF getLatestTxn, NewestRows
    <3> QED BY <1>1, <3>3 DEF CanUpdate, Op
  <2>4. Max2(clock, clock) = clock /\ clock <= clock /\ FALSE \in BOOLEAN /\ op.type # "delete"
    BY <1>2, <2>2, SMTT(60) DEF Max2
  <2> QED BY <1>1, <1>2, <1>3, <2>1, <2>2, <2>3, <2>4, FinishKeeps
<1> QED BY <1>4, <1>5

-----------------------------------------------------------------------------
(* DeleteRange. *)

\* A key that does not exist was deleted after any of its live rows.
LEMMA MissingIsGone ==
    ASSUME ReadIInv, NEW k \in Key, ~keyExistsTxn(k), NEW w \in written, w.key = k, ~w.deleted
    PROVE  Gone(written, k, w.rev, clock)
<1>1. IInv
  BY DEF ReadIInv
<1>2. PICK m \in written : m.key = k /\ \A s \in written : s.key = k => s.rev <= m.rev
  BY <1>1 DEF IInv, RevisionBounds
<1>3. m \in kv
  BY <1>1, <1>2 DEF IInv, NewestRowKept
<1>4. m \in NewestRows(kv, k)
  BY <1>1, <1>2, <1>3 DEF NewestRows, IInv, TypeOK
<1>5. m.deleted
  BY <1>4 DEF keyExistsTxn
<1>6. m.rev # w.rev
  BY <1>1, <1>2, <1>5 DEF IInv, HistoryChained
<1>7. m.rev \in Nat /\ w.rev \in Nat /\ m.rev <= clock /\ w.rev <= m.rev
  BY <1>2, StoreTypes
<1>8. w.rev < m.rev
  BY <1>6, <1>7, SMTT(60)
<1> QED BY <1>2, <1>5, <1>7, <1>8 DEF Gone

\* One that is deleted now was live until now.
LEMMA DeletedIsGone ==
    ASSUME ReadIInv, NEW k \in Key, Delete(k, 0), UNCHANGED reader
    PROVE  /\ ReadIInv' /\ StoreMoves /\ clock' \in Nat /\ CommitTimestamp = clock'
           /\ CommitTimestamp \in Revision /\ CommitTimestamp <= clock'
           /\ Max2(clock, CommitTimestamp) = clock' /\ compactRev' = compactRev
           /\ \A w \in written : Gone(written', k, w.rev, clock')
<1>1. IInv
  BY DEF ReadIInv
<1>2. PICK prev \in getLatestTxn(k) : Commit({Tombstone(prev)})
  BY DEF Delete
<1> DEFINE row == Tombstone(prev)
<1>3. ValidInsert({row})
  <2>1. clock < MaxRev
    BY <1>2 DEF Commit
  <2> QED BY <1>1, <2>1, TombstoneValid DEF ValidInsert
<1>4. row.key = k /\ row.deleted /\ row.rev = CommitTimestamp
  <2>1. prev.key = k
    BY DEF getLatestTxn, NewestRows
  <2> QED BY <2>1, SMTT(60) DEF Tombstone
<1> HIDE DEF row
<1>5. /\ ReadIInv' /\ StoreMoves /\ written' = written \cup {row} /\ clock \in Nat
      /\ clock' = clock + 1 /\ CommitTimestamp = clock' /\ CommitTimestamp \in Revision
      /\ Max2(clock, CommitTimestamp) = clock' /\ compactRev' = compactRev
  BY <1>2, <1>3, CommitKeeps DEF row
<1>6. \A w \in written : w.rev \in Nat /\ w.rev <= clock
  BY StoreTypes
<1>7. clock' \in Nat /\ CommitTimestamp <= clock' /\ \A w \in written : w.rev < clock'
  BY <1>5, <1>6, SMTT(60)
<1>8. \A w \in written : Gone(written', k, w.rev, clock')
  BY <1>4, <1>5, <1>7 DEF Gone
<1> QED BY <1>5, <1>7, <1>8

\* What a key held when a call began, seen from the next state.
LEMMA HeldThen ==
    ASSUME ServerIInv, ReadIInv', StoreMoves, NEW c \in Reader, NEW k,
           NEW w \in HeldIn(written', k, call[c].start)
    PROVE  w \in written /\ w.key = k /\ w \in HeldIn(written, k, call[c].start)
<1>1. Moves(written, clock, compactRev, written', clock', compactRev')
  BY StoreMovesOn DEF ServerIInv
<1>2. w \in HeldIn(written, k, call[c].start)
  <2>1. call[c].start \in Nat /\ call[c].start <= clock
    BY CallFields
  <2> QED BY <1>1, <2>1, HeldMoves, SMTT(60)
<1> QED BY <1>2 DEF HeldIn

\* A key is deleted.
LEMMA DeleteKeyKeeps ==
    ASSUME ServerIInv, NEW c \in Reader, DeleteKey(c)
    PROVE  ServerIInv'
<1> DEFINE x == call[c]
           op == Op(x)
           k == TheKey(op)
<1>1. /\ x.pc = "op" /\ x.ops # <<>> /\ op.type = "delete" /\ SingleKey(op) /\ UNCHANGED reader
      /\ ReadIInv /\ x \in CallState
  BY CallFields DEF DeleteKey, AtOp, Op, ServerIInv
<1>2. k \in Key /\ \A j \in Key : InRange(op.range, j) => j = k
  <2>1. op \in ServerOp
    BY <1>1, OpFields
  <2>2. op.type # "range"
    BY <1>1, SMTT(60)
  <2> QED BY <1>1, <2>1, <2>2, OneKey
<1>3. reader[c].pc = "idle" /\ reader[c].rows = {}
  <2>1. op.type # "put" /\ op.type # "range" /\ x.pc # "compare" /\ x.pc # "get"
    BY <1>1, SMTT(60)
  <2> QED BY <1>1, <2>1, IdleReader DEF Asks
<1>4. op.type # "put"
  BY <1>1, SMTT(60)
<1> HIDE DEF op, k
<1>5. CASE keyExistsTxn(k)
  <2>1. Delete(k, 0) /\ Finish(c, CommitTimestamp, TRUE) /\ TRUE \in BOOLEAN
    BY <1>5 DEF DeleteKey, op, k, Op
  <2>2. /\ ReadIInv' /\ StoreMoves /\ CommitTimestamp \in Revision /\ CommitTimestamp <= clock'
        /\ Max2(clock, CommitTimestamp) = clock' /\ \A w \in written : Gone(written', k, w.rev, clock')
    BY <1>1, <1>2, <2>1, DeletedIsGone
  <2>3. AllGone(op.range, {}, x.start, written', clock', compactRev')
    <3>1. ASSUME NEW j \in Key, InRange(op.range, j), NEW w \in HeldIn(written', j, call[c].start)
          PROVE  Gone(written', j, w.rev, clock')
      <4>1. j = k
        BY <1>2, <3>1
      <4>2. w \in written
        BY <2>2, HeldThen
      <4> QED BY <2>2, <4>1, <4>2
    <3> QED BY <3>1 DEF AllGone
  <2> QED BY <1>1, <1>3, <1>4, <2>1, <2>2, <2>3, FinishKeeps DEF op
<1>6. CASE ~keyExistsTxn(k)
  <2>1. Finish(c, CurrentRevision, FALSE) /\ UNCHANGED vars /\ FALSE \in BOOLEAN
    BY <1>6 DEF DeleteKey, op, k, Op
  <2>2. /\ ReadIInv' /\ StoreMoves /\ clock' = clock /\ written' = written
        /\ CurrentRevision = clock /\ clock \in Revision /\ clock \in Nat
    BY <1>1, <2>1, Still, StorePreserves, StoreTypes
  <2>3. AllGone(op.range, {}, x.start, written', clock, compactRev')
    <3>1. ASSUME NEW j \in Key, InRange(op.range, j), NEW w \in HeldIn(written', j, call[c].start),
                 ~w.deleted
          PROVE  Gone(written, j, w.rev, clock)
      <4>1. j = k
        BY <1>2, <3>1
      <4>2. w \in written /\ w.key = j
        BY <2>2, HeldThen
      <4> QED BY <1>1, <1>2, <1>6, <3>1, <4>1, <4>2, MissingIsGone
    <3> QED BY <2>2, <3>1 DEF AllGone
  <2>4. Max2(clock, clock) = clock /\ clock <= clock
    BY <2>2, SMTT(60) DEF Max2
  <2> QED BY <1>1, <1>3, <1>4, <2>1, <2>2, <2>3, <2>4, FinishKeeps DEF op
<1> QED BY <1>5, <1>6

\* A range delete lists the keys.
LEMMA DeleteAskKeeps ==
    ASSUME ServerIInv, NEW c \in Reader, DeleteAsk(c)
    PROVE  ServerIInv'
<1> DEFINE req == ReadOf("list", Listed(Op(call[c]).range))
<1>1. req \in Request
  BY ReadOfType, ListedKeys
<1>2. Ask(c, req) /\ Asks(call[c], req)
  BY DEF DeleteAsk, AtOp, Asks, Op
<1> QED BY <1>1, <1>2, AskKeeps

\* A key of the range that is not listed, though it was live when the call
\* began, has been deleted since.
LEMMA UnlistedIsGone ==
    ASSUME ServerIInv, NEW c \in Reader, reader[c].pc = "answered", NEW keys \in SUBSET Key,
           reader[c].req = ReadOf("list", keys), NEW k \in keys,
           \A r \in reader[c].rows : r.key # k,
           NEW w \in HeldIn(written, k, call[c].start), ~w.deleted, w.rev > compactRev
    PROVE  Gone(written, k, w.rev, clock)
<1> DEFINE cap == reader[c].currentRev
<1>1. ReadIInv /\ ReadsOn(call[c], reader[c], written, clock)
  BY CallFields DEF ServerIInv, CallOK
<1>2. w \in written /\ w.key = k /\ w.rev <= call[c].start
  BY DEF HeldIn
<1>3. call[c].start <= cap /\ cap <= clock
  BY <1>1 DEF ReadsOn
<1>4. /\ cap \in Nat /\ call[c].start \in Nat /\ compactRev \in Nat /\ clock \in Nat
      /\ \A s \in written : s.rev \in Nat
  <2>1. cap \in Revision /\ clock \in Nat /\ compactRev \in Nat /\ \A s \in written : s.rev \in Nat
    BY <1>1, StoreTypes
  <2>2. cap \in Nat
    BY <2>1, StoreAssumption, SMTT(60) DEF Revision
  <2> QED BY <2>1, <2>2, CallFields
<1>5. w.rev <= cap
  BY <1>2, <1>3, <1>4, SMTT(60)
<1>6. HeldIn(written, k, cap) # {}
  BY <1>1, <1>2, <1>5 DEF ReadsOn
<1>7. PICK m \in HeldIn(written, k, cap) : TRUE
  BY <1>6
<1>8. m \in written /\ m.key = k /\ m.rev <= cap /\ w.rev <= m.rev
  BY <1>2, <1>5 DEF HeldIn
<1>9. m.rev > compactRev /\ m.rev <= clock
  BY <1>2, <1>3, <1>4, <1>8, SMTT(60)
<1>10. {s \in reader[c].rows : s.key = k} = IF m.deleted THEN {} ELSE {m}
  BY <1>7, <1>8, <1>9, AnswerExact
<1>11. m.deleted
  BY <1>10
<1>12. m.rev # w.rev
  BY <1>1, <1>2, <1>8, <1>11 DEF ReadIInv, IInv, HistoryChained
<1>13. w.rev < m.rev
  BY <1>2, <1>4, <1>8, <1>12, SMTT(60)
<1> QED BY <1>8, <1>9, <1>11, <1>13 DEF Gone

\* A range delete has the keys.
LEMMA DeleteReadKeeps ==
    ASSUME ServerIInv, NEW c \in Reader, DeleteRead(c)
    PROVE  ServerIInv'
<1> DEFINE x == call[c]
           op == Op(x)
           todo == {r.key : r \in Taken(c, reader[c].rows)}
           new == [x EXCEPT !.pc = "each", !.todo = todo]
<1>1. /\ x.pc = "op" /\ x.ops # <<>> /\ op.type = "delete" /\ ~SingleKey(op)
      /\ reader[c].pc = "answered" /\ reader' = [reader EXCEPT ![c] = NoRead] /\ UNCHANGED vars
      /\ ReadIInv /\ call' = [call EXCEPT ![c] = new]
  BY DEF DeleteRead, AtOp, Answered, Set, Op, ServerIInv
<1>2. ReadIInv' /\ OnlyReader(c) /\ reader'[c].pc = "idle" /\ reader'[c].rows = {}
  BY <1>1, ReadEnds
<1>3. StoreMoves /\ clock' = clock /\ written' = written /\ compactRev' = compactRev
  BY <1>1, Still
<1>4. /\ x \in CallState /\ x.req \in ServerRequest /\ op.range \in KeyRange
      /\ ReadsOn(x, reader[c], written, clock)
  BY <1>1, CallFields, OpFields DEF CallOK
<1>5. reader[c].req = ReadOf("list", Listed(op.range))
  <2>1. op.type # "put" /\ op.type # "range" /\ x.pc # "compare" /\ x.pc # "get"
    BY <1>1, SMTT(60)
  <2> QED BY <1>1, <2>1, ReadingCall DEF Asks
<1>6. \A r \in reader[c].rows : r.key \in Listed(op.range)
  <2>1. reader[c].req.keys = Listed(op.range)
    BY <1>5, ReadOfType, ListedKeys
  <2> QED BY <1>4, <2>1 DEF ReadsOn
<1>7. todo \subseteq Listed(op.range) /\ todo \subseteq Key
  BY <1>6, ListedKeys DEF Taken
<1> HIDE DEF op, todo
<1>8. /\ new \in CallState /\ new.pc = "each" /\ new.req = x.req /\ new.ops = x.ops
      /\ new.start = x.start /\ new.done = x.done /\ new.succeeded = x.succeeded
      /\ new.decided = x.decided /\ new.modRev = x.modRev /\ new.todo = todo
  <2>1. new \in CallState
    BY <1>4, <1>7 DEF CallState
  <2>2. /\ new.pc = "each" /\ new.req = x.req /\ new.ops = x.ops
        /\ new.start = x.start /\ new.done = x.done /\ new.succeeded = x.succeeded
        /\ new.decided = x.decided /\ new.modRev = x.modRev /\ new.todo = todo
    BY <1>4, <1>7, SMTT(60) DEF CallState
  <2> QED BY <2>1, <2>2
<1>9. Op(new) = op /\ (IsTxn(new) <=> IsTxn(x))
  BY <1>8 DEF Op, IsTxn, op
<1> HIDE DEF new
<1>10. AtOps(new, clock')
  BY <1>1, <1>3, <1>4, <1>8, <1>9, CallFields DEF AtOps
<1>11. EachOn(new, written', clock', compactRev')
  <2> SUFFICES ASSUME IsTxn(x)
               PROVE  /\ \A k \in todo : InRange(op.range, k)
                      /\ Reaches(op.range) =>
                            AllGone(op.range, todo, x.start, written, clock, compactRev)
    BY <1>3, <1>8, <1>9 DEF EachOn
  <2>1. \A k \in todo : BelowEnd(op.range, k)
    BY DEF todo, Taken, IsTxn, op, Op
  <2>2. \A k \in todo : InRange(op.range, k)
    BY <1>7, <2>1, TakenInRange
  <2>3. ASSUME Reaches(op.range), NEW k \in Key, InRange(op.range, k), k \notin todo,
               NEW w \in HeldIn(written, k, x.start), ~w.deleted, w.rev > compactRev
        PROVE  Gone(written, k, w.rev, clock)
    <3>1. k \in Listed(op.range) /\ Listed(op.range) \in SUBSET Key
      BY <1>4, <2>3, ListCovers, ListedKeys
    <3>2. BelowEnd(op.range, k)
      BY <2>3, <3>1, TakenInRange
    <3>3. \A r \in reader[c].rows : r.key # k
      BY <2>3, <3>2 DEF todo, Taken, op, Op
    <3> QED BY <1>1, <1>5, <2>3, <3>1, <3>3, UnlistedIsGone
  <2> QED BY <2>2, <2>3 DEF AllGone
<1>12. PutOn(new, written', clock') /\ KeepOn(new, written') /\ new.pc # "compare"
  BY <1>8 DEF PutOn, KeepOn
<1>13. Chosen(new, written') /\ DoneOn(new, written', clock', compactRev')
  BY <1>1, <1>2, <1>3, <1>8, ChosenKept, DoneKept
<1> QED BY <1>1, <1>2, <1>3, <1>8, <1>10, <1>11, <1>12, <1>13, Advance DEF OnlyReader

\* A range delete is done with one of the keys.
LEMMA EachKeeps ==
    ASSUME ServerIInv, ReadIInv', StoreMoves, UNCHANGED reader, NEW c \in Reader, call[c].pc = "each",
           NEW k \in call[c].todo, NEW rev \in Revision, rev <= clock',
           Set(c, [call[c] EXCEPT !.todo = call[c].todo \ {k}, !.modRev = rev]),
           IsTxn(call[c]) => \A w \in written : w.key = k /\ ~w.deleted => Gone(written', k, w.rev, clock')
    PROVE  ServerIInv'
<1> DEFINE x == call[c]
           new == [x EXCEPT !.todo = x.todo \ {k}, !.modRev = rev]
<1>1. /\ x \in CallState /\ x.req \in ServerRequest /\ AtOps(x, clock) /\ ReadIInv
      /\ EachOn(x, written, clock, compactRev)
  BY CallFields DEF CallOK, ServerIInv
<1>2. Moves(written, clock, compactRev, written', clock', compactRev')
  BY <1>1, StoreMovesOn
<1>3. reader[c].pc = "idle" /\ reader[c].rows = {}
  BY IdleReader DEF Asks
<1>4. /\ new \in CallState /\ new.pc = "each" /\ new.req = x.req /\ new.ops = x.ops
      /\ new.start = x.start /\ new.done = x.done /\ new.succeeded = x.succeeded
      /\ new.decided = x.decided /\ new.modRev = rev /\ new.todo = x.todo \ {k}
  <2>1. new \in CallState
    BY <1>1 DEF CallState
  <2>2. /\ new.pc = "each" /\ new.req = x.req /\ new.ops = x.ops
        /\ new.start = x.start /\ new.done = x.done /\ new.succeeded = x.succeeded
        /\ new.decided = x.decided /\ new.modRev = rev /\ new.todo = x.todo \ {k}
    BY <1>1, SMTT(60) DEF CallState
  <2> QED BY <2>1, <2>2
<1>5. call' = [call EXCEPT ![c] = new]
  BY DEF Set
<1> HIDE DEF new
<1>6. Op(new) = Op(x) /\ (IsTxn(new) <=> IsTxn(x))
  BY <1>4 DEF Op, IsTxn
<1>7. AtOps(new, clock')
  <2>1. x.start <= clock' /\ x.decided <= clock'
    <3>1. x.start \in Nat /\ x.decided \in Nat /\ x.start <= clock /\ x.decided <= clock
      BY CallFields
    <3>2. clock \in Nat /\ clock' \in Nat /\ clock <= clock'
      BY <1>2 DEF Moves
    <3> HIDE DEF x
    <3> QED BY <3>1, <3>2, SMTT(60)
  <2>2. x.ops # <<>> /\ Op(x).type = "delete" /\ ~SingleKey(Op(x))
    BY <1>1 DEF AtOps
  <2> QED BY <1>1, <1>4, <1>6, <2>1, <2>2 DEF AtOps
<1>8. EachOn(new, written', clock', compactRev')
  <2> SUFFICES ASSUME IsTxn(x)
               PROVE  /\ \A j \in x.todo \ {k} : InRange(Op(x).range, j)
                      /\ Reaches(Op(x).range) =>
                            AllGone(Op(x).range, x.todo \ {k}, x.start, written', clock', compactRev')
    BY <1>4, <1>6 DEF EachOn
  <2>1. /\ \A j \in x.todo : InRange(Op(x).range, j)
        /\ Reaches(Op(x).range) => AllGone(Op(x).range, x.todo, x.start, written, clock, compactRev)
    BY <1>1 DEF EachOn
  <2>2. ASSUME Reaches(Op(x).range), NEW j \in Key, InRange(Op(x).range, j), j \notin x.todo \ {k},
               NEW w \in HeldIn(written', j, x.start), ~w.deleted, w.rev > compactRev'
        PROVE  Gone(written', j, w.rev, clock')
    <3>1. CASE j = k
      <4>1. w \in written /\ w.key = j
        BY <2>2, HeldThen
      <4> QED BY <2>2, <3>1, <4>1
    <3>2. CASE j # k
      <4>1. AllGone(Op(x).range, x.todo, x.start, written', clock', compactRev')
        <5>1. x.start \in Nat /\ x.start <= clock
          BY CallFields
        <5>2. AllGone(Op(x).range, x.todo, x.start, written, clock, compactRev)
          BY <2>1, <2>2
        <5> HIDE DEF x
        <5> QED BY <1>2, <5>1, <5>2, AllGoneMoves, SMTT(60)
      <4> QED BY <2>2, <3>2, <4>1 DEF AllGone
    <3> QED BY <3>1, <3>2
  <2> QED BY <2>1, <2>2 DEF AllGone
<1>9. PutOn(new, written', clock') /\ KeepOn(new, written') /\ new.pc # "compare"
  BY <1>4 DEF PutOn, KeepOn
<1>10. Chosen(new, written') /\ DoneOn(new, written', clock', compactRev')
  BY <1>4, ChosenKept, DoneKept
<1> QED BY <1>3, <1>4, <1>5, <1>7, <1>8, <1>9, <1>10, Advance

\* The keys listed are deleted one by one.
LEMMA DeleteEachKeeps ==
    ASSUME ServerIInv, NEW c \in Reader, DeleteEach(c)
    PROVE  ServerIInv'
<1>1. /\ call[c].pc = "each" /\ UNCHANGED reader /\ ReadIInv
      /\ call[c] \in CallState /\ call[c].modRev \in Revision /\ call[c].todo \subseteq Key
  <2>1. call[c] \in CallState
    BY CallFields
  <2>2. call[c].modRev \in Revision /\ call[c].todo \subseteq Key
    BY <2>1, SMTT(60) DEF CallState
  <2> QED BY <2>1, <2>2 DEF DeleteEach, ServerIInv
<1>2. PICK k \in call[c].todo :
        IF keyExistsTxn(k)
        THEN /\ Delete(k, 0)
             /\ Set(c, [call[c] EXCEPT !.todo = call[c].todo \ {k}, !.modRev = CommitTimestamp])
        ELSE /\ Set(c, [call[c] EXCEPT !.todo = call[c].todo \ {k}])
             /\ UNCHANGED vars
  BY DEF DeleteEach
<1>3. k \in Key
  BY <1>1
<1>4. CASE keyExistsTxn(k)
  <2>1. /\ Delete(k, 0)
        /\ Set(c, [call[c] EXCEPT !.todo = call[c].todo \ {k}, !.modRev = CommitTimestamp])
    BY <1>2, <1>4
  <2>2. /\ ReadIInv' /\ StoreMoves /\ CommitTimestamp \in Revision /\ CommitTimestamp <= clock'
        /\ \A w \in written : Gone(written', k, w.rev, clock')
    BY <1>1, <1>3, <2>1, DeletedIsGone
  <2> QED BY <1>1, <2>1, <2>2, EachKeeps
<1>5. CASE ~keyExistsTxn(k)
  <2>1. Set(c, [call[c] EXCEPT !.todo = call[c].todo \ {k}]) /\ UNCHANGED vars
    BY <1>2, <1>5
  <2>2. [call[c] EXCEPT !.todo = call[c].todo \ {k}]
          = [call[c] EXCEPT !.todo = call[c].todo \ {k}, !.modRev = call[c].modRev]
    BY <1>1 DEF CallState
  <2>3. ReadIInv' /\ StoreMoves /\ clock' = clock /\ written' = written
    BY <1>1, <2>1, Still, StorePreserves
  <2>4. \A w \in written : w.key = k /\ ~w.deleted => Gone(written, k, w.rev, clock)
    BY <1>1, <1>3, <1>5, MissingIsGone
  <2>5. call[c].modRev <= clock'
    BY <2>3, CallFields
  <2> QED BY <1>1, <2>1, <2>2, <2>3, <2>4, <2>5, EachKeeps
<1> QED BY <1>4, <1>5

\* All are.
LEMMA DeleteDoneKeeps ==
    ASSUME ServerIInv, NEW c \in Reader, DeleteDone(c)
    PROVE  ServerIInv'
<1> DEFINE x == call[c]
           rev == IF x.modRev = 0 THEN CurrentRevision ELSE x.modRev
           applied == x.modRev # 0
<1>1. /\ x.pc = "each" /\ x.todo = {} /\ Finish(c, rev, applied) /\ UNCHANGED vars /\ UNCHANGED reader
      /\ ReadIInv
  BY DEF DeleteDone, ServerIInv
<1>2. /\ ReadIInv' /\ StoreMoves /\ clock' = clock /\ written' = written /\ compactRev' = compactRev
      /\ CurrentRevision = clock /\ clock \in Revision /\ clock \in Nat
  BY <1>1, Still, StorePreserves, StoreTypes
<1>3. /\ x \in CallState /\ x.ops # <<>> /\ Op(x).type = "delete" /\ x.modRev \in Nat /\ x.modRev <= clock
      /\ EachOn(x, written, clock, compactRev)
  BY <1>1, CallFields DEF CallOK, AtOps
<1>4. rev \in Revision /\ rev <= clock /\ Max2(clock, rev) = clock /\ applied \in BOOLEAN
  <2>1. x.modRev \in Revision
    BY <1>3, SMTT(60) DEF CallState
  <2>2. rev \in Revision /\ rev \in Nat /\ rev <= clock
    BY <1>2, <1>3, <2>1, SMTT(60)
  <2>3. Max2(clock, rev) = clock
    BY <1>2, <2>2, SMTT(60) DEF Max2
  <2> QED BY <2>2, <2>3
<1>5. reader[c].pc = "idle" /\ reader[c].rows = {}
  BY <1>1, IdleReader DEF Asks
<1>6. IsTxn(x) /\ Reaches(Op(x).range) => AllGone(Op(x).range, {}, x.start, written, clock, compactRev)
  BY <1>1, <1>3 DEF EachOn
<1>7. Op(x).type # "put"
  BY <1>3, SMTT(60)
<1> HIDE DEF rev, applied
<1> QED BY <1>1, <1>2, <1>3, <1>4, <1>5, <1>6, <1>7, FinishKeeps

\* A store call fails.
LEMMA StoreErrorKeeps ==
    ASSUME ServerIInv, NEW c \in Reader, StoreError(c)
    PROVE  ServerIInv'
<1>1. /\ call[c].pc \in {"op", "update", "each"} /\ reader[c].pc = "idle" /\ UNCHANGED vars
      /\ UNCHANGED reader /\ ReadIInv
  BY DEF StoreError, ServerIInv
<1>2. ReadIInv' /\ StoreMoves /\ clock' = clock
  BY <1>1, Still, StorePreserves
<1>3. CASE call[c].pc = "each" /\ call[c].req.rpc = "deleteRange"
  <2>1. PICK k \in call[c].todo : Set(c, [call[c] EXCEPT !.todo = call[c].todo \ {k}])
    BY <1>3 DEF StoreError
  <2>2. call[c] \in CallState /\ call[c].modRev \in Revision /\ call[c].modRev <= clock'
    <3>1. call[c] \in CallState /\ call[c].modRev <= clock'
      BY <1>2, CallFields
    <3> QED BY <3>1, SMTT(60) DEF CallState
  <2>3. [call[c] EXCEPT !.todo = call[c].todo \ {k}]
          = [call[c] EXCEPT !.todo = call[c].todo \ {k}, !.modRev = call[c].modRev]
    BY <2>2 DEF CallState
  <2>4. ~IsTxn(call[c])
    BY <1>3, SMTT(60) DEF IsTxn
  <2> QED BY <1>1, <1>2, <1>3, <2>1, <2>2, <2>3, <2>4, EachKeeps
<1>4. CASE ~(call[c].pc = "each" /\ call[c].req.rpc = "deleteRange")
  <2>1. Fail(c) /\ call[c].pc # "idle"
    BY <1>1, <1>4 DEF StoreError
  <2>2. reader[c].rows = {}
    BY <1>1, CallFields DEF CallOK, ReadsOn
  <2> QED BY <1>1, <1>2, <2>1, <2>2, FailKeeps
<1> QED BY <1>3, <1>4

-----------------------------------------------------------------------------
(* The results. *)

\* The invariant holds initially.
LEMMA ServerInitIInv == ServerInit => ServerIInv
<1> SUFFICES ASSUME ServerInit PROVE ServerIInv
  OBVIOUS
<1>1. ReadIInv /\ call = [c \in Reader |-> NoCall] /\ reader = [r \in Reader |-> NoRead]
  BY ReadInitIInv DEF ServerInit, ReadInit
<1>2. clock \in Nat
  BY <1>1, StoreTypes
<1>3. NoCall \in CallState
  <2>1. 0 \in Revision /\ 0 \in LeaseOrNone
    BY StoreAssumption, SMTT(60) DEF Revision, LeaseOrNone
  <2>2. <<>> \in Seq(TxnCompare) /\ <<>> \in Seq(RequestOp) /\ <<>> \in Seq(DoneState)
    BY SMTT(60)
  <2> QED BY <2>1, <2>2, SMTT(60) DEF NoCall, CallState
<1>4. /\ NoCall.pc = "idle" /\ NoCall.start = 0 /\ NoCall.decided = 0 /\ NoCall.modRev = 0
      /\ DOMAIN NoCall.done = {}
  BY SMTT(60) DEF NoCall
<1>5. NoRead.pc = "idle" /\ NoRead.rows = {}
  BY SMTT(60) DEF NoRead
<1>6. AtOps(NoCall, clock) /\ ReadsOn(NoCall, NoRead, written, clock)
  <2>1. AtOps(NoCall, clock)
    <3>1. 0 <= clock
      BY <1>2, SMTT(60)
    <3> QED BY <1>4, <3>1 DEF AtOps
  <2> QED BY <1>5, <2>1 DEF ReadsOn
<1>7. /\ PutOn(NoCall, written, clock) /\ KeepOn(NoCall, written) /\ Chosen(NoCall, written)
      /\ EachOn(NoCall, written, clock, compactRev) /\ Comparing(NoCall, written, clock)
      /\ DoneOn(NoCall, written, clock, compactRev)
  BY <1>4 DEF PutOn, KeepOn, Chosen, EachOn, Comparing, DoneOn
<1>8. CallOK(NoCall, NoRead, written, clock, compactRev)
  BY <1>6, <1>7 DEF CallOK
<1>9. CallTypes
  BY <1>1, <1>3 DEF CallTypes
<1> QED BY <1>1, <1>8, <1>9 DEF ServerIInv

\* A step of a call keeps it.
LEMMA CallStepIInv ==
    ASSUME ServerIInv, NEW c \in Reader, CallStep(c)
    PROVE  ServerIInv'
<1>1. CASE (\E q \in ServerRequest : StartCall(c, q)) \/ CompareAsk(c) \/ CompareRead(c)
           \/ CompareHolds(c) \/ NoOps(c)
  BY <1>1, StartKeeps, CompareAskKeeps, CompareReadKeeps, CompareHoldsKeeps, NoOpsKeeps
<1>2. CASE PutCreate(c) \/ PutAsk(c) \/ PutRead(c) \/ IgnoreAsk(c) \/ IgnoreRead(c) \/ PutUpdate(c)
           \/ PutMismatch(c)
  BY <1>2, PutCreateKeeps, PutAskKeeps, PutReadKeeps, IgnoreReadKeeps, PutUpdateKeeps, PutMismatchKeeps
<1>3. CASE DeleteKey(c) \/ DeleteAsk(c) \/ DeleteRead(c) \/ DeleteEach(c) \/ DeleteDone(c)
  BY <1>3, DeleteKeyKeeps, DeleteAskKeeps, DeleteReadKeeps, DeleteEachKeeps, DeleteDoneKeeps
<1>4. CASE RangeAsk(c) \/ RangeRead(c) \/ ReadGoesOn(c) \/ ReadFails(c) \/ ReadCompacted(c)
           \/ StoreError(c)
  BY <1>4, RangeAskKeeps, RangeReadKeeps, ReadGoesOnKeeps, ReadFailsKeeps, StoreErrorKeeps
<1> QED BY <1>1, <1>2, <1>3, <1>4 DEF CallStep

\* So does every step.
LEMMA ServerNextIInv == ServerIInv /\ [ServerNext]_serverVars => ServerIInv'
<1> SUFFICES ASSUME ServerIInv, [ServerNext]_serverVars PROVE ServerIInv'
  OBVIOUS
<1>1. IInv
  BY DEF ServerIInv, ReadIInv
<1>2. CASE Background /\ UNCHANGED <<reader, call>>
  <2>1. UNCHANGED <<reader, call>>
    BY <1>2
  <2>2. IInv' /\ StoreMoves
    <3>1. CASE HorizonRises \/ RowCompacted
      BY <1>1, <3>1, CompactionSeen
    <3>2. CASE \E t \in TxnRequest : AtomicTxn(t)
      <4>1. [Next]_vars
        BY <3>2 DEF Next, WriteStep
      <4> QED BY <1>1, <4>1, NextIInv, HistoryGrows
    <3>3. CASE \E k \in Key, l \in Lease : DeleteIfLease(k, l)
      <4>1. PICK k \in Key, l \in Lease : DeleteIfLease(k, l)
        BY <3>3
      <4>2. l \in LeaseOrNone
        BY DEF LeaseOrNone
      <4>3. WriteStep
        BY <4>1, <4>2 DEF WriteStep
      <4>4. [Next]_vars
        BY <4>3 DEF Next
      <4> QED BY <1>1, <4>4, NextIInv, HistoryGrows
    <3> QED BY <1>2, <3>1, <3>2, <3>3 DEF Background
  <2> QED BY <2>1, <2>2, StorePreservesCalls
<1>3. CASE \E c \in Reader : CallStep(c)
  BY <1>3, CallStepIInv
<1>4. CASE UNCHANGED serverVars
  <2>1. UNCHANGED vars /\ UNCHANGED <<reader, call>> /\ ReadIInv
    BY <1>4 DEF serverVars, vars, ServerIInv
  <2>2. IInv' /\ StoreMoves
    BY <2>1, Still
  <2> QED BY <2>1, <2>2, StorePreservesCalls
<1> QED BY <1>2, <1>3, <1>4 DEF ServerNext

\* Whatever calls of any clients, lease expiry, atomic transactions and
\* compaction do between the store calls of an RPC, it keeps the invariant.
THEOREM ServerInvariance == ServerSpec => []ServerIInv
BY ServerInitIInv, ServerNextIInv, PTL DEF ServerSpec

\* A finished operation of a call in progress.
LEMMA FinishedOK ==
    ASSUME ServerIInv, NEW f \in Finished
    PROVE  /\ f[1] \in Reader /\ DoneOp(f) \in DoneState
           /\ DoneOK(call[f[1]].start, IsTxn(call[f[1]]), DoneOp(f), written, clock, compactRev)
<1>1. PICK c \in Reader : f \in {c} \X DOMAIN call[c].done
  BY DEF Finished
<1>2. f[1] = c /\ f[2] \in DOMAIN call[c].done
  BY <1>1, SMTT(60)
<1>3. call[c] \in CallState /\ DoneOn(call[c], written, clock, compactRev)
  BY CallFields DEF CallOK
<1>4. call[c].done[f[2]] \in DoneState
  BY <1>2, <1>3, SMTT(60) DEF CallState
<1> QED BY <1>2, <1>3, <1>4 DEF DoneOn, DoneOp

\* A Put that is acknowledged though it wrote nothing (Update's ok is dropped)
\* lost to a write of the key since the call began.
THEOREM PutLosesOnlyToRace == ServerSpec => []PutLostOnlyToRace
<1>1. ServerIInv => PutLostOnlyToRace
  BY FinishedOK DEF PutLostOnlyToRace, WrittenBetween, DoneOK, Between
<1> QED BY <1>1, ServerInvariance, PTL

\* IgnoreValue and IgnoreLease keep the value and the lease of the very row the
\* put replaces, though it was read in an earlier transaction.
THEOREM IgnoredFieldIsKept == ServerSpec => []IgnoredFieldKept
<1>1. ServerIInv => IgnoredFieldKept
  BY FinishedOK DEF IgnoredFieldKept, DoneOK, Kept, IsTxn
<1> QED BY <1>1, ServerInvariance, PTL

\* A Range or DeleteRange in a Txn answers with, and deletes, keys of its range
\* only, whatever the range, the key names and LIKE's wildcards; a CountOnly Range
\* is left out, since it counts what it lists.
THEOREM TxnRangeIsExact == ServerSpec => []TxnRangeExact
<1>1. ServerIInv => TxnRangeExact
  <2> SUFFICES ASSUME ServerIInv PROVE TxnRangeExact
    OBVIOUS
  <2>1. \A f \in Finished :
            call[f[1]].req.rpc = "txn" /\ ~DoneOp(f).op.countOnly =>
                \A r \in DoneOp(f).rows : InRange(DoneOp(f).op.range, r.key)
    BY FinishedOK DEF DoneOK, IsTxn
  <2>2. \A c \in Reader :
            call[c].pc = "each" /\ call[c].req.rpc = "txn" =>
                \A k \in call[c].todo : InRange(Head(call[c].ops).range, k)
    BY CallFields DEF CallOK, EachOn, IsTxn, Op
  <2> QED BY <2>1, <2>2 DEF TxnRangeExact
<1> QED BY <1>1, ServerInvariance, PTL

\* The compares of a Txn that is not atomic, one Get each, choose the branch an
\* atomic one would have, unless a compared key is written meanwhile.
THEOREM CompareIsExact == ServerSpec => []CompareExact
<1>1. ServerIInv => CompareExact
  <2> SUFFICES ASSUME ServerIInv, NEW c \in Reader,
                      call[c].pc \in {"op", "get", "update", "each", "answered"},
                      \A i \in DOMAIN call[c].req.compares :
                        ~WrittenBetween(call[c].req.compares[i].key, call[c].start, call[c].decided)
               PROVE  call[c].succeeded =
                        \A i \in DOMAIN call[c].req.compares :
                          ModRevOf({w \in HeldAt(call[c].req.compares[i].key, call[c].start) : ~w.deleted})
                            = call[c].req.compares[i].modRev
    BY DEF CompareExact
  <2>1. Chosen(call[c], written)
    BY CallFields DEF CallOK
  <2>2. call[c].succeeded =
          (\A i \in DOMAIN call[c].req.compares : Holds(call[c].req, i, call[c].start, written))
    BY <2>1 DEF Chosen, Between, WrittenBetween
  <2>3. \A k, rev : HeldAt(k, rev) = HeldIn(written, k, rev)
    BY DEF HeldAt, HeldIn
  <2> QED BY <2>2, <2>3 DEF Holds
<1> QED BY <1>1, ServerInvariance, PTL

\* Clients delete keys, prefixes without a backslash and everything from a key
\* on: ranges whose keys the server finds by the prefix it looks up.
PrefixDeletes == \A op \in RequestOp : op.type = "delete" => Reaches(op.range)

\* A range delete of a Txn that met no error leaves no key of the range that was
\* live when the call began, in a row above the compaction revision, though its
\* List and its Deletes are transactions of their own.
THEOREM DeleteRangeIsComplete ==
    ASSUME PrefixDeletes
    PROVE  ServerSpec => []DeleteRangeComplete
<1>1. ServerIInv => DeleteRangeComplete
  <2> SUFFICES ASSUME ServerIInv, NEW f \in Finished, DoneOp(f).op.type = "delete",
                      call[f[1]].req.rpc = "txn", NEW k \in Key, InRange(DoneOp(f).op.range, k),
                      NEW w \in HeldAt(k, call[f[1]].start), ~w.deleted, w.rev > compactRev
               PROVE  \E t \in written : /\ t.key = k /\ t.deleted
                                         /\ w.rev < t.rev /\ t.rev <= DoneOp(f).at
    BY DEF DeleteRangeComplete
  <2>1. DoneOp(f) \in DoneState
    BY FinishedOK
  <2>2. DoneOp(f).op \in RequestOp
    BY <2>1, SMTT(60) DEF DoneState
  <2>3. Reaches(DoneOp(f).op.range)
    BY <2>2 DEF PrefixDeletes
  <2>4. AllGone(DoneOp(f).op.range, {}, call[f[1]].start, written, DoneOp(f).at, compactRev)
    BY <2>3, FinishedOK DEF DoneOK, IsTxn
  <2>5. w \in HeldIn(written, k, call[f[1]].start)
    BY DEF HeldAt, HeldIn
  <2>6. Gone(written, k, w.rev, DoneOp(f).at)
    BY <2>4, <2>5 DEF AllGone
  <2> QED BY <2>6 DEF Gone
<1> QED BY <1>1, ServerInvariance, PTL

-----------------------------------------------------------------------------
(* Refinement: the KV service implements EtcdKV. *)

\* The service implements the etcd key-value store: whatever RPCs run at once,
\* and however many store calls each is made of, what it does to the keys is a
\* sequence of atomic mutations at growing revisions, and compaction is
\* invisible.
THEOREM ServiceImplementsEtcd == ServerSpec => ImplementsEtcd
<1>1. ServerInit => Etcd!Init
  <2> SUFFICES ASSUME ServerInit PROVE Etcd!Init
    OBVIOUS
  <2>1. Live = {}
    BY DEF ServerInit, ReadInit, Init, Live, getLatestTxn, NewestRows
  <2> QED BY <2>1, SMTT(60) DEF ServerInit, ReadInit, Init, Etcd!Init, CurrentRevision
<1>2. ServerIInv /\ ServerIInv' /\ [ServerNext]_serverVars => [Etcd!Next]_(Etcd!etcdVars)
  <2> SUFFICES ASSUME ServerIInv, ServerIInv', [ServerNext]_serverVars
               PROVE  Etcd!Next \/ UNCHANGED Etcd!etcdVars
    OBVIOUS
  <2>1. IInv /\ IInv'
    BY DEF ServerIInv, ReadIInv
  <2> QED BY <2>1, ServerNextCommits, CommitMutates, CompactionStutters DEF CommitsOrKeeps
<1> QED BY <1>1, <1>2, ServerInvariance, PTL DEF ServerSpec, ImplementsEtcd, Etcd!Spec

\* The reads of a call are exact for every key whose row is above the
\* compaction revision or has not been superseded.
THEOREM ServiceReadsAreExact == ServerSpec => []SnapshotExact
<1>1. ServerIInv => SnapshotExact
  BY DEF ServerIInv, ReadIInv
<1> QED BY <1>1, ServerInvariance, PTL

=============================================================================
