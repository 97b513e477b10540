------------------------ MODULE ChangeStreamProofs ------------------------
(***************************************************************************)
(* Proofs about ChangeStream, for every set of keys and transactions, any  *)
(* number of partitions, splits, moves and merges, any capacity of the     *)
(* channel and any number of broken queries and restarts.                  *)
(*                                                                         *)
(* What is read and from where is spread over the workers, the channel,    *)
(* the partitions found at the start and the cursors.  Position says that  *)
(* each of these is a place Spanner has, and OriginOK how a partition came *)
(* to be read: it was there at the start, or a parent whose records are    *)
(* all dispatched handed it on.  SplitOrder follows from that, because the *)
(* records of the parent end where the child starts.                       *)
(***************************************************************************)
EXTENDS ChangeStream, TLAPS

\* SMT is the prover of a step that does not name another; it has a minute.
USE SMTT(60)

-----------------------------------------------------------------------------
(* The inductive invariant. *)

(* Spanner's partitions: one ends after it starts, its children start where  *)
(* it ends, and a key is in an open one.                                     *)
PartsOK ==
    /\ \A t \in Opened :
          /\ 1 <= part[t].start /\ part[t].start <= clock
          /\ part[t].end = 0 \/ (part[t].start < part[t].end /\ part[t].end <= clock)
          /\ part[t].kids \subseteq Opened
          /\ \A c \in part[t].kids : part[c].start = part[t].end
    /\ \A k \in Key : part[owner[k]].end = 0

(* A partition has the records of commits after its start and before its end. *)
RecordsOK ==
    \A r \in records :
        /\ r.token \in Opened /\ r.rev <= clock /\ part[r.token].start < r.rev
        /\ part[r.token].end = 0 \/ r.rev < part[r.token].end

(* Partition t can be queried from ts on. *)
Position(t, ts) ==
    /\ t \in Opened /\ part[t].start <= ts /\ ts <= clock
    /\ part[t].end = 0 \/ ts < part[t].end

(* Whatever is to be read is to be read from such a place. *)
PositionsOK ==
    /\ \A t \in Token :
          /\ worker[t].pc # "none" => Position(t, worker[t].resume)
          /\ reader.found[t] > 0 => Position(t, reader.found[t])
          /\ cursor[t] > 0 => Position(t, cursor[t])
    /\ \A i \in DOMAIN pending : Position(pending[i].token, pending[i].resume)

(* What a query has returned has been dispatched. *)
SeenOK == \A t \in Token : \A r \in worker[t].seen : r \in RecordsOf(t) /\ (r.row => r \in sent)

(* A reader starts in the past, and until it runs it has dispatched nothing. *)
StartOK ==
    /\ reader.start <= reader.boot /\ reader.boot <= clock /\ StartLag < clock
    /\ reader.pc \in {"load", "initial", "failed"} =>
          pending = << >> /\ sent = {} /\ \A t \in Token : worker[t] = NoWorker

(* Partition t has ended and every row it got since the start is dispatched. *)
Through(t) ==
    /\ t \in Opened /\ part[t].end > 0
    /\ \A r \in records : r.token = t /\ r.row /\ reader.boot < r.rev => r \in sent

(* A worker enqueues children only of such a partition. *)
KidsOK ==
    \A t \in Token :
        IF worker[t].pc = "children" THEN Through(t) /\ worker[t].kids \subseteq part[t].kids
        ELSE worker[t].kids = {}

(* This process has read partition c, or is to. *)
Begun(c) ==
    \/ worker[c].pc # "none"
    \/ \E i \in DOMAIN pending : pending[i].token = c
    \/ reader.pc \in {"run", "waiting"} /\ reader.found[c] > 0
    \/ \E t \in Token : c \in worker[t].kids
    \/ \E r \in sent : r.token = c

(* It was there at the start, or a parent that is through handed it on. *)
HandedOn(c) ==
    \/ part[c].start <= reader.boot
    \/ \E p \in Opened : c \in part[p].kids /\ Through(p)

OriginOK == \A c \in Token : Begun(c) => c \in Opened /\ HandedOn(c)

(* Within a partition records are dispatched in commit order. *)
InOrder ==
    \A r \in sent, q \in records :
        q.token = r.token /\ q.row /\ reader.boot < q.rev /\ q.rev < r.rev => q \in sent

StreamIInv ==
    /\ StreamTypeOK /\ PartsOK /\ RecordsOK /\ PositionsOK /\ SeenOK /\ StartOK
    /\ KidsOK /\ OriginOK /\ InOrder /\ ResumeSafe

(* The rows of t since the start and before ts are among those in d. *)
Safe(t, ts, d) ==
    \A r \in records : r.token = t /\ r.row /\ reader.boot < r.rev /\ r.rev < ts => r \in d

-----------------------------------------------------------------------------
(* What the type invariant gives. *)

\* What the assumption on the constants gives.
LEMMA Constants ==
    /\ MaxClock \in Nat /\ MaxParts \in Nat /\ PendingCap \in Nat /\ StartLag \in Nat
    /\ StartLag < MaxClock /\ MaxFaults \in Nat /\ 1 <= MaxParts /\ 1 <= PendingCap
BY StreamAssumption

\* The parts of the state, each with its type.
LEMMA Types ==
    ASSUME StreamTypeOK
    PROVE  /\ clock \in Nat /\ Len(part) \in Nat /\ Opened \subseteq Token
           /\ \A t \in Opened : part[t] \in Partition /\ part[t].start \in Nat /\ part[t].end \in Nat
           /\ \A k \in Key : owner[k] \in Opened
           /\ \A r \in records : r \in Record /\ r.rev \in Nat /\ r.token \in Token
           /\ reader.boot \in Nat /\ reader.start \in Nat
           /\ \A t \in Token : /\ worker[t] \in WorkerState /\ worker[t].resume \in Nat
                               /\ reader.found[t] \in Nat /\ cursor[t] \in Nat
           /\ \A i \in DOMAIN pending : pending[i] \in PartitionState /\ pending[i].resume \in Nat
<1> USE Constants
<1>1. /\ clock \in Nat /\ Len(part) \in Nat /\ Opened \subseteq Token
      /\ \A t \in Opened : part[t] \in Partition /\ part[t].start \in Nat /\ part[t].end \in Nat
  <2>1. clock \in Nat /\ Len(part) \in Nat /\ Opened \subseteq Token
    BY DEF StreamTypeOK, Time, Token, Opened
  <2>2. \A t \in Opened : part[t] \in Partition
    BY DEF StreamTypeOK, Opened
  <2> QED BY <2>1, <2>2 DEF Partition, Time
<1>2. \A k \in Key : owner[k] \in Opened
  BY DEF StreamTypeOK
<1>3. \A r \in records : r \in Record /\ r.rev \in Nat /\ r.token \in Token
  BY DEF StreamTypeOK, Time, Record
<1>4. reader.boot \in Nat /\ reader.start \in Nat /\ \A t \in Token : reader.found[t] \in Nat
  BY DEF StreamTypeOK, Time, ReaderState
<1>5. \A t \in Token : worker[t] \in WorkerState /\ worker[t].resume \in Nat /\ cursor[t] \in Nat
  BY DEF StreamTypeOK, Time, WorkerState
<1>6. \A i \in DOMAIN pending : pending[i] \in PartitionState /\ pending[i].resume \in Nat
  <2>1. \A i \in DOMAIN pending : pending[i] \in PartitionState
    BY DEF StreamTypeOK
  <2> QED BY <2>1 DEF PartitionState, Time
<1> QED BY <1>1, <1>2, <1>3, <1>4, <1>5, <1>6

\* A worker that does not run has its type.
LEMMA NoWorkerType == NoWorker \in WorkerState
BY Constants DEF NoWorker, WorkerState, Time

\* So do cursors of a process that has none.
LEMMA NoneType == None \in [Token -> Time] /\ \A t \in Token : None[t] = 0
BY Constants DEF None, Time

\* So does a process that has not started.
LEMMA NoReaderType == NoReader \in ReaderState
BY Constants, NoneType DEF NoReader, ReaderState, Time

-----------------------------------------------------------------------------
(* The start: one partition, no record, and nothing read. *)

\* A change stream without commits and a process that has not started.
LEMMA StreamInitIInv == StreamInit => StreamIInv
<1> SUFFICES ASSUME StreamInit PROVE StreamIInv
  OBVIOUS
<1> USE Constants
<1>1. /\ clock = StartLag + 1 /\ records = {} /\ part = <<[start |-> 1, end |-> 0, kids |-> {}]>>
      /\ owner = [k \in Key |-> 1] /\ cursor = None /\ reader = NoReader /\ cancelled = FALSE
      /\ pending = << >> /\ worker = [t \in Token |-> NoWorker] /\ sent = {} /\ faults = 0
  BY ZenonT(60) DEF StreamInit
<1>2. Opened = {1} /\ 1 \in Token /\ clock \in Time /\ 1 \in Time /\ 0 \in Time
  BY <1>1 DEF Opened, Token, Time
<1>3. part[1] \in Partition /\ part[1].start = 1 /\ part[1].end = 0 /\ part[1].kids = {}
  BY <1>1, <1>2 DEF Partition
<1>4. StreamTypeOK
  <2>1. part \in Seq(Partition) /\ Len(part) <= MaxParts
    BY <1>1, <1>3
  <2>2. worker \in [Token -> WorkerState]
    BY <1>1, NoWorkerType, ZenonT(60)
  <2>3. pending \in Seq(PartitionState) /\ Len(pending) <= PendingCap
    BY <1>1
  <2>4. owner \in [Key -> Opened]
    BY <1>1, <1>2
  <2>5. cursor \in [Token -> Time] /\ reader \in ReaderState
    BY <1>1, NoneType, NoReaderType, ZenonT(60)
  <2>6. records \subseteq Record /\ cancelled \in BOOLEAN /\ sent \subseteq records
    BY <1>1, ZenonT(60)
  <2>7. faults \in 0..MaxFaults
    BY <1>1
  <2> QED BY <1>2, <2>1, <2>2, <2>3, <2>4, <2>5, <2>6, <2>7, ZenonT(60) DEF StreamTypeOK
<1>5. PartsOK /\ RecordsOK
  BY <1>1, <1>2, <1>3 DEF PartsOK, RecordsOK
<1>6. /\ reader.pc = "load" /\ reader.boot = 0 /\ reader.start = 0 /\ reader.found = None
      /\ \A t \in Token : worker[t] = NoWorker /\ cursor[t] = 0
  BY <1>1, NoneType DEF NoReader
<1>7. NoWorker.pc = "none" /\ NoWorker.seen = {} /\ NoWorker.kids = {}
  BY DEF NoWorker
<1>8. PositionsOK
  BY <1>1, <1>6, <1>7, NoneType DEF PositionsOK
<1>9. SeenOK /\ KidsOK
  BY <1>6, <1>7, ZenonT(60) DEF SeenOK, KidsOK
<1>10. StartOK
  BY <1>1, <1>6, Constants DEF StartOK
<1>11. OriginOK
  BY <1>1, <1>6, <1>7 DEF OriginOK, Begun
<1>12. InOrder /\ ResumeSafe
  BY <1>1, <1>6 DEF InOrder, ResumeSafe
<1> QED BY <1>4, <1>5, <1>8, <1>9, <1>10, <1>11, <1>12 DEF StreamIInv

-----------------------------------------------------------------------------
(* Spanner's steps: commits and new partitions. *)

(* What both do, seen from the reader: partitions are added, open ones may   *)
(* end, and the records added carry the new timestamp.                       *)
Grows ==
    /\ clock' = clock + 1 /\ Opened \subseteq Opened'
    /\ \A t \in Opened : /\ part'[t].start = part[t].start
                         /\ part'[t] # part[t] => part[t].end = 0 /\ part'[t].end = clock'
    /\ records \subseteq records' /\ \A r \in records' : r \notin records => r.rev = clock'
    /\ UNCHANGED <<cursor, reader, cancelled, pending, worker, sent, faults>>

(* The part of the type invariant that is about Spanner. *)
SpannerTypeOK ==
    /\ clock \in Time /\ records \subseteq Record
    /\ part \in Seq(Partition) /\ Len(part) <= MaxParts /\ owner \in [Key -> Opened]

(* Nothing the reader holds is disturbed by them. *)
LEMMA GrowsPreserves ==
    ASSUME StreamIInv, Grows, SpannerTypeOK', PartsOK', RecordsOK'
    PROVE  StreamIInv'
<1>0. StreamTypeOK
  BY DEF StreamIInv
<1>1. /\ clock' = clock + 1 /\ clock \in Nat /\ Opened \subseteq Opened' /\ Opened \subseteq Token
      /\ cursor' = cursor /\ reader' = reader /\ pending' = pending /\ worker' = worker /\ sent' = sent
      /\ reader.boot \in Nat
  BY <1>0, Types DEF Grows
<1>2. \A t \in Opened : /\ part'[t].start = part[t].start /\ part[t].end \in Nat
                        /\ part[t].end > 0 => part'[t] = part[t]
                        /\ part'[t].end = part[t].end \/ part'[t].end = clock'
  BY <1>0, Types DEF Grows
<1>3. StreamTypeOK'
  <2>1. sent' \subseteq records'
    BY <1>1 DEF Grows, StreamTypeOK, StreamIInv
  <2> QED BY <2>1, ZenonT(60) DEF Grows, StreamTypeOK, SpannerTypeOK, StreamIInv
<1>4. ASSUME NEW t, NEW ts \in Nat, Position(t, ts)
      PROVE  Position(t, ts)'
  <2>1. t \in Opened /\ part[t].start <= ts /\ ts <= clock /\ (part[t].end = 0 \/ ts < part[t].end)
    BY <1>4 DEF Position
  <2>2. part'[t].end = 0 \/ ts < part'[t].end
    BY <1>1, <1>2, <2>1
  <2>3. t \in Opened' /\ part'[t].start <= ts /\ ts <= clock'
    BY <1>1, <1>2, <2>1
  <2> QED BY <2>2, <2>3 DEF Position
<1>5. PositionsOK'
  <2>1. \A t \in Token : worker[t].resume \in Nat /\ reader.found[t] \in Nat /\ cursor[t] \in Nat
    BY <1>0, Types
  <2>2. \A i \in DOMAIN pending : pending[i].resume \in Nat
    BY <1>0, Types
  <2> QED BY <1>1, <1>4, <2>1, <2>2, ZenonT(60) DEF PositionsOK, StreamIInv
<1>6. SeenOK'
  BY <1>1, ZenonT(60) DEF SeenOK, RecordsOf, Grows, StreamIInv
<1>7. StartOK'
  BY <1>1, Constants DEF StartOK, StreamIInv
<1>8. ASSUME NEW t \in Token, Through(t)
      PROVE  Through(t)'
  <2>1. t \in Opened /\ part[t].end > 0
    BY <1>8 DEF Through
  <2>2. part'[t] = part[t] /\ part[t].end <= clock
    BY <1>2, <2>1 DEF StreamIInv, PartsOK
  <2>3. ASSUME NEW r \in records', r.token = t PROVE r \in records
    <3>1. r.rev < part'[t].end
      BY <2>1, <2>2, <2>3, <1>2 DEF RecordsOK
    <3>2. CASE r \notin records
      <4>1. r.rev = clock'
        BY <3>2 DEF Grows
      <4> QED BY <1>1, <1>2, <2>1, <2>2, <3>1, <4>1
    <3> QED BY <3>2
  <2> QED BY <1>1, <1>8, <2>1, <2>2, <2>3, ZenonT(60) DEF Through
<1>9. KidsOK'
  <2>1. \A t \in Token : Through(t) => part'[t].kids = part[t].kids
    BY <1>2, ZenonT(60) DEF Through
  <2> QED BY <1>1, <1>8, <2>1, ZenonT(60) DEF KidsOK, StreamIInv
<1>10. OriginOK'
  <2>1. ASSUME NEW c \in Token, Begun(c)' PROVE c \in Opened' /\ HandedOn(c)'
    <3>1. Begun(c)
      BY <1>1, <2>1 DEF Begun
    <3>2. c \in Opened /\ HandedOn(c)
      BY <3>1, ZenonT(60) DEF OriginOK, StreamIInv
    <3>3. CASE part[c].start <= reader.boot
      BY <1>1, <1>2, <3>2, <3>3, ZenonT(60) DEF HandedOn
    <3>4. CASE \E p \in Opened : c \in part[p].kids /\ Through(p)
      <4>1. PICK p \in Opened : c \in part[p].kids /\ Through(p)
        BY <3>4
      <4>2. Through(p)' /\ part'[p] = part[p] /\ p \in Opened'
        BY <1>1, <1>2, <1>8, <4>1, ZenonT(60) DEF Through
      <4> QED BY <1>1, <3>2, <4>1, <4>2, ZenonT(60) DEF HandedOn
    <3> QED BY <3>2, <3>3, <3>4 DEF HandedOn
  <2> QED BY <2>1, ZenonT(60) DEF OriginOK
<1>11. \A r \in records : r.rev \in Nat /\ r.rev <= clock
  BY <1>0, Types DEF StreamIInv, RecordsOK
<1>12. InOrder'
  <2>1. ASSUME NEW r \in sent, NEW q \in records', q.rev < r.rev PROVE q \in records
    BY <1>1, <1>11, <2>1 DEF Grows, StreamTypeOK, StreamIInv
  <2> QED BY <1>1, <2>1, ZenonT(60) DEF InOrder, StreamIInv
<1>13. ResumeSafe'
  <2>1. ASSUME NEW t \in Token, NEW ts \in Resumes(t) PROVE ts \in Nat /\ ts <= clock
    BY <1>0, <1>1, Types DEF Resumes, StreamIInv, PositionsOK, Position
  <2>2. \A t \in Token : Resumes(t)' = Resumes(t)
    BY <1>1, ZenonT(60) DEF Resumes
  <2>3. ASSUME NEW t \in Token, NEW r \in records', NEW ts \in Resumes(t), r.rev < ts
        PROVE  r \in records
    BY <1>1, <2>1, <2>3 DEF Grows
  <2> QED BY <1>1, <2>2, <2>3, ZenonT(60) DEF ResumeSafe, StreamIInv
<1> QED BY <1>3, <1>5, <1>6, <1>7, <1>9, <1>10, <1>12, <1>13 DEF StreamIInv

(* A commit adds records to open partitions. *)
LEMMA CommitPreserves ==
    ASSUME StreamIInv, NEW txn \in Transaction, Commit(txn),
           UNCHANGED <<cursor, reader, cancelled, pending, worker, sent, faults>>
    PROVE  StreamIInv'
<1> DEFINE new == {[key |-> k, rev |-> clock + 1, token |-> owner[k], row |-> txn.row] : k \in txn.keys}
<1>0. StreamTypeOK /\ PartsOK /\ RecordsOK
  BY DEF StreamIInv
<1>1. /\ clock \in Nat /\ clock < MaxClock /\ clock' = clock + 1 /\ part' = part /\ owner' = owner
      /\ records' = records \cup new
  BY <1>0, Types DEF Commit
<1>2. txn.keys \subseteq Key /\ txn.row \in BOOLEAN
  BY StreamAssumption
<1>3. Opened' = Opened /\ Opened \subseteq Token /\ \A k \in Key : owner[k] \in Opened
  BY <1>0, <1>1, Types DEF Opened
<1>4. clock' \in Time
  BY <1>1, Constants DEF Time
<1>5. ASSUME NEW r \in new
      PROVE  r \in Record /\ r.rev = clock' /\ r.token \in Opened /\ part[r.token].end = 0
  <2>1. PICK k \in txn.keys :
          r = [key |-> k, rev |-> clock + 1, token |-> owner[k], row |-> txn.row]
    OBVIOUS
  <2>2. k \in Key /\ owner[k] \in Token /\ owner[k] \in Opened /\ part[owner[k]].end = 0
    BY <1>0, <1>2, <1>3 DEF PartsOK
  <2>3. r \in Record
    BY <1>1, <1>2, <1>4, <2>1, <2>2, ZenonT(60) DEF Record
  <2>4. r.rev = clock' /\ r.token = owner[k]
    BY <1>1, <2>1
  <2> QED BY <2>2, <2>3, <2>4
<1> HIDE DEF new
<1>6. Grows
  BY <1>1, <1>3, <1>5 DEF Grows
<1>7. SpannerTypeOK'
  BY <1>0, <1>1, <1>3, <1>4, <1>5, ZenonT(60) DEF SpannerTypeOK, StreamTypeOK
<1>8. PartsOK'
  <2>1. \A t \in Opened : /\ part[t].start \in Nat /\ part[t].end \in Nat
                          /\ part[t].start <= clock /\ part[t].end <= clock
    BY <1>0, <1>1, Types DEF PartsOK
  <2>2. \A t \in Opened : part[t].start <= clock' /\ part[t].end <= clock'
    BY <1>1, <2>1
  <2> QED BY <1>0, <1>1, <1>3, <2>2, ZenonT(60) DEF PartsOK
<1>9. RecordsOK'
  <2>1. ASSUME NEW r \in records
        PROVE  /\ r.token \in Opened /\ r.rev <= clock' /\ part[r.token].start < r.rev
               /\ part[r.token].end = 0 \/ r.rev < part[r.token].end
    <3>1. r.rev \in Nat /\ r.rev <= clock
      BY <1>0, Types DEF RecordsOK
    <3> QED BY <1>0, <1>1, <3>1 DEF RecordsOK
  <2>2. ASSUME NEW r \in new
        PROVE  r.rev <= clock' /\ part[r.token].start < r.rev
    <3>1. part[r.token].start \in Nat /\ part[r.token].start <= clock
      BY <1>0, <1>5, Types DEF PartsOK
    <3> QED BY <1>1, <1>5, <3>1
  <2> QED BY <1>1, <1>3, <1>5, <2>1, <2>2, ZenonT(60) DEF RecordsOK
<1> QED BY <1>6, <1>7, <1>8, <1>9, GrowsPreserves

(* The partitions a new assignment of the keys adds. *)
LEMMA FreshPartitions ==
    ASSUME StreamIInv, NEW new \in [Key -> Token], NEW size \in Token, NewOwner(new, size)
    PROVE  LET fresh == {new[k] : k \in Key} \ Opened
           IN  /\ Len(part) <= size
               /\ fresh = {t \in 1..size : t > Len(part)}
               /\ \A k \in Key : new[k] = owner[k] \/ new[k] \in fresh
<1> DEFINE fresh == {new[k] : k \in Key} \ Opened
<1>0. Len(part) \in Nat /\ size \in Nat
  BY Types, Constants DEF StreamIInv, Token
<1>1. fresh = (Len(part) + 1)..size
  BY ZenonT(60) DEF NewOwner
<1>2. \A k \in Key : new[k] = owner[k] \/ new[k] \in fresh
  BY ZenonT(60) DEF NewOwner
<1>3. \E k \in Key : new[k] # owner[k]
  <2>1. owner \in [Key -> Opened] /\ new # owner
    BY ZenonT(60) DEF NewOwner, StreamIInv, StreamTypeOK
  <2> QED BY <2>1
<1>4. fresh # {}
  BY <1>2, <1>3, ZenonT(60)
<1> HIDE DEF fresh
<1>5. Len(part) <= size
  BY <1>0, <1>1, <1>4
<1>6. fresh = {t \in 1..size : t > Len(part)}
  BY <1>0, <1>1
<1> QED BY <1>2, <1>5, <1>6, ZenonT(60) DEF fresh

(* Partitions end, all their keys go to new ones, and these are the children. *)
LEMMA RepartitionPreserves ==
    ASSUME StreamIInv, NEW new \in [Key -> Token], NEW size \in Token, Repartition(new, size),
           UNCHANGED <<cursor, reader, cancelled, pending, worker, sent, faults>>
    PROVE  StreamIInv'
<1> DEFINE fresh == {new[k] : k \in Key} \ Opened
           ends(t) == \E k \in Key : owner[k] = t /\ new[k] # t
           kids(t) == {new[k] : k \in {j \in Key : owner[j] = t}}
<1>0. StreamTypeOK /\ PartsOK /\ RecordsOK
  BY DEF StreamIInv
<1>1. /\ clock \in Nat /\ clock < MaxClock /\ clock' = clock + 1 /\ owner' = new
      /\ records' = records /\ NewOwner(new, size) /\ Len(part) \in Nat
      /\ Opened \subseteq Token /\ \A k \in Key : owner[k] \in Opened
  <2>1. /\ clock < MaxClock /\ clock' = clock + 1 /\ owner' = new
        /\ records' = records /\ NewOwner(new, size)
    BY ZenonT(60) DEF Repartition
  <2> QED BY <1>0, <2>1, Types, ZenonT(60)
<1>2. part' = [t \in 1..size |->
        IF t > Len(part) THEN [start |-> clock + 1, end |-> 0, kids |-> {}]
        ELSE IF ends(t) THEN [part[t] EXCEPT !.end = clock + 1, !.kids = kids(t)]
        ELSE part[t]]
  BY ZenonT(60) DEF Repartition
<1>3. /\ size \in Nat /\ Len(part) <= size /\ size <= MaxParts
      /\ fresh = {t \in 1..size : t > Len(part)}
      /\ \A k \in Key : new[k] = owner[k] \/ new[k] \in fresh
  <2>1. size \in Nat /\ size <= MaxParts
    BY Constants DEF Token
  <2> QED BY <1>1, <2>1, FreshPartitions, ZenonT(60)
<1>4. clock' \in Time /\ 0 \in Time /\ clock' # 0
  BY <1>1, Constants DEF Time
<1>5. ASSUME NEW k \in Key, NEW j \in Key, owner[k] = owner[j], new[j] # owner[j]
      PROVE  new[k] \in fresh
  BY <1>1, <1>3, <1>5, ZenonT(60) DEF NewOwner
<1> HIDE DEF fresh
<1>6. ASSUME NEW t \in Opened
      PROVE  /\ part[t] \in Partition /\ t \in 1..size /\ t \notin fresh
             /\ part'[t] = IF ends(t) THEN [part[t] EXCEPT !.end = clock + 1, !.kids = kids(t)]
                           ELSE part[t]
  <2>1. t \in 1..size /\ ~(t > Len(part))
    BY <1>1, <1>3 DEF Opened
  <2>2. part[t] \in Partition
    BY <1>0, Types
  <2> QED BY <1>2, <1>3, <2>1, <2>2, ZenonT(60)
<1>7. ASSUME NEW t \in fresh
      PROVE  t \in 1..size /\ part'[t] = [start |-> clock', end |-> 0, kids |-> {}]
  <2>1. t \in 1..size /\ part'[t] = [start |-> clock + 1, end |-> 0, kids |-> {}]
    BY <1>2, <1>3, ZenonT(60)
  <2> QED BY <1>1, <2>1
<1>8. 1..size = Opened \cup fresh
  BY <1>1, <1>3 DEF Opened
<1>9. ASSUME NEW t \in Opened PROVE ends(t) => kids(t) \subseteq fresh /\ kids(t) \subseteq Token
  BY <1>5, <1>9, ZenonT(60)
<1> HIDE DEF ends, kids
<1>10. \A t \in 1..size : part'[t] \in Partition
  <2>1. ASSUME NEW t \in Opened PROVE part'[t] \in Partition
    BY <1>1, <1>4, <1>6, <1>9, ZenonT(60) DEF Partition
  <2>2. ASSUME NEW t \in fresh PROVE part'[t] \in Partition
    BY <1>4, <1>7 DEF Partition
  <2> QED BY <1>8, <2>1, <2>2, ZenonT(60)
<1>11. part' \in Seq(Partition) /\ Len(part') = size /\ Opened' = 1..size
  <2>1. part' \in [1..size -> Partition]
    BY <1>2, <1>10, ZenonT(60)
  <2>2. part' \in Seq(Partition)
    BY <1>3, <2>1
  <2>3. Len(part') = size
    BY <1>3, <2>1, <2>2
  <2> QED BY <2>2, <2>3 DEF Opened
<1>12. SpannerTypeOK'
  <2>1. owner' \in [Key -> Opened']
    <3>1. \A k \in Key : new[k] \in 1..size
      BY <1>1, <1>3, <1>8, ZenonT(60)
    <3> QED BY <1>1, <1>11, <3>1
  <2>2. Len(part') <= MaxParts /\ records' \subseteq Record
    BY <1>0, <1>1, <1>3, <1>11 DEF StreamTypeOK
  <2> QED BY <1>4, <1>11, <2>1, <2>2, ZenonT(60) DEF SpannerTypeOK
<1>13. ASSUME NEW t \in Opened
       PROVE  /\ part'[t].start = part[t].start
              /\ ends(t) => part'[t].end = clock' /\ part'[t].kids = kids(t)
              /\ ~ends(t) => part'[t] = part[t]
  BY <1>1, <1>6, ZenonT(60) DEF Partition
<1>14. \A t \in Opened : ends(t) => part[t].end = 0
  BY <1>0, ZenonT(60) DEF ends, PartsOK
<1>15. Grows
  BY <1>1, <1>8, <1>11, <1>13, <1>14, ZenonT(60) DEF Grows
<1>16. \A t \in Opened : /\ part[t].start \in Nat /\ part[t].end \in Nat
                         /\ part[t].start <= clock /\ 1 <= part[t].start
                         /\ part[t].end = 0 \/ (part[t].start < part[t].end /\ part[t].end <= clock)
                         /\ part[t].kids \subseteq Opened
                         /\ \A c \in part[t].kids : part[c].start = part[t].end
  BY <1>0, Types DEF PartsOK
<1>17. \A t \in fresh : part'[t].start = clock' /\ part'[t].end = 0 /\ part'[t].kids = {}
  BY <1>7
<1>18. PartsOK'
  <2>1. ASSUME NEW t \in Opened
        PROVE  /\ 1 <= part'[t].start /\ part'[t].start <= clock'
               /\ part'[t].end = 0 \/ (part'[t].start < part'[t].end /\ part'[t].end <= clock')
    BY <1>1, <1>13, <1>16
  <2>2. ASSUME NEW t \in Opened
        PROVE  /\ part'[t].kids \subseteq Opened'
               /\ \A c \in part'[t].kids : part'[c].start = part'[t].end
    <3>1. Opened \subseteq Opened' /\ fresh \subseteq Opened'
      BY <1>8, <1>11, ZenonT(60)
    <3>2. CASE ends(t)
      BY <1>9, <1>13, <1>17, <3>1, <3>2, ZenonT(60)
    <3>3. CASE ~ends(t)
      BY <1>13, <1>16, <3>1, <3>3, ZenonT(60)
    <3> QED BY <3>2, <3>3
  <2>3. 1 <= clock' /\ clock' <= clock'
    BY <1>1
  <2>4. ASSUME NEW k \in Key PROVE part'[new[k]].end = 0
    <3>1. CASE new[k] \in fresh
      BY <1>17, <3>1
    <3>2. CASE new[k] = owner[k] /\ new[k] \notin fresh
      <4>1. ~ends(owner[k])
        BY <1>3, <1>5, <3>2, ZenonT(60) DEF ends
      <4> QED BY <1>0, <1>1, <1>13, <3>2, <4>1, ZenonT(60) DEF PartsOK
    <3> QED BY <1>3, <3>1, <3>2
  <2>5. ASSUME NEW t \in fresh
        PROVE  /\ 1 <= part'[t].start /\ part'[t].start <= clock' /\ part'[t].end = 0
               /\ part'[t].kids \subseteq Opened' /\ part'[t].kids = {}
    BY <1>17, <2>3, ZenonT(60)
  <2>6. \A t \in Opened' : t \in Opened \/ t \in fresh
    BY <1>8, <1>11, ZenonT(60)
  <2>7. \A t \in Opened' :
          /\ 1 <= part'[t].start /\ part'[t].start <= clock'
          /\ part'[t].end = 0 \/ (part'[t].start < part'[t].end /\ part'[t].end <= clock')
          /\ part'[t].kids \subseteq Opened'
          /\ \A c \in part'[t].kids : part'[c].start = part'[t].end
    BY <2>1, <2>2, <2>5, <2>6, ZenonT(60)
  <2> QED BY <1>1, <2>4, <2>7, ZenonT(60) DEF PartsOK
<1>19. RecordsOK'
  <2>1. ASSUME NEW r \in records
        PROVE  /\ r.token \in Opened' /\ r.rev <= clock' /\ part'[r.token].start < r.rev
               /\ part'[r.token].end = 0 \/ r.rev < part'[r.token].end
    <3>1. /\ r.rev \in Nat /\ r.token \in Opened /\ r.rev <= clock /\ part[r.token].start < r.rev
          /\ part[r.token].end = 0 \/ r.rev < part[r.token].end
      BY <1>0, Types DEF RecordsOK
    <3>2. r.token \in Opened'
      BY <1>8, <1>11, <3>1, ZenonT(60)
    <3> QED BY <1>1, <1>13, <3>1, <3>2
  <2> QED BY <1>1, <2>1 DEF RecordsOK
<1> QED BY <1>12, <1>15, <1>18, <1>19, GrowsPreserves

-----------------------------------------------------------------------------
(* Steps of the reader: Spanner does not change. *)

\* What the invariant says of Spanner stays, for a step of the reader.
LEMMA SpannerStays ==
    ASSUME StreamIInv, UNCHANGED spanner
    PROVE  /\ PartsOK' /\ RecordsOK' /\ SpannerTypeOK'
           /\ clock' = clock /\ records' = records /\ part' = part /\ Opened' = Opened
           /\ \A t, ts : Position(t, ts)' <=> Position(t, ts)
<1>1. clock' = clock /\ records' = records /\ part' = part /\ owner' = owner
  BY DEF spanner
<1>2. Opened' = Opened
  BY <1>1 DEF Opened
<1>3. PartsOK' /\ RecordsOK'
  BY <1>1, <1>2, ZenonT(60) DEF StreamIInv, PartsOK, RecordsOK
<1>4. SpannerTypeOK'
  BY <1>1, <1>2, ZenonT(60) DEF StreamIInv, StreamTypeOK, SpannerTypeOK
<1>5. \A t, ts : Position(t, ts)' <=> Position(t, ts)
  BY <1>1, <1>2, ZenonT(60) DEF Position
<1> QED BY <1>1, <1>2, <1>3, <1>4, <1>5

(* ResumeSafe, by partition and place. *)
LEMMA ResumesAreSafe ==
    ASSUME ResumeSafe, reader.pc # "load", NEW t \in Token, NEW ts \in Resumes(t)
    PROVE  Safe(t, ts, sent)
BY ZenonT(60) DEF ResumeSafe, Safe

(* A child can be read from its start on, and has no rows before that. *)
LEMMA ChildPosition ==
    ASSUME StreamIInv, NEW c \in Opened
    PROVE  Position(c, part[c].start) /\ Safe(c, part[c].start, sent) /\ part[c].start \in Time
<1>1. StreamTypeOK /\ PartsOK /\ RecordsOK
  BY DEF StreamIInv
<1>2. part[c].start \in Nat /\ part[c] \in Partition /\ \A r \in records : r.rev \in Nat
  BY <1>1, Types
<1>3. Position(c, part[c].start)
  BY <1>1, <1>2 DEF PartsOK, Position
<1>4. Safe(c, part[c].start, sent)
  BY <1>1, <1>2 DEF RecordsOK, Safe
<1> QED BY <1>2, <1>3, <1>4 DEF Partition

(* A state the worker of t may move to when the rows in d are dispatched. *)
MovesTo(t, new, d) ==
    /\ new \in WorkerState
    /\ new.pc # "none" => Position(t, new.resume) /\ Safe(t, new.resume, d)
    /\ \A r \in new.seen : r \in RecordsOf(t) /\ (r.row => r \in d)
    /\ IF new.pc = "children" THEN Through(t) /\ new.kids \subseteq part[t].kids
       ELSE new.kids = {}

(* The cursor of t stays or becomes one before which all is dispatched. *)
Flushes(t, d) ==
    \/ cursor' = cursor
    \/ \E ts \in Time : cursor' = [cursor EXCEPT ![t] = ts] /\ Position(t, ts) /\ Safe(t, ts, d)

(* The channel stays or gets a child the worker of t was to enqueue. *)
HandsOn(t) ==
    \/ pending' = pending
    \/ /\ Len(pending) < PendingCap
       /\ \E c \in worker[t].kids :
             pending' = Append(pending, [token |-> c, resume |-> part[c].start])

(* A step of the worker of t, to new: it may dispatch rows of t, flush a     *)
(* cursor, and hand a child on.                                              *)
LEMMA WorkerMoves ==
    ASSUME StreamIInv, NEW t \in Token, NEW new, NEW rows \in SUBSET RecordsOf(t),
           worker[t].pc # "none", worker' = [worker EXCEPT ![t] = new],
           UNCHANGED <<spanner, reader, cancelled>>, faults' \in 0..MaxFaults,
           sent' = sent \cup rows,
           \A r \in rows : /\ r.row
                           /\ \A q \in RecordsOf(t) :
                                 q.row /\ reader.boot < q.rev /\ q.rev < r.rev => q \in sent',
           MovesTo(t, new, sent'), Flushes(t, sent'), HandsOn(t)
    PROVE  StreamIInv'
<1>0. StreamTypeOK /\ PartsOK
  BY DEF StreamIInv
<1>1. /\ PartsOK' /\ RecordsOK' /\ SpannerTypeOK' /\ clock' = clock /\ records' = records
      /\ part' = part /\ Opened' = Opened /\ reader' = reader /\ Opened \subseteq Token
      /\ \A u, ts : Position(u, ts)' <=> Position(u, ts)
  BY <1>0, SpannerStays, Types, ZenonT(60)
<1>2. rows \subseteq records /\ \A r \in rows : r.token = t
  BY DEF RecordsOf
<1>3. /\ worker \in [Token -> WorkerState] /\ worker'[t] = new
      /\ \A u \in Token : u # t => worker'[u] = worker[u]
  BY <1>0, ZenonT(60) DEF StreamTypeOK
<1>4. worker' \in [Token -> WorkerState]
  BY <1>3, ZenonT(60) DEF MovesTo
<1>5. \A c \in worker[t].kids : /\ c \in Opened /\ worker[t].pc = "children"
                                /\ Position(c, part[c].start) /\ Safe(c, part[c].start, sent)
                                /\ part[c].start \in Time
  <2>1. \A c \in worker[t].kids : worker[t].pc = "children" /\ t \in Opened /\ c \in part[t].kids
    BY ZenonT(60) DEF StreamIInv, KidsOK, Through
  <2>2. \A c \in worker[t].kids : c \in Opened
    BY <1>0, <2>1, ZenonT(60) DEF PartsOK
  <2> QED BY <2>1, <2>2, ChildPosition
<1>6. /\ pending \in Seq(PartitionState) /\ pending' \in Seq(PartitionState)
      /\ Len(pending') <= PendingCap
      /\ \A i \in DOMAIN pending' : \/ i \in DOMAIN pending /\ pending'[i] = pending[i]
                                    \/ \E c \in worker[t].kids :
                                          pending'[i] = [token |-> c, resume |-> part[c].start]
  <2>0. pending \in Seq(PartitionState) /\ Len(pending) <= PendingCap
    BY <1>0 DEF StreamTypeOK
  <2>1. CASE pending' = pending
    BY <2>0, <2>1
  <2>2. CASE Len(pending) < PendingCap /\ \E c \in worker[t].kids :
               pending' = Append(pending, [token |-> c, resume |-> part[c].start])
    <3>1. PICK c \in worker[t].kids :
            pending' = Append(pending, [token |-> c, resume |-> part[c].start])
      BY <2>2
    <3> DEFINE p == [token |-> c, resume |-> part[c].start]
    <3>2. p \in PartitionState
      BY <1>1, <1>5 DEF PartitionState
    <3> HIDE DEF p
    <3>3. /\ pending' \in Seq(PartitionState) /\ Len(pending') = Len(pending) + 1
          /\ \A i \in DOMAIN pending' : (i \in DOMAIN pending /\ pending'[i] = pending[i]) \/ pending'[i] = p
      BY <2>0, <3>1, <3>2 DEF p
    <3> QED BY <2>0, <2>2, <3>3, Constants DEF p
  <2> QED BY <2>1, <2>2 DEF HandsOn
<1>7. /\ cursor' \in [Token -> Time]
      /\ \A u \in Token : \/ cursor'[u] = cursor[u]
                          \/ u = t /\ Position(t, cursor'[t]) /\ Safe(t, cursor'[t], sent')
  BY <1>0, ZenonT(60) DEF StreamTypeOK, Flushes
<1>8. StreamTypeOK'
  <2>1. sent' \subseteq records'
    BY <1>0, <1>1, <1>2 DEF StreamTypeOK
  <2>2. reader' \in ReaderState /\ cancelled' \in BOOLEAN
    BY <1>0, ZenonT(60) DEF StreamTypeOK
  <2> QED BY <1>1, <1>4, <1>6, <1>7, <2>1, <2>2, ZenonT(60) DEF StreamTypeOK, SpannerTypeOK
<1>9. PositionsOK'
  <2>1. \A i \in DOMAIN pending' : Position(pending'[i].token, pending'[i].resume)
    BY <1>5, <1>6 DEF StreamIInv, PositionsOK
  <2>2. \A u \in Token : /\ worker'[u].pc # "none" => Position(u, worker'[u].resume)
                         /\ reader'.found[u] > 0 => Position(u, reader'.found[u])
                         /\ cursor'[u] > 0 => Position(u, cursor'[u])
    BY <1>1, <1>3, <1>7, ZenonT(60) DEF StreamIInv, PositionsOK, MovesTo
  <2> QED BY <1>1, <2>1, <2>2, ZenonT(60) DEF PositionsOK
<1>10. SeenOK'
  BY <1>1, <1>3, ZenonT(60) DEF StreamIInv, SeenOK, RecordsOf, MovesTo
<1>11. reader.pc \notin {"load", "initial", "failed"}
  BY DEF StreamIInv, StartOK, NoWorker
<1>12. StartOK'
  BY <1>1, <1>11 DEF StreamIInv, StartOK
<1>13. \A p \in Opened : Through(p) => Through(p)'
  BY <1>1, ZenonT(60) DEF Through
<1>14. KidsOK'
  <2>1. \A p \in Token : Through(p) => Through(p)'
    BY <1>13, ZenonT(60) DEF Through
  <2> QED BY <1>1, <1>3, <2>1, ZenonT(60) DEF StreamIInv, KidsOK, MovesTo
<1>15. OriginOK'
  <2>1. ASSUME NEW c \in Token, HandedOn(c) PROVE HandedOn(c)'
    BY <1>1, <1>13, <2>1, ZenonT(60) DEF HandedOn
  <2>2. ASSUME NEW c \in Token, c \in new.kids PROVE c \in Opened /\ HandedOn(c)
    <3>1. Through(t) /\ c \in part[t].kids
      BY <2>2, ZenonT(60) DEF MovesTo
    <3>2. t \in Opened
      BY <3>1 DEF Through
    <3>3. c \in Opened
      BY <1>0, <3>1, <3>2, ZenonT(60) DEF PartsOK
    <3> QED BY <3>1, <3>2, <3>3, ZenonT(60) DEF HandedOn
  <2>3. ASSUME NEW c \in Token, Begun(c)', c \notin new.kids PROVE Begun(c)
    <3>1. CASE worker'[c].pc # "none"
      BY <1>3, <3>1, ZenonT(60) DEF Begun
    <3>2. CASE \E i \in DOMAIN pending' : pending'[i].token = c
      <4>1. PICK i \in DOMAIN pending' : pending'[i].token = c
        BY <3>2
      <4>2. CASE i \in DOMAIN pending /\ pending'[i] = pending[i]
        BY <4>1, <4>2, ZenonT(60) DEF Begun
      <4>3. CASE \E k \in worker[t].kids : pending'[i] = [token |-> k, resume |-> part[k].start]
        <5>1. c \in worker[t].kids
          BY <4>1, <4>3
        <5> QED BY <5>1, ZenonT(60) DEF Begun
      <4> QED BY <1>6, <4>2, <4>3, ZenonT(60)
    <3>3. CASE reader'.pc \in {"run", "waiting"} /\ reader'.found[c] > 0
      BY <1>1, <3>3, ZenonT(60) DEF Begun
    <3>4. CASE \E u \in Token : c \in worker'[u].kids
      BY <1>3, <2>3, <3>4, ZenonT(60) DEF Begun
    <3>5. CASE \E r \in sent' : r.token = c
      BY <1>2, <3>5, ZenonT(60) DEF Begun
    <3> QED BY <2>3, <3>1, <3>2, <3>3, <3>4, <3>5, ZenonT(60) DEF Begun
  <2>4. \A c \in Token : Begun(c) => c \in Opened /\ HandedOn(c)
    BY DEF StreamIInv, OriginOK
  <2> QED BY <1>1, <2>1, <2>2, <2>3, <2>4, ZenonT(60) DEF OriginOK
<1>16. InOrder'
  BY <1>1, <1>2, ZenonT(60) DEF StreamIInv, InOrder, RecordsOf
<1>17. ResumeSafe'
  <2>1. ASSUME NEW u \in Token, NEW ts \in Resumes(u)' PROVE Safe(u, ts, sent')
    <3>1. ASSUME ts \in Resumes(u) PROVE Safe(u, ts, sent')
      <4>1. Safe(u, ts, sent)
        BY <1>11, <3>1, ResumesAreSafe DEF StreamIInv
      <4> QED BY <4>1, ZenonT(60) DEF Safe
    <3>2. CASE worker'[u].pc # "none" /\ ts = worker'[u].resume
      BY <1>3, <3>1, <3>2, ZenonT(60) DEF Resumes, MovesTo
    <3>3. CASE ts \in {reader'.found[u], cursor'[u]}
      BY <1>1, <1>7, <3>1, <3>3, ZenonT(60) DEF Resumes
    <3>4. CASE \E i \in DOMAIN pending' : pending'[i].token = u /\ ts = pending'[i].resume
      <4>1. PICK i \in DOMAIN pending' : pending'[i].token = u /\ ts = pending'[i].resume
        BY <3>4
      <4>2. CASE i \in DOMAIN pending /\ pending'[i] = pending[i]
        BY <3>1, <4>1, <4>2, ZenonT(60) DEF Resumes
      <4>3. CASE \E c \in worker[t].kids : pending'[i] = [token |-> c, resume |-> part[c].start]
        <5>1. u \in worker[t].kids /\ ts = part[u].start
          BY <4>1, <4>3
        <5> QED BY <1>5, <5>1, ZenonT(60) DEF Safe
      <4> QED BY <1>6, <4>2, <4>3
    <3> QED BY <3>2, <3>3, <3>4, <2>1, ZenonT(60) DEF Resumes
  <2> QED BY <1>1, <2>1, ZenonT(60) DEF ResumeSafe, Safe
<1> QED BY <1>1, <1>8, <1>9, <1>10, <1>12, <1>14, <1>15, <1>16, <1>17 DEF StreamIInv

(* A worker reads from a place it can read from and has missed nothing there. *)
LEMMA WorkerPlace ==
    ASSUME StreamIInv, NEW t \in Token, worker[t].pc # "none"
    PROVE  /\ Position(t, worker[t].resume) /\ Safe(t, worker[t].resume, sent)
           /\ worker[t] \in WorkerState /\ t \in Opened
           /\ \A r \in worker[t].seen : r \in RecordsOf(t) /\ (r.row => r \in sent)
           /\ faults \in 0..MaxFaults
<1>1. Position(t, worker[t].resume)
  BY DEF StreamIInv, PositionsOK
<1>2. reader.pc # "load"
  BY DEF StreamIInv, StartOK, NoWorker
<1>3. worker[t].resume \in Resumes(t)
  BY ZenonT(60) DEF Resumes
<1>4. Safe(t, worker[t].resume, sent)
  BY <1>2, <1>3, ResumesAreSafe DEF StreamIInv
<1>5. worker[t] \in WorkerState /\ faults \in 0..MaxFaults
  BY Types DEF StreamIInv, StreamTypeOK
<1> QED BY <1>1, <1>4, <1>5 DEF StreamIInv, SeenOK, Position

(* WorkerMoves for a step that dispatches nothing. *)
LEMMA WorkerMovesOn ==
    ASSUME StreamIInv, NEW t \in Token, NEW new,
           worker[t].pc # "none", worker' = [worker EXCEPT ![t] = new],
           UNCHANGED <<spanner, reader, cancelled, sent>>, faults' \in 0..MaxFaults,
           MovesTo(t, new, sent), Flushes(t, sent), HandsOn(t)
    PROVE  StreamIInv'
<1> DEFINE rows == {}
<1>1. /\ rows \in SUBSET RecordsOf(t) /\ sent' = sent \cup rows /\ sent' = sent
      /\ \A r \in rows : /\ r.row
                         /\ \A q \in RecordsOf(t) :
                               q.row /\ reader.boot < q.rev /\ q.rev < r.rev => q \in sent'
  OBVIOUS
<1> HIDE DEF rows
<1>2. MovesTo(t, new, sent') /\ Flushes(t, sent')
  BY <1>1, ZenonT(60)
<1>3. UNCHANGED <<spanner, reader, cancelled>>
  OBVIOUS
<1> QED BY <1>1, <1>2, <1>3, WorkerMoves, ZenonT(60)

\* A worker makes its query.
LEMMA QueryPreserves ==
    ASSUME StreamIInv, NEW t \in Token, Query(t)
    PROVE  StreamIInv'
<1> DEFINE new == [worker[t] EXCEPT !.pc = "stream", !.seen = {}]
<1>1. /\ worker[t].pc = "query" /\ worker' = [worker EXCEPT ![t] = new]
      /\ UNCHANGED <<spanner, reader, cancelled, sent>> /\ UNCHANGED <<cursor, pending, faults>>
  BY DEF Query, WorkerIs, Work
<1>2. worker[t].kids = {}
  BY <1>1 DEF StreamIInv, KidsOK
<1>3. /\ new \in WorkerState /\ new.pc = "stream" /\ new.resume = worker[t].resume
      /\ new.seen = {} /\ new.kids = worker[t].kids
  <2>1. worker[t] \in WorkerState
    BY <1>1, WorkerPlace
  <2>2. new \in WorkerState
    BY <2>1, ZenonT(60) DEF WorkerState
  <2> QED BY <2>1, <2>2 DEF WorkerState
<1> HIDE DEF new
<1>4. worker[t].pc # "none" /\ MovesTo(t, new, sent)
  BY <1>1, <1>2, <1>3, WorkerPlace DEF MovesTo
<1>5. Flushes(t, sent)
  BY <1>1 DEF Flushes
<1>6. HandsOn(t) /\ faults' \in 0..MaxFaults
  BY <1>1, WorkerPlace DEF HandsOn
<1> QED BY <1>1, <1>2, <1>4, <1>5, <1>6, WorkerMovesOn, ZenonT(60)

\* A query breaks; it is made again from the last timestamp seen.
LEMMA QueryBreaksPreserves ==
    ASSUME StreamIInv, NEW t \in Token, QueryBreaks(t)
    PROVE  StreamIInv'
<1> DEFINE new == [worker[t] EXCEPT !.pc = "query", !.seen = {}]
<1>1. /\ worker[t].pc = "stream" /\ worker' = [worker EXCEPT ![t] = new]
      /\ UNCHANGED <<spanner, reader, cancelled, sent>> /\ UNCHANGED <<cursor, pending>>
      /\ faults < MaxFaults /\ faults' = faults + 1
  BY DEF QueryBreaks, WorkerIs, Work
<1>2. worker[t].kids = {}
  BY <1>1 DEF StreamIInv, KidsOK
<1>3. /\ new \in WorkerState /\ new.pc = "query" /\ new.resume = worker[t].resume
      /\ new.seen = {} /\ new.kids = worker[t].kids
  <2>1. worker[t] \in WorkerState
    BY <1>1, WorkerPlace
  <2>2. new \in WorkerState
    BY <2>1, ZenonT(60) DEF WorkerState
  <2> QED BY <2>1, <2>2 DEF WorkerState
<1> HIDE DEF new
<1>4. faults' \in 0..MaxFaults
  BY <1>1, WorkerPlace, Constants
<1>5. worker[t].pc # "none" /\ MovesTo(t, new, sent)
  BY <1>1, <1>2, <1>3, WorkerPlace DEF MovesTo
<1>6. Flushes(t, sent)
  BY <1>1 DEF Flushes
<1>7. HandsOn(t) /\ faults' \in 0..MaxFaults
  BY <1>1, <1>4, ZenonT(60) DEF HandsOn
<1> QED BY <1>1, <1>2, <1>5, <1>6, <1>7, WorkerMovesOn, ZenonT(60)

\* A worker sees the shutdown.
LEMMA WorkerStopsPreserves ==
    ASSUME StreamIInv, NEW t \in Token, WorkerStops(t)
    PROVE  StreamIInv'
<1>1. /\ worker[t].pc # "none" /\ worker' = [worker EXCEPT ![t] = NoWorker]
      /\ UNCHANGED <<spanner, reader, cancelled, sent>> /\ UNCHANGED <<cursor, pending, faults>>
  BY DEF WorkerStops, Work
<1>2. NoWorker \in WorkerState /\ NoWorker.pc = "none" /\ NoWorker.seen = {} /\ NoWorker.kids = {}
  BY NoWorkerType DEF NoWorker
<1>3. worker[t].pc # "none" /\ MovesTo(t, NoWorker, sent)
  BY <1>1, <1>2 DEF MovesTo
<1>4. Flushes(t, sent)
  BY <1>1 DEF Flushes
<1>5. HandsOn(t) /\ faults' \in 0..MaxFaults
  BY <1>1, WorkerPlace DEF HandsOn
<1> QED BY <1>1, <1>2, <1>3, <1>4, <1>5, WorkerMovesOn, ZenonT(60)

\* A worker has read its partition to the end.
LEMMA WorkerDonePreserves ==
    ASSUME StreamIInv, NEW t \in Token, WorkerDone(t)
    PROVE  StreamIInv'
<1>1. /\ worker[t].pc = "children" /\ worker' = [worker EXCEPT ![t] = NoWorker]
      /\ UNCHANGED <<spanner, reader, cancelled, sent>> /\ UNCHANGED <<pending, faults>>
      /\ cursor' \in {cursor, [cursor EXCEPT ![t] = worker[t].resume]}
  BY DEF WorkerDone, WorkerIs, Work, MayFlush
<1>2. NoWorker \in WorkerState /\ NoWorker.pc = "none" /\ NoWorker.seen = {} /\ NoWorker.kids = {}
  BY NoWorkerType DEF NoWorker
<1>3. worker[t].resume \in Time
  BY <1>1, WorkerPlace DEF WorkerState
<1>4. worker[t].pc # "none" /\ MovesTo(t, NoWorker, sent)
  BY <1>1, <1>2 DEF MovesTo
<1>5. Flushes(t, sent)
  BY <1>1, <1>3, WorkerPlace DEF Flushes
<1>6. HandsOn(t) /\ faults' \in 0..MaxFaults
  BY <1>1, WorkerPlace DEF HandsOn
<1> QED BY <1>1, <1>2, <1>4, <1>5, <1>6, WorkerMovesOn, ZenonT(60)

(* When a query of an ended partition has nothing more to return, every row  *)
(* of the partition is dispatched.                                           *)
LEMMA NothingUnread ==
    ASSUME StreamIInv, NEW t \in Token, worker[t].pc # "none", Unread(t) = {}
    PROVE  \A r \in records : r.token = t /\ r.row /\ reader.boot < r.rev => r \in sent
<1>1. \A r \in records : r.rev \in Nat
  BY Types DEF StreamIInv
<1>2. worker[t].resume \in Nat
  BY Types DEF StreamIInv
<1>3. ASSUME NEW r \in records, r.token = t, r.row, reader.boot < r.rev PROVE r \in sent
  <2>1. CASE r.rev < worker[t].resume
    BY <1>3, <2>1, WorkerPlace, ZenonT(60) DEF Safe
  <2>2. CASE r.rev >= worker[t].resume
    <3>1. r \in worker[t].seen
      BY <1>3, <2>2, ZenonT(60) DEF Unread, RecordsOf
    <3> QED BY <1>3, <3>1, WorkerPlace, ZenonT(60)
  <2> QED BY <1>1, <1>2, <2>1, <2>2
<1> QED BY <1>3

\* A worker reads a child partitions record.
LEMMA ChildPartitionsPreserves ==
    ASSUME StreamIInv, NEW t \in Token, ChildPartitions(t)
    PROVE  StreamIInv'
<1> DEFINE new == [worker[t] EXCEPT !.pc = "children", !.kids = part[t].kids]
<1>1. /\ worker[t].pc = "stream" /\ worker' = [worker EXCEPT ![t] = new]
      /\ UNCHANGED <<spanner, reader, cancelled, sent>> /\ UNCHANGED <<cursor, pending, faults>>
      /\ Unread(t) = {} /\ part[t].end > 0
  BY DEF ChildPartitions, WorkerIs, Work
<1>2. Through(t)
  BY <1>1, NothingUnread, WorkerPlace, ZenonT(60) DEF Through
<1>3. part[t].kids \in SUBSET Token
  <2>1. part[t] \in Partition
    BY <1>1, WorkerPlace, Types DEF StreamIInv
  <2> QED BY <2>1 DEF Partition
<1>4. /\ new \in WorkerState /\ new.pc = "children" /\ new.resume = worker[t].resume
      /\ new.seen = worker[t].seen /\ new.kids = part[t].kids
  <2>1. worker[t] \in WorkerState
    BY <1>1, WorkerPlace
  <2>2. new \in WorkerState
    BY <1>3, <2>1, ZenonT(60) DEF WorkerState
  <2> QED BY <2>1, <2>2 DEF WorkerState
<1> HIDE DEF new
<1>5. worker[t].pc # "none" /\ MovesTo(t, new, sent)
  BY <1>1, <1>2, <1>4, WorkerPlace DEF MovesTo
<1>6. Flushes(t, sent)
  BY <1>1 DEF Flushes
<1>7. HandsOn(t) /\ faults' \in 0..MaxFaults
  BY <1>1, WorkerPlace DEF HandsOn
<1> QED BY <1>1, <1>2, <1>5, <1>6, <1>7, WorkerMovesOn, ZenonT(60)

\* A worker hands a child on.
LEMMA EnqueueChildPreserves ==
    ASSUME StreamIInv, NEW t \in Token, EnqueueChild(t)
    PROVE  StreamIInv'
<1>1. PICK c \in worker[t].kids :
        /\ pending' = Append(pending, [token |-> c, resume |-> part[c].start])
        /\ worker' = [worker EXCEPT ![t] = [worker[t] EXCEPT !.kids = @ \ {c}]]
  BY ZenonT(60) DEF EnqueueChild, Work
<1> DEFINE new == [worker[t] EXCEPT !.kids = @ \ {c}]
<1>2. /\ worker[t].pc = "children" /\ Len(pending) < PendingCap
      /\ worker' = [worker EXCEPT ![t] = new]
      /\ UNCHANGED <<spanner, reader, cancelled, sent>> /\ UNCHANGED <<cursor, faults>>
  BY <1>1 DEF EnqueueChild, WorkerIs
<1>3. Through(t) /\ worker[t].kids \subseteq part[t].kids
  BY <1>2 DEF StreamIInv, KidsOK
<1>4. /\ new \in WorkerState /\ new.pc = "children" /\ new.resume = worker[t].resume
      /\ new.seen = worker[t].seen /\ new.kids = worker[t].kids \ {c}
  <2>1. worker[t] \in WorkerState /\ worker[t].pc = "children"
    BY <1>2, WorkerPlace
  <2>2. new \in WorkerState
    BY <2>1, ZenonT(60) DEF WorkerState
  <2> QED BY <2>1, <2>2 DEF WorkerState
<1> HIDE DEF new
<1>5. new.kids \subseteq part[t].kids
  BY <1>3, <1>4
<1>6. worker[t].pc # "none" /\ MovesTo(t, new, sent)
  BY <1>2, <1>3, <1>4, <1>5, WorkerPlace DEF MovesTo
<1>7. Flushes(t, sent)
  BY <1>2, ZenonT(60) DEF Flushes
<1>8. HandsOn(t) /\ faults' \in 0..MaxFaults
  BY <1>1, <1>2, WorkerPlace DEF HandsOn
<1> QED BY <1>1, <1>2, <1>6, <1>7, <1>8, WorkerMovesOn, ZenonT(60)

\* A worker reads a heartbeat.
LEMMA HeartbeatPreserves ==
    ASSUME StreamIInv, NEW t \in Token, Heartbeat(t)
    PROVE  StreamIInv'
<1> DEFINE seen == {r \in RecordsOf(t) : r.rev = clock}
<1> DEFINE new == [worker[t] EXCEPT !.resume = clock, !.seen = seen]
<1>1. /\ worker[t].pc = "stream" /\ worker' = [worker EXCEPT ![t] = new]
      /\ UNCHANGED <<spanner, reader, cancelled, sent>> /\ UNCHANGED <<pending, faults>>
      /\ Unread(t) = {} /\ part[t].end = 0 /\ worker[t].resume < clock
      /\ cursor' \in {cursor, [cursor EXCEPT ![t] = clock]}
  BY DEF Heartbeat, WorkerIs, Work, MayFlush
<1>2. worker[t].kids = {}
  BY <1>1 DEF StreamIInv, KidsOK
<1>3. Safe(t, clock, sent)
  BY <1>1, NothingUnread, ZenonT(60) DEF Safe
<1>4. clock \in Nat /\ worker[t].resume \in Nat /\ part[t].start \in Nat /\ clock \in Time
  BY <1>1, WorkerPlace, Types DEF StreamIInv, StreamTypeOK
<1>5. Position(t, clock)
  BY <1>1, <1>4, WorkerPlace DEF Position
<1>6. \A r \in records : r \in Record
  BY Types DEF StreamIInv
<1>7. /\ new \in WorkerState /\ new.pc = "stream" /\ new.resume = clock
      /\ new.seen = seen /\ new.kids = worker[t].kids
  <2>1. worker[t] \in WorkerState /\ worker[t].pc = "stream"
    BY <1>1, WorkerPlace
  <2>2. seen \in SUBSET Record
    BY <1>6 DEF RecordsOf
  <2> HIDE DEF seen
  <2>3. new \in WorkerState
    BY <1>4, <2>1, <2>2, ZenonT(60) DEF WorkerState
  <2> QED BY <2>1, <2>3 DEF WorkerState
<1> HIDE DEF new
<1>8. \A r \in new.seen : r \in RecordsOf(t) /\ (r.row => r \in sent)
  <2> SUFFICES ASSUME NEW r \in new.seen PROVE r \in RecordsOf(t) /\ (r.row => r \in sent)
    OBVIOUS
  <2>1. r \in RecordsOf(t) /\ r.rev = clock
    BY <1>7, ZenonT(60)
  <2>2. r.rev >= worker[t].resume
    BY <1>1, <1>4, <2>1
  <2>3. r \in worker[t].seen
    BY <1>1, <2>1, <2>2, ZenonT(60) DEF Unread
  <2> QED BY <1>1, <2>3, WorkerPlace, ZenonT(60)
<1>9. worker[t].pc # "none" /\ MovesTo(t, new, sent)
  BY <1>1, <1>2, <1>3, <1>5, <1>7, <1>8 DEF MovesTo
<1>10. Flushes(t, sent)
  BY <1>1, <1>3, <1>4, <1>5 DEF Flushes
<1>11. HandsOn(t) /\ faults' \in 0..MaxFaults
  BY <1>1, WorkerPlace DEF HandsOn
<1> QED BY <1>1, <1>2, <1>9, <1>10, <1>11, WorkerMovesOn, ZenonT(60)

\* A worker reads and dispatches a data change record.
LEMMA DataRecordPreserves ==
    ASSUME StreamIInv, NEW t \in Token, DataRecord(t)
    PROVE  StreamIInv'
<1>1. PICK r \in Unread(t) :
        /\ \A other \in Unread(t) : r.rev <= other.rev
        /\ sent' = sent \cup Events(r)
        /\ worker' = [worker EXCEPT ![t] = [worker[t] EXCEPT !.resume = r.rev,
                         !.seen = {s \in worker[t].seen : s.rev = r.rev} \cup {r}]]
        /\ cursor' \in {cursor, [cursor EXCEPT ![t] = r.rev]}
  BY ZenonT(60) DEF DataRecord, Work, MayFlush
<1>2. /\ worker[t].pc = "stream" /\ worker[t].pc # "none" /\ pending' = pending /\ faults' = faults
      /\ UNCHANGED <<spanner, reader, cancelled>>
  BY DEF DataRecord, WorkerIs
<1> DEFINE seen == {s \in worker[t].seen : s.rev = r.rev} \cup {r}
<1> DEFINE new == [worker[t] EXCEPT !.resume = r.rev, !.seen = seen]
<1> DEFINE rows == Events(r)
<1>3. worker' = [worker EXCEPT ![t] = new] /\ sent' = sent \cup rows
  BY <1>1, ZenonT(60)
<1>4. r \in records /\ r.token = t /\ r \in RecordsOf(t) /\ r.rev >= worker[t].resume
  BY DEF Unread, RecordsOf
<1>5. /\ worker[t].resume \in Nat /\ \A q \in records : q \in Record /\ q.rev \in Nat
      /\ r.rev \in Time
  <2>1. worker[t].resume \in Nat /\ \A q \in records : q \in Record /\ q.rev \in Nat
    BY Types DEF StreamIInv
  <2> QED BY <1>4, <2>1 DEF Record
<1>6. rows \in SUBSET RecordsOf(t) /\ (r.row => r \in rows) /\ \A q \in rows : q = r /\ r.row
  BY <1>4 DEF Events
<1> HIDE DEF rows
<1>7. Safe(t, r.rev, sent)
  <2>1. ASSUME NEW q \in records, q.token = t, q.row, reader.boot < q.rev, q.rev < r.rev
        PROVE  q \in sent
    <3>1. CASE q.rev < worker[t].resume
      BY <1>2, <2>1, <3>1, WorkerPlace, ZenonT(60) DEF Safe
    <3>2. CASE q.rev >= worker[t].resume
      <4>1. ~ (r.rev <= q.rev)
        BY <1>4, <1>5, <2>1
      <4>2. q \notin Unread(t)
        BY <1>1, <4>1, ZenonT(60)
      <4>3. q \in worker[t].seen
        BY <2>1, <3>2, <4>2, ZenonT(60) DEF Unread, RecordsOf
      <4> QED BY <1>2, <2>1, <4>3, WorkerPlace, ZenonT(60)
    <3> QED BY <1>5, <3>1, <3>2
  <2> QED BY <2>1, ZenonT(60) DEF Safe
<1>8. Safe(t, r.rev, sent')
  BY <1>3, <1>7, ZenonT(60) DEF Safe
<1>9. \A s \in rows : /\ s.row
                      /\ \A q \in RecordsOf(t) :
                            q.row /\ reader.boot < q.rev /\ q.rev < s.rev => q \in sent'
  BY <1>6, <1>8, ZenonT(60) DEF Safe, RecordsOf
<1>10. Position(t, r.rev)
  <2>1. Position(t, worker[t].resume) /\ part[t].start \in Nat /\ part[t].end \in Nat
    <3>1. t \in Opened /\ Position(t, worker[t].resume)
      BY <1>2, WorkerPlace, ZenonT(60)
    <3>2. part[t].start \in Nat /\ part[t].end \in Nat
      BY <3>1, Types, ZenonT(60) DEF StreamIInv
    <3> QED BY <3>1, <3>2
  <2>2. t \in Opened /\ r.rev <= clock /\ (part[t].end = 0 \/ r.rev < part[t].end)
    BY <1>4 DEF StreamIInv, RecordsOK
  <2> QED BY <1>4, <1>5, <2>1, <2>2 DEF Position
<1>11. seen \in SUBSET Record /\ \A s \in seen : s \in RecordsOf(t) /\ (s.row => s \in sent')
  <2>1. \A s \in worker[t].seen : s \in RecordsOf(t) /\ (s.row => s \in sent)
    BY <1>2, WorkerPlace
  <2>2. \A s \in seen : s \in RecordsOf(t) /\ (s.row => s \in sent')
    BY <1>3, <1>4, <1>6, <2>1, ZenonT(60)
  <2> QED BY <1>5, <2>2, ZenonT(60) DEF RecordsOf
<1> HIDE DEF seen
<1>12. new \in WorkerState /\ new.pc = "stream" /\ new.resume = r.rev /\ new.seen = seen /\ new.kids = {}
  <2>1. worker[t] \in WorkerState /\ worker[t].pc = "stream" /\ worker[t].kids = {}
    BY <1>2, WorkerPlace DEF StreamIInv, KidsOK
  <2>2. new \in WorkerState
    BY <1>5, <1>11, <2>1, ZenonT(60) DEF WorkerState
  <2> QED BY <2>1, <2>2 DEF WorkerState
<1> HIDE DEF new
<1>13. MovesTo(t, new, sent')
  BY <1>8, <1>10, <1>11, <1>12 DEF MovesTo
<1>14. Flushes(t, sent') /\ HandsOn(t) /\ faults' \in 0..MaxFaults
  <2>1. Flushes(t, sent')
    BY <1>1, <1>5, <1>8, <1>10 DEF Flushes
  <2>2. faults' \in 0..MaxFaults
    BY <1>2, WorkerPlace
  <2> QED BY <1>2, <2>1, <2>2 DEF HandsOn
<1> QED BY <1>2, <1>3, <1>6, <1>9, <1>13, <1>14, WorkerMoves, ZenonT(60)

(* One of what the main loop has to read, u, and from where: it was found at *)
(* the start, or it is a partition that was there then.                      *)
MayFind(u, ts) ==
    \/ /\ ts = reader.found[u]
       /\ reader'.pc \in {"run", "waiting"} => reader.pc \in {"run", "waiting"}
    \/ Position(u, ts) /\ Safe(u, ts, sent) /\ part[u].start <= reader.boot

(* The channel stays or gets a partition found at the start. *)
MayEnqueue ==
    \/ pending' = pending
    \/ /\ Len(pending) < PendingCap /\ reader.pc \in {"run", "waiting"} /\ reader'.pc = reader.pc
       /\ \E u \in Token : reader.found[u] > 0
             /\ pending' = Append(pending, [token |-> u, resume |-> reader.found[u]])

(* A step of Start after the cursors are loaded; it may enqueue a partition. *)
LEMMA ReaderMoves ==
    ASSUME StreamIInv, reader.pc # "load", reader' \in ReaderState, reader'.pc # "load",
           reader'.boot = reader.boot, reader'.start = reader.start,
           UNCHANGED <<spanner, cursor, worker, sent, faults>>, cancelled' \in BOOLEAN,
           reader'.pc \in {"initial", "failed"} => reader.pc \in {"initial", "failed"},
           \A u \in Token : reader'.found[u] > 0 => MayFind(u, reader'.found[u]), MayEnqueue
    PROVE  StreamIInv'
<1>0. StreamTypeOK
  BY DEF StreamIInv
<1>1. /\ PartsOK' /\ RecordsOK' /\ SpannerTypeOK' /\ clock' = clock /\ records' = records
      /\ part' = part /\ Opened' = Opened /\ Opened \subseteq Token
      /\ \A u, ts : Position(u, ts)' <=> Position(u, ts)
      /\ cursor' = cursor /\ worker' = worker /\ sent' = sent /\ faults' = faults
  BY <1>0, SpannerStays, Types, ZenonT(60)
<1>2. \A u \in Token : reader.found[u] \in Time /\ reader'.found[u] \in Time
  BY <1>0 DEF StreamTypeOK, ReaderState
<1>3. /\ pending \in Seq(PartitionState) /\ pending' \in Seq(PartitionState)
      /\ Len(pending') <= PendingCap
      /\ \A i \in DOMAIN pending' :
            \/ i \in DOMAIN pending /\ pending'[i] = pending[i]
            \/ reader.pc \in {"run", "waiting"} /\ \E u \in Token : /\ reader.found[u] > 0
                  /\ pending'[i] = [token |-> u, resume |-> reader.found[u]]
  <2>0. pending \in Seq(PartitionState) /\ Len(pending) <= PendingCap
    BY <1>0, ZenonT(60) DEF StreamTypeOK
  <2>1. CASE pending' = pending
    BY <2>0, <2>1
  <2>2. CASE Len(pending) < PendingCap /\ reader.pc \in {"run", "waiting"} /\ \E u \in Token :
               /\ reader.found[u] > 0
               /\ pending' = Append(pending, [token |-> u, resume |-> reader.found[u]])
    <3>1. PICK u \in Token : /\ reader.found[u] > 0
            /\ pending' = Append(pending, [token |-> u, resume |-> reader.found[u]])
      BY <2>2, ZenonT(60)
    <3> DEFINE p == [token |-> u, resume |-> reader.found[u]]
    <3>2. p \in PartitionState
      BY <1>2 DEF PartitionState
    <3> HIDE DEF p
    <3>3. /\ pending' \in Seq(PartitionState) /\ Len(pending') = Len(pending) + 1
          /\ \A i \in DOMAIN pending' : (i \in DOMAIN pending /\ pending'[i] = pending[i]) \/ pending'[i] = p
      BY <2>0, <3>1, <3>2 DEF p
    <3>4. Len(pending') <= PendingCap
      BY <2>0, <2>2, <3>3, Constants
    <3> QED BY <2>0, <2>2, <3>1, <3>3, <3>4, ZenonT(60) DEF p
  <2> QED BY <2>1, <2>2, ZenonT(60) DEF MayEnqueue
<1>4. StreamTypeOK'
  BY <1>0, <1>1, <1>3, ZenonT(60) DEF StreamTypeOK, SpannerTypeOK
<1>5. PositionsOK'
  <2>0. PositionsOK
    BY DEF StreamIInv
  <2>1. ASSUME NEW i \in DOMAIN pending' PROVE Position(pending'[i].token, pending'[i].resume)
    <3>1. CASE i \in DOMAIN pending /\ pending'[i] = pending[i]
      BY <2>0, <3>1, ZenonT(60) DEF PositionsOK
    <3>2. CASE \E u \in Token : /\ reader.found[u] > 0
                                /\ pending'[i] = [token |-> u, resume |-> reader.found[u]]
      <4>1. PICK u \in Token : /\ reader.found[u] > 0
                               /\ pending'[i] = [token |-> u, resume |-> reader.found[u]]
        BY <3>2
      <4>2. pending'[i].token = u /\ pending'[i].resume = reader.found[u]
        BY <4>1
      <4> QED BY <2>0, <4>1, <4>2, ZenonT(60) DEF PositionsOK
    <3> QED BY <1>3, <3>1, <3>2
  <2>2. \A u \in Token : reader'.found[u] > 0 => Position(u, reader'.found[u])
    BY <2>0, ZenonT(60) DEF PositionsOK, MayFind
  <2> QED BY <1>1, <2>0, <2>1, <2>2, ZenonT(60) DEF PositionsOK
<1>6. SeenOK'
  BY <1>1, ZenonT(60) DEF StreamIInv, SeenOK, RecordsOf
<1>7. StartOK'
  <2>1. reader'.pc \in {"initial", "failed"} => pending' = pending /\ reader.pc \in {"initial", "failed"}
    BY ZenonT(60) DEF MayEnqueue
  <2> QED BY <1>1, <2>1 DEF StreamIInv, StartOK
<1>8. \A p \in Token : Through(p)' <=> Through(p)
  BY <1>1, ZenonT(60) DEF Through
<1>9. KidsOK'
  BY <1>1, <1>8, ZenonT(60) DEF StreamIInv, KidsOK
<1>10. OriginOK'
  <2>0. OriginOK
    BY DEF StreamIInv
  <2>1. \A c \in Opened : HandedOn(c)' <=> HandedOn(c)
    BY <1>1, <1>8, ZenonT(60) DEF HandedOn
  <2>2. ASSUME NEW c \in Token, Begun(c)' PROVE Begun(c) \/ (c \in Opened /\ part[c].start <= reader.boot)
    <3>1. CASE worker'[c].pc # "none" \/ (\E u \in Token : c \in worker'[u].kids) \/ \E r \in sent' : r.token = c
      BY <1>1, <3>1, ZenonT(60) DEF Begun
    <3>2. CASE \E i \in DOMAIN pending' : pending'[i].token = c
      <4>1. PICK i \in DOMAIN pending' : pending'[i].token = c
        BY <3>2
      <4>2. CASE i \in DOMAIN pending /\ pending'[i] = pending[i]
        BY <4>1, <4>2, ZenonT(60) DEF Begun
      <4>3. CASE reader.pc \in {"run", "waiting"} /\ \E u \in Token :
                   reader.found[u] > 0 /\ pending'[i] = [token |-> u, resume |-> reader.found[u]]
        <5>1. reader.found[c] > 0
          BY <4>1, <4>3
        <5> QED BY <4>3, <5>1, ZenonT(60) DEF Begun
      <4> QED BY <1>3, <4>2, <4>3, ZenonT(60)
    <3>3. CASE reader'.pc \in {"run", "waiting"} /\ reader'.found[c] > 0
      BY <3>3, ZenonT(60) DEF MayFind, Begun, Position
    <3> QED BY <2>2, <3>1, <3>2, <3>3, ZenonT(60) DEF Begun
  <2>3. ASSUME NEW c \in Token, Begun(c)' PROVE c \in Opened /\ HandedOn(c)
    BY <2>0, <2>2, <2>3, ZenonT(60) DEF OriginOK, HandedOn
  <2> QED BY <1>1, <2>1, <2>3, ZenonT(60) DEF OriginOK
<1>11. InOrder'
  BY <1>1, ZenonT(60) DEF StreamIInv, InOrder
<1>12. ResumeSafe'
  <2>0. ASSUME NEW u \in Token, NEW ts \in Resumes(u) PROVE Safe(u, ts, sent)
    BY <2>0, ResumesAreSafe, ZenonT(60) DEF StreamIInv
  <2>1. ASSUME NEW u \in Token, NEW ts \in Resumes(u)' PROVE Safe(u, ts, sent)
    <3>1. CASE (worker'[u].pc # "none" /\ ts = worker'[u].resume) \/ ts = cursor'[u]
      BY <1>1, <2>0, <3>1, ZenonT(60) DEF Resumes
    <3>2. CASE ts = reader'.found[u]
      <4>1. CASE reader'.found[u] > 0
        BY <2>0, <3>2, <4>1, ZenonT(60) DEF MayFind, Resumes
      <4>2. CASE ~ (reader'.found[u] > 0)
        <5>1. ts = 0 /\ \A r \in records : r.rev \in Nat
          BY <1>0, <1>2, <3>2, <4>2, Types, Constants DEF Time
        <5> QED BY <5>1 DEF Safe
      <4> QED BY <4>1, <4>2, ZenonT(60)
    <3>3. CASE \E i \in DOMAIN pending' : pending'[i].token = u /\ ts = pending'[i].resume
      <4>1. PICK i \in DOMAIN pending' : pending'[i].token = u /\ ts = pending'[i].resume
        BY <3>3
      <4>2. CASE i \in DOMAIN pending /\ pending'[i] = pending[i]
        BY <2>0, <4>1, <4>2, ZenonT(60) DEF Resumes
      <4>3. CASE \E c \in Token : pending'[i] = [token |-> c, resume |-> reader.found[c]]
        <5>1. ts = reader.found[u]
          BY <4>1, <4>3
        <5> QED BY <2>0, <5>1, ZenonT(60) DEF Resumes
      <4> QED BY <1>3, <4>2, <4>3, ZenonT(60)
    <3> QED BY <2>1, <3>1, <3>2, <3>3, ZenonT(60) DEF Resumes
  <2> QED BY <1>1, <2>1, ZenonT(60) DEF ResumeSafe, Safe
<1> QED BY <1>1, <1>4, <1>5, <1>6, <1>7, <1>9, <1>10, <1>11, <1>12, ZenonT(60) DEF StreamIInv

\* The process asks for the partitions to start with.
LEMMA QueryInitialPreserves ==
    ASSUME StreamIInv, queryInitialPartitions
    PROVE  StreamIInv'
<1> DEFINE found == [t \in Token |-> IF t \notin PartitionsAt(reader.start) THEN 0
                                     ELSE IF reader.found[t] > 0 THEN reader.found[t] ELSE reader.start]
<1>0. StreamTypeOK /\ StartOK
  BY DEF StreamIInv
<1>1. /\ reader.pc = "initial" /\ reader' = [reader EXCEPT !.pc = "run", !.found = found]
      /\ UNCHANGED <<spanner, cursor, worker, sent, faults>> /\ cancelled' = cancelled
      /\ pending' = pending
  BY ZenonT(60) DEF queryInitialPartitions, ReaderStep
<1>2. /\ reader \in ReaderState /\ reader.start \in Time /\ reader.start \in Nat /\ 0 \in Time
      /\ reader.found \in [Token -> Time] /\ clock \in Nat /\ reader.boot \in Nat
  BY <1>0, Types, Constants DEF StreamTypeOK, ReaderState, Time
<1>3. found \in [Token -> Time]
  BY <1>2, ZenonT(60)
<1>4. ASSUME NEW u \in Token, found[u] > 0 PROVE MayFind(u, found[u])
  <2>1. u \in PartitionsAt(reader.start)
    BY <1>2, <1>4
  <2>2. /\ u \in Opened /\ part[u].start <= reader.start /\ part[u].start \in Nat
        /\ part[u].end = 0 \/ reader.start < part[u].end
    BY <1>0, <2>1, Types DEF PartitionsAt
  <2>3. part[u].start <= reader.boot
    BY <1>0, <1>2, <2>2 DEF StartOK
  <2>4. CASE reader.found[u] > 0
    <3>1. found[u] = reader.found[u]
      BY <2>1, <2>4, ZenonT(60)
    <3>2. Position(u, reader.found[u])
      BY <2>4 DEF StreamIInv, PositionsOK
    <3>3. Safe(u, reader.found[u], sent)
      <4>1. reader.found[u] \in Resumes(u)
        BY ZenonT(60) DEF Resumes
      <4> QED BY <1>1, <4>1, ResumesAreSafe DEF StreamIInv
    <3> QED BY <2>3, <3>1, <3>2, <3>3, ZenonT(60) DEF MayFind
  <2>5. CASE ~ (reader.found[u] > 0)
    <3>1. found[u] = reader.start
      BY <2>1, <2>5, ZenonT(60)
    <3>2. Position(u, reader.start)
      BY <1>0, <1>2, <2>2 DEF StartOK, Position
    <3>3. Safe(u, reader.start, sent)
      <4>1. \A r \in records : r.rev \in Nat
        BY <1>0, Types
      <4>2. reader.start <= reader.boot
        BY <1>0 DEF StartOK
      <4>3. \A r \in records : ~ (reader.boot < r.rev /\ r.rev < reader.start)
        BY <1>2, <4>1, <4>2
      <4> QED BY <4>3, ZenonT(60) DEF Safe
    <3> QED BY <2>3, <3>1, <3>2, <3>3, ZenonT(60) DEF MayFind
  <2> QED BY <2>4, <2>5
<1> HIDE DEF found
<1>5. /\ reader'.pc = "run" /\ reader'.boot = reader.boot /\ reader'.start = reader.start
      /\ reader'.found = found
  BY <1>1, <1>2 DEF ReaderState
<1>6. reader' \in ReaderState
  BY <1>1, <1>2, <1>3, ZenonT(60) DEF ReaderState
<1>7. cancelled' \in BOOLEAN
  BY <1>0, <1>1, ZenonT(60) DEF StreamTypeOK
<1>8. \A u \in Token : reader'.found[u] > 0 => MayFind(u, reader'.found[u])
  BY <1>4, <1>5, ZenonT(60)
<1>9. /\ reader.pc # "load" /\ reader'.pc # "load" /\ reader'.pc \notin {"initial", "failed"}
      /\ MayEnqueue
  BY <1>1, <1>5 DEF MayEnqueue
<1> QED BY <1>1, <1>5, <1>6, <1>7, <1>8, <1>9, ReaderMoves, ZenonT(60)

(* Steps of Start that drop what was found, or leave it as it is. *)
LEMMA ReaderDrops ==
    ASSUME StreamIInv, reader' \in ReaderState,
           reader'.boot = reader.boot, reader'.start = reader.start,
           reader'.found = reader.found \/ reader'.found = None,
           \/ reader.pc \in {"run", "waiting"} /\ reader'.pc \in {"run", "waiting", "returned"}
           \/ reader.pc = "initial" /\ reader'.pc = "failed",
           UNCHANGED <<spanner, cursor, worker, sent, faults>>, cancelled' \in BOOLEAN, pending' = pending
    PROVE  StreamIInv'
<1>1. \A u \in Token : reader'.found[u] > 0 => reader'.found[u] = reader.found[u]
  BY NoneType
<1>2. \A u \in Token : reader'.found[u] > 0 => MayFind(u, reader'.found[u])
  BY <1>1 DEF MayFind
<1>3. /\ reader.pc # "load" /\ reader'.pc # "load" /\ MayEnqueue
      /\ reader'.pc \in {"initial", "failed"} => reader.pc \in {"initial", "failed"}
  BY DEF MayEnqueue
<1> QED BY <1>2, <1>3, ReaderMoves, ZenonT(60)

\* The start fails or is given up, the loop stops and returns, or a shutdown
\* begins: no partition is taken up.
LEMMA ReaderDropsPreserves ==
    ASSUME StreamIInv, StartFails \/ DropInitial \/ StopLoop \/ Return \/ Shutdown
    PROVE  StreamIInv'
<1>0. reader \in ReaderState /\ cancelled \in BOOLEAN
  BY ZenonT(60) DEF StreamIInv, StreamTypeOK
<1>1. CASE StartFails
  <2>1. /\ reader.pc = "initial" /\ reader' = [reader EXCEPT !.pc = "failed", !.found = None]
        /\ UNCHANGED <<spanner, cursor, worker, sent, faults>> /\ cancelled' = cancelled
        /\ pending' = pending
    BY <1>1, ZenonT(60) DEF StartFails, ReaderStep
  <2>2. reader' \in ReaderState /\ cancelled' \in BOOLEAN
    BY <1>0, <2>1, NoneType, ZenonT(60) DEF ReaderState
  <2>3. /\ reader'.pc = "failed" /\ reader'.boot = reader.boot /\ reader'.start = reader.start
        /\ reader'.found = None
    BY <1>0, <2>1 DEF ReaderState
  <2> QED BY <2>1, <2>2, <2>3, ReaderDrops
<1>2. CASE DropInitial
  <2>1. /\ reader.pc \in {"run", "waiting"} /\ reader' = [reader EXCEPT !.found = None]
        /\ UNCHANGED <<spanner, cursor, worker, sent, faults>> /\ cancelled' = cancelled
        /\ pending' = pending
    BY <1>2, ZenonT(60) DEF DropInitial, ReaderStep
  <2>2. reader' \in ReaderState /\ cancelled' \in BOOLEAN
    BY <1>0, <2>1, NoneType, ZenonT(60) DEF ReaderState
  <2>3. /\ reader'.pc = reader.pc /\ reader'.boot = reader.boot /\ reader'.start = reader.start
        /\ reader'.found = None
    BY <1>0, <2>1 DEF ReaderState
  <2> QED BY <2>1, <2>2, <2>3, ReaderDrops
<1>3. CASE StopLoop
  <2>1. /\ reader.pc = "run" /\ reader' = [reader EXCEPT !.pc = "waiting"]
        /\ UNCHANGED <<spanner, cursor, worker, sent, faults>> /\ cancelled' = cancelled
        /\ pending' = pending
    BY <1>3, ZenonT(60) DEF StopLoop, ReaderStep
  <2>2. reader' \in ReaderState /\ cancelled' \in BOOLEAN
    BY <1>0, <2>1, ZenonT(60) DEF ReaderState
  <2>3. /\ reader'.pc = "waiting" /\ reader'.boot = reader.boot /\ reader'.start = reader.start
        /\ reader'.found = reader.found
    BY <1>0, <2>1 DEF ReaderState
  <2> QED BY <2>1, <2>2, <2>3, ReaderDrops
<1>4. CASE Return
  <2>1. /\ reader.pc = "waiting" /\ reader' = [reader EXCEPT !.pc = "returned"]
        /\ UNCHANGED <<spanner, cursor, worker, sent, faults>> /\ cancelled' = cancelled
        /\ pending' = pending
    BY <1>4, ZenonT(60) DEF Return, ReaderStep
  <2>2. reader' \in ReaderState /\ cancelled' \in BOOLEAN
    BY <1>0, <2>1, ZenonT(60) DEF ReaderState
  <2>3. /\ reader'.pc = "returned" /\ reader'.boot = reader.boot /\ reader'.start = reader.start
        /\ reader'.found = reader.found
    BY <1>0, <2>1 DEF ReaderState
  <2> QED BY <2>1, <2>2, <2>3, ReaderDrops
<1>5. CASE Shutdown
  <2>1. /\ UNCHANGED <<spanner, cursor, reader, pending, worker, sent, faults>> /\ cancelled' = TRUE
    BY <1>5 DEF Shutdown, ReaderStep
  <2>2. cancelled' \in BOOLEAN
    BY <2>1, ZenonT(60)
  <2>3. /\ clock' = clock /\ part' = part /\ owner' = owner /\ records' = records
        /\ cursor' = cursor /\ reader' = reader /\ pending' = pending /\ worker' = worker
        /\ sent' = sent /\ faults' = faults
    BY <2>1 DEF spanner
  <2>4. StreamTypeOK'
    BY <2>2, <2>3, ZenonT(60) DEF StreamIInv, StreamTypeOK, Opened
  <2>5. PartsOK' /\ RecordsOK' /\ PositionsOK' /\ SeenOK' /\ StartOK'
    BY <2>3, ZenonT(60) DEF StreamIInv, PartsOK, RecordsOK, PositionsOK, Position, SeenOK, StartOK,
                            Opened, RecordsOf
  <2>6. KidsOK' /\ InOrder' /\ ResumeSafe'
    <3>1. \A u \in Token : (Through(u)' <=> Through(u)) /\ Resumes(u)' = Resumes(u)
      BY <2>3, ZenonT(60) DEF Through, Opened, Resumes
    <3>2. KidsOK'
      BY <2>3, <3>1, ZenonT(60) DEF StreamIInv, KidsOK
    <3>3. InOrder'
      BY <2>3, ZenonT(60) DEF StreamIInv, InOrder
    <3>4. ResumeSafe'
      BY <2>3, <3>1, ZenonT(60) DEF StreamIInv, ResumeSafe
    <3> QED BY <3>2, <3>3, <3>4
  <2>7. OriginOK'
    <3>1. \A c \in Token : (Begun(c)' <=> Begun(c)) /\ (HandedOn(c)' <=> HandedOn(c))
      BY <2>3, ZenonT(60) DEF Begun, HandedOn, Through, Opened
    <3> QED BY <2>3, <3>1, ZenonT(60) DEF StreamIInv, OriginOK, Opened
  <2> QED BY <2>4, <2>5, <2>6, <2>7 DEF StreamIInv
<1> QED BY <1>1, <1>2, <1>3, <1>4, <1>5

\* The process enqueues a partition to start with.
LEMMA EnqueueInitialPreserves ==
    ASSUME StreamIInv, EnqueueInitial
    PROVE  StreamIInv'
<1>1. PICK t \in Token :
        /\ reader.found[t] > 0
        /\ pending' = Append(pending, [token |-> t, resume |-> reader.found[t]])
        /\ reader' = [reader EXCEPT !.found[t] = 0]
  BY ZenonT(60) DEF EnqueueInitial
<1>2. /\ reader.pc \in {"run", "waiting"} /\ Len(pending) < PendingCap
      /\ UNCHANGED <<spanner, cursor, worker, sent, faults>> /\ cancelled' = cancelled
  BY ZenonT(60) DEF EnqueueInitial, ReaderStep
<1>3. reader \in ReaderState /\ reader.found \in [Token -> Time] /\ 0 \in Time
  BY Constants DEF StreamIInv, StreamTypeOK, ReaderState, Time
<1> DEFINE found == [reader.found EXCEPT ![t] = 0]
<1>4. found \in [Token -> Time] /\ \A u \in Token : found[u] > 0 => found[u] = reader.found[u]
  BY <1>3
<1>5. reader' = [reader EXCEPT !.found = found]
  BY <1>1, <1>3 DEF ReaderState
<1> HIDE DEF found
<1>6. /\ reader'.pc = reader.pc /\ reader'.boot = reader.boot /\ reader'.start = reader.start
      /\ reader'.found = found
  BY <1>3, <1>5 DEF ReaderState
<1>7. reader' \in ReaderState
  BY <1>3, <1>4, <1>5, ZenonT(60) DEF ReaderState
<1>8. \A u \in Token : reader'.found[u] > 0 => MayFind(u, reader'.found[u])
  BY <1>2, <1>4, <1>6 DEF MayFind
<1>9. cancelled' \in BOOLEAN
  BY <1>2, ZenonT(60) DEF StreamIInv, StreamTypeOK
<1>10. /\ reader.pc # "load" /\ reader'.pc # "load" /\ reader'.pc \notin {"initial", "failed"}
       /\ MayEnqueue
  BY <1>1, <1>2, <1>6 DEF MayEnqueue
<1> QED BY <1>1, <1>2, <1>6, <1>7, <1>8, <1>9, <1>10, ReaderMoves, ZenonT(60)

\* The process starts the worker of a partition.
LEMMA StartWorkerPreserves ==
    ASSUME StreamIInv, StartWorker
    PROVE  StreamIInv'
<1> DEFINE u == Head(pending).token
<1> DEFINE ts == Head(pending).resume
<1> DEFINE nw == [NoWorker EXCEPT !.pc = "query", !.resume = ts]
<1>0. StreamTypeOK /\ PositionsOK
  BY DEF StreamIInv
<1>1. /\ reader.pc = "run" /\ pending # << >> /\ pending' = Tail(pending)
      /\ worker' = IF worker[u].pc # "none" THEN worker ELSE [worker EXCEPT ![u] = nw]
      /\ UNCHANGED <<spanner, cursor, reader, cancelled, sent, faults>>
  BY ZenonT(60) DEF StartWorker, ReaderStep
<1>2. pending \in Seq(PartitionState) /\ Len(pending) <= PendingCap /\ 1 \in DOMAIN pending
      /\ Head(pending) = pending[1]
  BY <1>0, <1>1 DEF StreamTypeOK
<1>3. /\ pending' \in Seq(PartitionState) /\ Len(pending') <= PendingCap
      /\ \A i \in DOMAIN pending' : i + 1 \in DOMAIN pending /\ pending'[i] = pending[i + 1]
  BY <1>1, <1>2, Constants
<1>4. \A i \in DOMAIN pending' : \E j \in DOMAIN pending : pending'[i] = pending[j]
  BY <1>3, ZenonT(60)
<1>5. u \in Token /\ ts \in Time /\ u = pending[1].token /\ ts = pending[1].resume
  <2>1. pending[1] \in PartitionState
    BY <1>2
  <2> QED BY <1>2, <2>1 DEF PartitionState
<1>6. Position(u, ts) /\ Safe(u, ts, sent)
  <2>1. Position(u, ts)
    BY <1>0, <1>2, <1>5, ZenonT(60) DEF PositionsOK
  <2>2. ts \in Resumes(u)
    BY <1>2, <1>5, ZenonT(60) DEF Resumes
  <2>3. Safe(u, ts, sent)
    BY <1>1, <1>5, <2>2, ResumesAreSafe DEF StreamIInv
  <2> QED BY <2>1, <2>3
<1>7. Begun(u)
  BY <1>2, <1>5, ZenonT(60) DEF Begun
<1> HIDE DEF u, ts
<1>8. nw \in WorkerState /\ nw.pc = "query" /\ nw.resume = ts /\ nw.seen = {} /\ nw.kids = {}
  <2>1. nw \in WorkerState
    BY <1>5, NoWorkerType, ZenonT(60) DEF WorkerState
  <2> QED BY <2>1 DEF NoWorker
<1> HIDE DEF nw
<1>9. /\ worker' \in [Token -> WorkerState]
      /\ \A v \in Token : worker'[v] = worker[v] \/ (v = u /\ worker[u].pc = "none" /\ worker'[v] = nw)
  BY <1>0, <1>1, <1>5, <1>8, ZenonT(60) DEF StreamTypeOK
<1>10. /\ PartsOK' /\ RecordsOK' /\ SpannerTypeOK' /\ clock' = clock /\ records' = records
       /\ part' = part /\ Opened' = Opened /\ reader' = reader /\ cursor' = cursor /\ sent' = sent
       /\ faults' = faults /\ cancelled' = cancelled
       /\ \A v, tt : Position(v, tt)' <=> Position(v, tt)
  BY <1>1, SpannerStays, ZenonT(60)
<1>11. StreamTypeOK'
  BY <1>0, <1>3, <1>9, <1>10, ZenonT(60) DEF StreamTypeOK, SpannerTypeOK
<1>12. PositionsOK'
  <2>1. \A v \in Token : worker'[v].pc # "none" => Position(v, worker'[v].resume)
    BY <1>0, <1>6, <1>8, <1>9, ZenonT(60) DEF PositionsOK
  <2>2. \A i \in DOMAIN pending' : Position(pending'[i].token, pending'[i].resume)
    BY <1>0, <1>4, ZenonT(60) DEF PositionsOK
  <2> QED BY <1>0, <1>10, <2>1, <2>2, ZenonT(60) DEF PositionsOK
<1>13. SeenOK'
  BY <1>8, <1>9, <1>10, ZenonT(60) DEF StreamIInv, SeenOK, RecordsOf
<1>14. StartOK'
  BY <1>1, <1>10 DEF StreamIInv, StartOK
<1>15. \A p \in Token : Through(p)' <=> Through(p)
  BY <1>10, ZenonT(60) DEF Through
<1>16. KidsOK'
  <2>1. \A v \in Token : worker'[v] = worker[v] \/ (worker'[v].pc # "children" /\ worker'[v].kids = {})
    BY <1>8, <1>9
  <2> QED BY <1>10, <1>15, <2>1, ZenonT(60) DEF StreamIInv, KidsOK
<1>17. OriginOK'
  <2>1. ASSUME NEW c \in Token, Begun(c)' PROVE Begun(c)
    <3>1. CASE worker'[c].pc # "none"
      BY <1>7, <1>9, <3>1, ZenonT(60) DEF Begun
    <3>2. CASE \E i \in DOMAIN pending' : pending'[i].token = c
      BY <1>4, <3>2, ZenonT(60) DEF Begun
    <3>3. CASE \E v \in Token : c \in worker'[v].kids
      BY <1>8, <1>9, <3>3, ZenonT(60) DEF Begun
    <3>4. CASE (reader'.pc \in {"run", "waiting"} /\ reader'.found[c] > 0) \/ \E r \in sent' : r.token = c
      BY <1>10, <3>4, ZenonT(60) DEF Begun
    <3> QED BY <2>1, <3>1, <3>2, <3>3, <3>4, ZenonT(60) DEF Begun
  <2>2. Opened \subseteq Token
    BY <1>0, Types
  <2>3. \A c \in Opened : HandedOn(c)' <=> HandedOn(c)
    BY <1>10, <1>15, <2>2, ZenonT(60) DEF HandedOn
  <2> QED BY <1>10, <2>1, <2>3, ZenonT(60) DEF StreamIInv, OriginOK
<1>18. InOrder'
  BY <1>10, ZenonT(60) DEF StreamIInv, InOrder
<1>19. ResumeSafe'
  <2>1. ASSUME NEW v \in Token, NEW tt \in Resumes(v)' PROVE tt \in Resumes(v)
    <3>1. CASE worker'[v].pc # "none" /\ tt = worker'[v].resume
      <4>1. CASE worker'[v] = worker[v]
        BY <3>1, <4>1, ZenonT(60) DEF Resumes
      <4>2. CASE v = u /\ worker'[v] = nw
        <5>1. tt = ts
          BY <1>8, <3>1, <4>2
        <5> QED BY <1>2, <1>5, <4>2, <5>1, ZenonT(60) DEF Resumes
      <4> QED BY <1>9, <4>1, <4>2
    <3>2. CASE tt \in {reader'.found[v], cursor'[v]}
      BY <1>10, <3>2, ZenonT(60) DEF Resumes
    <3>3. CASE \E i \in DOMAIN pending' : pending'[i].token = v /\ tt = pending'[i].resume
      <4>1. PICK i \in DOMAIN pending' : pending'[i].token = v /\ tt = pending'[i].resume
        BY <3>3
      <4>2. PICK j \in DOMAIN pending : pending'[i] = pending[j]
        BY <1>4
      <4> QED BY <4>1, <4>2, ZenonT(60) DEF Resumes
    <3> QED BY <2>1, <3>1, <3>2, <3>3, ZenonT(60) DEF Resumes
  <2> QED BY <1>10, <2>1, ZenonT(60) DEF StreamIInv, ResumeSafe
<1> QED BY <1>10, <1>11, <1>12, <1>13, <1>14, <1>16, <1>17, <1>18, <1>19 DEF StreamIInv

(* A process that begins, up to the cursors it loads: nothing is read, and   *)
(* every record there is is from before its start.                           *)
LEMMA BeginsPreserves ==
    ASSUME StreamIInv, UNCHANGED spanner, pending' = << >>, sent' = {},
           worker' \in [Token -> WorkerState], \A t \in Token : worker'[t] = NoWorker,
           cursor' = cursor \/ cursor' = None, reader' \in ReaderState,
           reader'.pc = "load" \/ (reader'.pc = "initial" /\ reader'.boot = clock),
           reader'.found = cursor \/ reader'.found = None,
           reader'.start <= reader'.boot, reader'.boot <= clock,
           cancelled' \in BOOLEAN, faults' \in 0..MaxFaults
    PROVE  StreamIInv'
<1>0. StreamTypeOK
  BY DEF StreamIInv
<1>1. /\ PartsOK' /\ RecordsOK' /\ SpannerTypeOK' /\ clock' = clock /\ records' = records
      /\ Opened' = Opened /\ \A v, ts : Position(v, ts)' <=> Position(v, ts)
  BY SpannerStays, ZenonT(60)
<1>2. /\ NoWorker.pc = "none" /\ NoWorker.seen = {} /\ NoWorker.kids = {}
      /\ \A t \in Token : None[t] = 0
  BY NoneType DEF NoWorker
<1>3. StreamTypeOK'
  <2>1. pending' \in Seq(PartitionState) /\ Len(pending') <= PendingCap
    BY Constants
  <2>2. cursor' \in [Token -> Time]
    BY <1>0, NoneType, ZenonT(60) DEF StreamTypeOK
  <2>3. sent' \subseteq records'
    BY ZenonT(60)
  <2> QED BY <1>1, <2>1, <2>2, <2>3, ZenonT(60) DEF StreamTypeOK, SpannerTypeOK
<1>4. PositionsOK'
  <2>1. \A t \in Token : /\ reader'.found[t] > 0 => Position(t, reader'.found[t])
                         /\ cursor'[t] > 0 => Position(t, cursor'[t])
    BY <1>2 DEF StreamIInv, PositionsOK
  <2>2. DOMAIN pending' = {}
    OBVIOUS
  <2> QED BY <1>1, <1>2, <2>1, <2>2, ZenonT(60) DEF PositionsOK
<1>5. SeenOK' /\ KidsOK'
  <2>1. \A t \in Token : worker'[t].pc # "children" /\ worker'[t].kids = {} /\ worker'[t].seen = {}
    BY <1>2
  <2> QED BY <2>1, ZenonT(60) DEF SeenOK, KidsOK
<1>6. StartOK'
  BY <1>1 DEF StartOK, StreamIInv
<1>7. OriginOK'
  <2>1. DOMAIN pending' = {} /\ reader'.pc \notin {"run", "waiting"}
    OBVIOUS
  <2> QED BY <1>2, <2>1, ZenonT(60) DEF OriginOK, Begun
<1>8. InOrder'
  BY ZenonT(60) DEF InOrder
<1>9. ResumeSafe'
  <2>1. CASE reader'.pc = "load"
    BY <2>1, ZenonT(60) DEF ResumeSafe
  <2>2. CASE reader'.boot = clock
    <3>1. \A r \in records' : ~ (reader'.boot < r.rev)
      BY <1>0, <1>1, <2>2, Types DEF RecordsOK
    <3> QED BY <3>1, ZenonT(60) DEF ResumeSafe
  <2> QED BY <2>1, <2>2
<1> QED BY <1>1, <1>3, <1>4, <1>5, <1>6, <1>7, <1>8, <1>9 DEF StreamIInv

\* The process loads its cursors.
LEMMA LoadCursorsPreserves ==
    ASSUME StreamIInv, loadCursors
    PROVE  StreamIInv'
<1>0. StreamTypeOK /\ StartOK
  BY DEF StreamIInv
<1> DEFINE S(found) == {clock - StartLag} \cup ({found[t] : t \in Token} \ {0})
<1>1. PICK found \in {cursor, None} : \E start \in S(found) :
        /\ \A other \in S(found) : start <= other
        /\ reader' = [pc |-> "initial", boot |-> clock, start |-> start, found |-> found]
  BY ZenonT(60) DEF loadCursors
<1>2. /\ reader.pc = "load" /\ UNCHANGED spanner /\ cursor' = cursor /\ cancelled' = cancelled
      /\ pending' = pending /\ worker' = worker /\ sent' = sent /\ faults' = faults
  BY ZenonT(60) DEF loadCursors, ReaderStep
<1>3. pending = << >> /\ sent = {} /\ \A t \in Token : worker[t] = NoWorker
  BY <1>0, <1>2 DEF StartOK
<1>4. found \in [Token -> Time]
  BY <1>0, NoneType, ZenonT(60) DEF StreamTypeOK
<1>5. clock \in Nat /\ clock \in Time /\ clock - StartLag \in Time /\ clock - StartLag <= clock
  BY <1>0, Constants DEF StartOK, StreamTypeOK, Time
<1>6. S(found) \subseteq Time /\ clock - StartLag \in S(found)
  BY <1>4, <1>5, ZenonT(60)
<1> HIDE DEF S
<1>7. PICK start \in S(found) :
        /\ \A other \in S(found) : start <= other
        /\ reader' = [pc |-> "initial", boot |-> clock, start |-> start, found |-> found]
  BY <1>1
<1>8. start \in Time /\ start <= clock - StartLag
  BY <1>6, <1>7, ZenonT(60)
<1>9. start <= clock
  BY <1>5, <1>8, Constants DEF Time
<1>10. /\ reader' \in ReaderState /\ reader'.pc = "initial" /\ reader'.boot = clock
       /\ reader'.found = found /\ reader'.start = start
  BY <1>4, <1>5, <1>7, <1>8 DEF ReaderState
<1>11. reader'.boot <= clock /\ reader'.start <= reader'.boot
  BY <1>5, <1>9, <1>10
<1>12. /\ worker' \in [Token -> WorkerState] /\ cancelled' \in BOOLEAN /\ faults' \in 0..MaxFaults
       /\ \A t \in Token : worker'[t] = NoWorker
  BY <1>0, <1>2, <1>3, ZenonT(60) DEF StreamTypeOK
<1>13. pending' = << >> /\ sent' = {} /\ (reader'.found = cursor \/ reader'.found = None)
  BY <1>2, <1>3, <1>10
<1> QED BY <1>2, <1>10, <1>11, <1>12, <1>13, BeginsPreserves, ZenonT(60)

\* The process goes down and comes up anew.
LEMMA RestartPreserves ==
    ASSUME StreamIInv, Restart
    PROVE  StreamIInv'
<1>1. /\ faults < MaxFaults /\ faults' = faults + 1 /\ cursor' \in {cursor, None}
      /\ reader' = NoReader /\ cancelled' = FALSE /\ pending' = << >>
      /\ worker' = [t \in Token |-> NoWorker] /\ sent' = {} /\ UNCHANGED spanner
  BY ZenonT(60) DEF Restart
<1>2. /\ reader' \in ReaderState /\ reader'.pc = "load" /\ reader'.found = None
      /\ reader'.boot = 0 /\ reader'.start = 0
  BY <1>1, NoReaderType DEF NoReader
<1>3. worker' \in [Token -> WorkerState] /\ \A t \in Token : worker'[t] = NoWorker
  BY <1>1, NoWorkerType, ZenonT(60)
<1>4. clock \in Nat /\ faults \in 0..MaxFaults
  BY Types, ZenonT(60) DEF StreamIInv, StreamTypeOK
<1>5. reader'.start <= reader'.boot /\ reader'.boot <= clock /\ faults' \in 0..MaxFaults
  BY <1>1, <1>2, <1>4, Constants
<1>6. cancelled' \in BOOLEAN /\ (cursor' = cursor \/ cursor' = None)
  BY <1>1, ZenonT(60)
<1> QED BY <1>1, <1>2, <1>3, <1>5, <1>6, BeginsPreserves, ZenonT(60)

-----------------------------------------------------------------------------
(* The invariant, and what follows from it. *)

\* Every step keeps the invariant.
LEMMA StreamNextIInv == StreamIInv /\ [StreamNext]_streamVars => StreamIInv'
<1> SUFFICES ASSUME StreamIInv, [StreamNext]_streamVars PROVE StreamIInv'
  OBVIOUS
<1>1. CASE SpannerStep
  BY <1>1, CommitPreserves, RepartitionPreserves, ZenonT(60) DEF SpannerStep
<1>2. CASE StartStep
  BY <1>2, LoadCursorsPreserves, QueryInitialPreserves, ZenonT(60) DEF StartStep
<1>3. CASE StartFails \/ Shutdown
  BY <1>3, ReaderDropsPreserves, ZenonT(60)
<1>4. CASE EnqueueStep
  BY <1>4, EnqueueInitialPreserves, ReaderDropsPreserves, ZenonT(60) DEF EnqueueStep
<1>5. CASE LoopStep
  BY <1>5, StartWorkerPreserves, ReaderDropsPreserves, ZenonT(60) DEF LoopStep
<1>6. ASSUME NEW t \in Token, WorkerStep(t) \/ Heartbeat(t) \/ QueryBreaks(t) PROVE StreamIInv'
  <2>1. CASE Query(t) \/ DataRecord(t) \/ ChildPartitions(t)
    BY <2>1, QueryPreserves, DataRecordPreserves, ChildPartitionsPreserves, ZenonT(60)
  <2>2. CASE EnqueueChild(t) \/ WorkerDone(t) \/ WorkerStops(t)
    BY <2>2, EnqueueChildPreserves, WorkerDonePreserves, WorkerStopsPreserves, ZenonT(60)
  <2>3. CASE Heartbeat(t) \/ QueryBreaks(t)
    BY <2>3, HeartbeatPreserves, QueryBreaksPreserves, ZenonT(60)
  <2> QED BY <1>6, <2>1, <2>2, <2>3, ZenonT(60) DEF WorkerStep
<1>7. CASE Restart
  BY <1>7, RestartPreserves
<1>8. CASE UNCHANGED streamVars
  <2>1. /\ clock' = clock /\ part' = part /\ owner' = owner /\ records' = records
        /\ cursor' = cursor /\ reader' = reader /\ pending' = pending /\ worker' = worker
        /\ sent' = sent /\ faults' = faults /\ cancelled' = cancelled
    BY <1>8 DEF streamVars, spanner
  <2>2. StreamTypeOK'
    BY <2>1, ZenonT(60) DEF StreamIInv, StreamTypeOK, Opened
  <2>3. PartsOK' /\ RecordsOK' /\ PositionsOK' /\ SeenOK' /\ StartOK'
    BY <2>1, ZenonT(60) DEF StreamIInv, PartsOK, RecordsOK, PositionsOK, Position, SeenOK, StartOK,
                            Opened, RecordsOf
  <2>4. KidsOK' /\ InOrder' /\ ResumeSafe' /\ OriginOK'
    <3>1. \A u \in Token : (Through(u)' <=> Through(u)) /\ Resumes(u)' = Resumes(u)
      BY <2>1, ZenonT(60) DEF Through, Opened, Resumes
    <3>2. KidsOK'
      BY <2>1, <3>1, ZenonT(60) DEF StreamIInv, KidsOK
    <3>3. InOrder'
      BY <2>1, ZenonT(60) DEF StreamIInv, InOrder
    <3>4. ResumeSafe'
      BY <2>1, <3>1, ZenonT(60) DEF StreamIInv, ResumeSafe
    <3>5. \A c \in Token : (Begun(c)' <=> Begun(c)) /\ (HandedOn(c)' <=> HandedOn(c))
      BY <2>1, ZenonT(60) DEF Begun, HandedOn, Through, Opened
    <3>6. OriginOK'
      BY <2>1, <3>5, ZenonT(60) DEF StreamIInv, OriginOK, Opened
    <3> QED BY <3>2, <3>3, <3>4, <3>6
  <2> QED BY <2>2, <2>3, <2>4 DEF StreamIInv
<1> QED BY <1>1, <1>2, <1>3, <1>4, <1>5, <1>6, <1>7, <1>8, ZenonT(60) DEF StreamNext

(* In every reachable state the invariant holds. *)
THEOREM StreamInvariance == StreamSpec => []StreamIInv
BY StreamInitIInv, StreamNextIInv, PTL DEF StreamSpec

(* The reader's state is always well typed, the channel never holds more     *)
(* partitions than it has room for, and what has been dispatched was written. *)
THEOREM StreamTyped == StreamSpec => []StreamTypeOK
<1>1. StreamIInv => StreamTypeOK
  BY DEF StreamIInv
<1> QED BY <1>1, StreamInvariance, PTL

(* A query that breaks and is made again, and a cursor that is flushed, never *)
(* skips a record: whatever was committed since the process started and lies  *)
(* before a place reading goes on from has been dispatched.                   *)
THEOREM StreamResumeSafe == StreamSpec => []ResumeSafe
<1>1. StreamIInv => ResumeSafe
  BY DEF StreamIInv
<1> QED BY <1>1, StreamInvariance, PTL

(* Every query a worker makes is of an existing partition, from a time within *)
(* its life: readPartition never gets stuck on a query Spanner refuses.       *)
THEOREM StreamQueryInRange == StreamSpec => []QueryInRange
<1>1. StreamIInv => QueryInRange
  <2> SUFFICES ASSUME StreamIInv PROVE QueryInRange
    OBVIOUS
  <2>1. Opened \subseteq Token
    BY Types DEF StreamIInv
  <2> QED BY <2>1, ZenonT(60) DEF StreamIInv, PositionsOK, Position, QueryInRange
<1> QED BY <1>1, StreamInvariance, PTL

(* The events of a key are dispatched in commit order within a partition and *)
(* across a split or a move, because a child is enqueued only when every     *)
(* record of its parent is dispatched.                                       *)
THEOREM StreamSplitOrder == StreamSpec => []SplitOrder
<1>1. StreamIInv => SplitOrder
  <2> SUFFICES ASSUME StreamIInv, NEW r \in sent, NEW q \in records,
                      q.key = r.key, q.row, reader.boot < q.rev, q.rev < r.rev,
                      q.token = r.token \/ \A t \in Opened : r.token \in part[t].kids <=> t = q.token
               PROVE  q \in sent
    BY ZenonT(60) DEF SplitOrder
  <2>1. CASE q.token = r.token
    BY <2>1, ZenonT(60) DEF StreamIInv, InOrder
  <2>2. CASE \A t \in Opened : r.token \in part[t].kids <=> t = q.token
    <3>0. StreamTypeOK /\ r \in records
      BY ZenonT(60) DEF StreamIInv, StreamTypeOK
    <3>1. r.token \in Token /\ r.token \in Opened /\ q.token \in Opened
      BY <3>0, Types DEF StreamIInv, RecordsOK
    <3>2. HandedOn(r.token)
      BY <3>1, ZenonT(60) DEF StreamIInv, OriginOK, Begun
    <3>3. CASE part[r.token].start <= reader.boot
      <4>1. r.token \in part[q.token].kids
        BY <2>2, <3>1
      <4>2. part[r.token].start = part[q.token].end
        BY <3>1, <4>1 DEF StreamIInv, PartsOK
      <4>3. part[q.token].end = 0 \/ q.rev < part[q.token].end
        BY DEF StreamIInv, RecordsOK
      <4>4. 1 <= part[r.token].start
        BY <3>1 DEF StreamIInv, PartsOK
      <4>5. q.rev \in Nat /\ reader.boot \in Nat /\ part[q.token].end \in Nat
        BY <3>0, <3>1, Types
      <4> QED BY <3>3, <4>2, <4>3, <4>4, <4>5
    <3>4. CASE \E p \in Opened : r.token \in part[p].kids /\ Through(p)
      BY <2>2, <3>4, ZenonT(60) DEF Through
    <3> QED BY <3>2, <3>3, <3>4 DEF HandedOn
  <2> QED BY <2>1, <2>2
<1> QED BY <1>1, StreamInvariance, PTL

=============================================================================
