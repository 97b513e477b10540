----------------------------- MODULE CallProofs -----------------------------
(***************************************************************************)
(* Proofs about the calls of KVServer, for any number of them in progress  *)
(* at once, any requests, keys and key names, and everything StoreProofs   *)
(* is general in.                                                          *)
(*                                                                         *)
(* What a call carries from one store call to the next is compared with    *)
(* the history: it was right when it was read, and if it no longer is, the *)
(* history shows who wrote in between.  The predicates below are of a call *)
(* x, its read rd, the history h, the last commit now and the compaction   *)
(* revision floor, so that they can be said of a state and of the next.    *)
(*                                                                         *)
(* This module has the invariant, what the steps of every call need, and   *)
(* the steps that begin a call, compare, and serve a Range.  The writes    *)
(* and the results are in KVServerProofs.                                  *)
(***************************************************************************)
EXTENDS KVServer, StoreProofs

\* Zenon is the prover of a step that does not name another; it has a minute.
USE ZenonT(60)

-----------------------------------------------------------------------------
(* Types. *)

\* The operations clients ask for.
OpsOf(q) == {q.success[i] : i \in DOMAIN q.success} \cup {q.failure[i] : i \in DOMAIN q.failure}

RequestOp == UNION {OpsOf(q) : q \in ServerRequest}

DoneState == [op : RequestOp, rev : Revision, applied : BOOLEAN, rows : SUBSET Row,
              at : Revision]

CallState == [pc : {"idle", "compare", "op", "get", "update", "each", "answered", "failed"},
              req : ServerRequest \cup {{}}, compares : Seq(TxnCompare), ops : Seq(RequestOp),
              succeeded : BOOLEAN, todo : SUBSET Key, modRev : Revision,
              value : Value \cup {NoValue}, lease : LeaseOrNone, start : Revision,
              decided : Revision, done : Seq(DoneState)]

CallTypes == call \in [Reader -> CallState]

-----------------------------------------------------------------------------
(* The history. *)

Between(h, k, from, to) == \E w \in h : w.key = k /\ from < w.rev /\ w.rev <= to

HeldIn(h, k, rev) ==
    {w \in h : w.key = k /\ w.rev <= rev /\ \A s \in h : s.key = k /\ s.rev <= rev => s.rev <= w.rev}

NewestIn(h, w) == \A s \in h : s.key = w.key => s.rev <= w.rev

\* Key k was deleted.
Gone(h, k, from, to) == \E t \in h : t.key = k /\ t.deleted /\ from < t.rev /\ t.rev <= to

\* From one state to a later one the history grows by rows of later commits.
Moves(h, now, floor, h2, now2, floor2) ==
    /\ now \in Nat /\ now2 \in Nat /\ floor \in Nat /\ floor2 \in Nat
    /\ now <= now2 /\ floor <= floor2 /\ h \subseteq h2
    /\ \A w \in h2 : w.rev \in Nat /\ w.rev <= now2
    /\ \A w \in h : w.rev <= now
    /\ \A w \in h2 : w \notin h => now < w.rev

-----------------------------------------------------------------------------
(* What a call has found out so far. *)

Op(x) == Head(x.ops)

IsTxn(x) == x.req.rpc = "txn"

Keeps(x) == IsTxn(x) /\ (Op(x).ignoreValue \/ Op(x).ignoreLease)

\* Where a call stands.
AtOps(x, now) ==
    /\ x.pc # "idle" => x.req \in ServerRequest
    /\ x.pc \in {"get", "update"} => x.ops # <<>> /\ Op(x).type = "put"
    /\ x.pc = "get" => ~Keeps(x)
    /\ x.pc = "each" => x.ops # <<>> /\ Op(x).type = "delete" /\ ~SingleKey(Op(x))
    /\ x.start <= now /\ x.decided <= now /\ x.modRev <= now

\* The read a call makes where it stands.
Asks(x, req) ==
    \/ x.pc = "compare" /\ x.compares # <<>> /\ req = ReadOf("get", {Head(x.compares).key})
    \/ x.pc = "get" /\ req = ReadOf("get", Listed(Op(x).range))
    \/ /\ x.pc = "op" /\ x.ops # <<>>
       /\ \/ Op(x).type = "put" /\ Keeps(x) /\ req = ReadOf("get", Listed(Op(x).range))
          \/ /\ Op(x).type = "delete" /\ ~SingleKey(Op(x))
             /\ req = ReadOf("list", Listed(Op(x).range))
          \/ Op(x).type = "range" /\ req.keys = Listed(Op(x).range) /\ req.op # "after"

\* Its read is of what had been committed since the call began, and by now; it
\* returns live rows; and a key with rows that old has a newest one.
ReadsOn(x, rd, h, now) ==
    /\ rd.pc # "idle" => Asks(x, rd.req) /\ x.start <= rd.currentRev /\ rd.currentRev <= now
    /\ rd.pc = "answered" => rd.currentRev <= rd.asOf
    /\ rd.pc # "answered" => rd.rows = {}
    /\ \A r \in rd.rows : r \in h /\ r.key \in rd.req.keys /\ ~r.deleted
    /\ rd.pc # "idle" => \A w \in h : w.rev <= rd.currentRev => HeldIn(h, w.key, rd.currentRev) # {}

\* A Put found the key live: it still is, in the row the Put has read, unless
\* somebody has written the key since the call began.
PutOn(x, h, now) ==
    x.pc \in {"get", "update"} /\ ~Keeps(x) =>
        \/ Between(h, TheKey(Op(x)), x.start, now)
        \/ \E w \in h : /\ w.key = TheKey(Op(x)) /\ ~w.deleted /\ NewestIn(h, w)
                        /\ x.pc = "update" => x.modRev = w.rev

\* A put that keeps the value or the lease has the one of the row it expects.
KeepOn(x, h) ==
    x.pc = "update" /\ Keeps(x) =>
        \E cur \in h : /\ cur.key = TheKey(Op(x)) /\ cur.rev = x.modRev
                       /\ Op(x).ignoreValue => x.value = cur.value
                       /\ Op(x).ignoreLease => x.lease = cur.lease

\* All keys of a range have the prefix the server makes of it, which has no
\* backslash: LIKE would take that for an escape.
Reaches(q) ==
    \/ q.end \in {<<>>, Zero}
    \/ HasPrefix(q.end, ButLast(q.key)) /\ Unescaped(ButLast(q.key))

\* A key of range q, live when the call began and not compacted since, is one
\* of todo or has been deleted.
AllGone(q, todo, start, h, now, floor) ==
    \A k \in Key : InRange(q, k) /\ k \notin todo =>
        \A w \in HeldIn(h, k, start) : ~w.deleted /\ w.rev > floor => Gone(h, k, w.rev, now)

EachOn(x, h, now, floor) ==
    x.pc = "each" /\ IsTxn(x) =>
        /\ \A k \in x.todo : InRange(Op(x).range, k)
        /\ Reaches(Op(x).range) => AllGone(Op(x).range, x.todo, x.start, h, now, floor)

\* The i-th compare of request q holds of what a call found when it began.
Holds(q, i, start, h) ==
    ModRevOf({w \in HeldIn(h, q.compares[i].key, start) : ~w.deleted}) = q.compares[i].modRev

\* A call that compares has been through the first of its compares, which hold
\* unless somebody has written the key since it began.
Compared(x) == Len(x.req.compares) - Len(x.compares)

Comparing(x, h, now) ==
    x.pc = "compare" =>
        /\ Len(x.compares) <= Len(x.req.compares)
        /\ \A i \in 1..Len(x.compares) : x.compares[i] = x.req.compares[Compared(x) + i]
        /\ \A i \in 1..Compared(x) :
              Between(h, x.req.compares[i].key, x.start, now) \/ Holds(x.req, i, x.start, h)

\* The branch is the right one unless somebody wrote a compared key before it
\* was chosen.
Chosen(x, h) ==
    x.pc \in {"op", "get", "update", "each", "answered"} =>
        \/ \E i \in DOMAIN x.req.compares : Between(h, x.req.compares[i].key, x.start, x.decided)
        \/ x.succeeded = (\A i \in DOMAIN x.req.compares : Holds(x.req, i, x.start, h))

\* What a put wrote keeps what it should of the row it replaced.
Kept(d, h) ==
    \A w \in h : w.key = TheKey(d.op) /\ w.rev = d.rev =>
        /\ d.op.ignoreValue => w.value = w.oldValue
        /\ d.op.ignoreLease => \E p \in h : p.key = w.key /\ p.rev = w.prevRev /\ p.lease = w.lease

\* Operation d of a call that began at start is finished.
DoneOK(start, txn, d, h, now, floor) ==
    /\ d.rev <= now /\ d.at <= now
    /\ d.op.type = "put" /\ ~d.applied => Between(h, TheKey(d.op), start, d.at)
    /\ d.op.type = "put" /\ d.applied /\ txn => Kept(d, h)
    /\ d.op.type = "delete" /\ txn /\ Reaches(d.op.range) =>
          AllGone(d.op.range, {}, start, h, d.at, floor)
    /\ txn /\ ~d.op.countOnly => \A r \in d.rows : InRange(d.op.range, r.key)

DoneOn(x, h, now, floor) ==
    \A i \in DOMAIN x.done : DoneOK(x.start, IsTxn(x), x.done[i], h, now, floor)

CallOK(x, rd, h, now, floor) ==
    /\ AtOps(x, now) /\ ReadsOn(x, rd, h, now)
    /\ PutOn(x, h, now) /\ KeepOn(x, h) /\ EachOn(x, h, now, floor)
    /\ Comparing(x, h, now) /\ Chosen(x, h) /\ DoneOn(x, h, now, floor)

\* The invariant of the KV service.
ServerIInv ==
    /\ ReadIInv /\ CallTypes
    /\ \A c \in Reader : CallOK(call[c], reader[c], written, clock, compactRev)

-----------------------------------------------------------------------------
(* The history of a later state. *)

\* Whether a key was written before a revision of the past does not change, and
\* once it was written since then it was.
LEMMA BetweenMoves ==
    ASSUME NEW h, NEW now, NEW floor, NEW h2, NEW now2, NEW floor2,
           Moves(h, now, floor, h2, now2, floor2), NEW k, NEW a \in Nat
    PROVE  /\ Between(h, k, a, now) => Between(h2, k, a, now2)
           /\ \A b \in Nat : Between(h, k, a, b) => Between(h2, k, a, b)
           /\ \A b \in Nat : b <= now /\ Between(h2, k, a, b) => Between(h, k, a, b)
<1>1. ASSUME NEW w \in h, w.rev <= now PROVE w \in h2 /\ w.rev <= now2
  BY <1>1 DEF Moves
<1>2. ASSUME NEW b \in Nat, b <= now, NEW w \in h2, w.rev <= b PROVE w \in h
  <2>1. w.rev \in Nat /\ now \in Nat /\ (w \notin h => now < w.rev)
    BY DEF Moves
  <2> QED BY <1>2, <2>1, SMTT(60)
<1>3. Between(h, k, a, now) => Between(h2, k, a, now2)
  BY <1>1 DEF Between
<1>4. \A b \in Nat : Between(h, k, a, b) => Between(h2, k, a, b)
  <2>1. \A w \in h : w \in h2
    BY DEF Moves
  <2> QED BY <2>1 DEF Between
<1>5. \A b \in Nat : b <= now /\ Between(h2, k, a, b) => Between(h, k, a, b)
  BY <1>2 DEF Between
<1> QED BY <1>3, <1>4, <1>5

\* What a key held at a revision of the past does not change.
LEMMA HeldMoves ==
    ASSUME NEW h, NEW now, NEW floor, NEW h2, NEW now2, NEW floor2,
           Moves(h, now, floor, h2, now2, floor2), NEW k, NEW b \in Nat, b <= now
    PROVE  HeldIn(h2, k, b) = HeldIn(h, k, b)
<1>1. \A w \in h : w \in h2
  BY DEF Moves
<1>2. ASSUME NEW w \in h2, w.rev <= b PROVE w \in h
  <2>1. w.rev \in Nat /\ now \in Nat /\ (w \notin h => now < w.rev)
    BY DEF Moves
  <2> QED BY <1>2, <2>1, SMTT(60)
<1>3. ASSUME NEW w \in HeldIn(h2, k, b) PROVE w \in HeldIn(h, k, b)
  BY <1>1, <1>2, <1>3 DEF HeldIn
<1>4. ASSUME NEW w \in HeldIn(h, k, b) PROVE w \in HeldIn(h2, k, b)
  BY <1>1, <1>2, <1>4 DEF HeldIn
<1> QED BY <1>3, <1>4

\* A key that was deleted stays so.
LEMMA GoneMoves ==
    ASSUME NEW h, NEW now, NEW floor, NEW h2, NEW now2, NEW floor2,
           Moves(h, now, floor, h2, now2, floor2), NEW k, NEW a
    PROVE  /\ Gone(h, k, a, now) => Gone(h2, k, a, now2)
           /\ \A b : Gone(h, k, a, b) => Gone(h2, k, a, b)
<1>1. \A w \in h : w \in h2 /\ w.rev <= now2
  BY DEF Moves
<1> QED BY <1>1 DEF Gone

\* The newest row stays so, or somebody writes the key.
LEMMA NewestMoves ==
    ASSUME NEW h, NEW now, NEW floor, NEW h2, NEW now2, NEW floor2,
           Moves(h, now, floor, h2, now2, floor2), NEW w \in h, NewestIn(h, w),
           NEW a \in Nat, a <= now
    PROVE  NewestIn(h2, w) \/ Between(h2, w.key, a, now2)
<1> SUFFICES ASSUME NEW s \in h2, s.key = w.key, ~(s.rev <= w.rev) PROVE Between(h2, w.key, a, now2)
  BY DEF NewestIn
<1>1. s \notin h
  BY DEF NewestIn
<1>2. s.rev \in Nat /\ now \in Nat /\ now < s.rev /\ s.rev <= now2
  BY <1>1 DEF Moves
<1>3. a < s.rev
  BY <1>2, SMTT(60)
<1> QED BY <1>2, <1>3 DEF Between

-----------------------------------------------------------------------------
(* What a call has found out stays right while others take steps. *)

\* The read of a call.
LEMMA ReadsMoves ==
    ASSUME NEW h, NEW now, NEW floor, NEW h2, NEW now2, NEW floor2,
           Moves(h, now, floor, h2, now2, floor2), NEW x, NEW rd \in ReadState,
           ReadsOn(x, rd, h, now)
    PROVE  ReadsOn(x, rd, h2, now2)
<1>1. now \in Nat /\ now2 \in Nat /\ now <= now2 /\ \A w \in h : w \in h2
  BY DEF Moves
<1>2. rd.currentRev \in Nat
  BY StoreAssumption, SMTT(60) DEF ReadState, Revision
<1>3. rd.pc # "idle" => Asks(x, rd.req) /\ x.start <= rd.currentRev /\ rd.currentRev <= now2
  <2>1. rd.currentRev <= now => rd.currentRev <= now2
    BY <1>1, <1>2, SMTT(60)
  <2> QED BY <2>1 DEF ReadsOn
<1>4. ASSUME rd.pc # "idle", NEW w \in h2, w.rev <= rd.currentRev
      PROVE  HeldIn(h2, w.key, rd.currentRev) # {}
  <2>1. rd.currentRev <= now
    BY <1>4 DEF ReadsOn
  <2>2. w \in h
    <3>1. w.rev \in Nat /\ (w \notin h => now < w.rev)
      BY DEF Moves
    <3> QED BY <1>1, <1>2, <1>4, <2>1, <3>1, SMTT(60)
  <2>3. HeldIn(h, w.key, rd.currentRev) # {}
    BY <1>4, <2>2 DEF ReadsOn
  <2>4. HeldIn(h2, w.key, rd.currentRev) = HeldIn(h, w.key, rd.currentRev)
    BY <1>2, <2>1, HeldMoves, SMTT(60)
  <2> QED BY <2>3, <2>4
<1>5. \A r \in rd.rows : r \in h2 /\ r.key \in rd.req.keys /\ ~r.deleted
  BY <1>1 DEF ReadsOn
<1> QED BY <1>3, <1>4, <1>5 DEF ReadsOn

\* What is left to delete, or was deleted.
LEMMA AllGoneMoves ==
    ASSUME NEW h, NEW now, NEW floor, NEW h2, NEW now2, NEW floor2,
           Moves(h, now, floor, h2, now2, floor2), NEW q, NEW todo, NEW start \in Nat, start <= now
    PROVE  /\ AllGone(q, todo, start, h, now, floor) => AllGone(q, todo, start, h2, now2, floor2)
           /\ \A b : AllGone(q, todo, start, h, b, floor) => AllGone(q, todo, start, h2, b, floor2)
<1>1. ASSUME NEW k, NEW w \in HeldIn(h2, k, start), w.rev > floor2
      PROVE  w \in HeldIn(h, k, start) /\ w.rev > floor
  <2>1. w \in HeldIn(h, k, start)
    <3>1. HeldIn(h2, k, start) = HeldIn(h, k, start)
      BY HeldMoves, SMTT(60)
    <3> QED BY <1>1, <3>1
  <2>2. w.rev \in Nat /\ floor \in Nat /\ floor2 \in Nat /\ floor <= floor2
    BY <2>1 DEF Moves, HeldIn
  <2> QED BY <1>1, <2>1, <2>2, SMTT(60)
<1>2. AllGone(q, todo, start, h, now, floor) => AllGone(q, todo, start, h2, now2, floor2)
  BY <1>1, GoneMoves DEF AllGone
<1>3. \A b : AllGone(q, todo, start, h, b, floor) => AllGone(q, todo, start, h2, b, floor2)
  BY <1>1, GoneMoves DEF AllGone
<1> QED BY <1>2, <1>3

\* A Put between its reads and its writes.
LEMMA PutMoves ==
    ASSUME NEW h, NEW now, NEW floor, NEW h2, NEW now2, NEW floor2,
           Moves(h, now, floor, h2, now2, floor2), NEW x, x.start \in Nat, x.start <= now
    PROVE  /\ PutOn(x, h, now) => PutOn(x, h2, now2)
           /\ KeepOn(x, h) => KeepOn(x, h2)
<1>1. \A w \in h : w \in h2
  BY DEF Moves
<1>2. KeepOn(x, h) => KeepOn(x, h2)
  BY <1>1 DEF KeepOn
<1>3. ASSUME PutOn(x, h, now), x.pc \in {"get", "update"}, ~Keeps(x)
      PROVE  \/ Between(h2, TheKey(Op(x)), x.start, now2)
             \/ \E w \in h2 : /\ w.key = TheKey(Op(x)) /\ ~w.deleted /\ NewestIn(h2, w)
                              /\ x.pc = "update" => x.modRev = w.rev
  <2>1. CASE Between(h, TheKey(Op(x)), x.start, now)
    BY <2>1, BetweenMoves
  <2>2. ASSUME NEW w \in h, w.key = TheKey(Op(x)), ~w.deleted, NewestIn(h, w),
               x.pc = "update" => x.modRev = w.rev
        PROVE  \/ Between(h2, TheKey(Op(x)), x.start, now2)
               \/ \E v \in h2 : /\ v.key = TheKey(Op(x)) /\ ~v.deleted /\ NewestIn(h2, v)
                                /\ x.pc = "update" => x.modRev = v.rev
    <3>1. NewestIn(h2, w) \/ Between(h2, w.key, x.start, now2)
      BY <2>2, NewestMoves
    <3> QED BY <1>1, <2>2, <3>1
  <2> QED BY <1>3, <2>1, <2>2 DEF PutOn
<1>4. PutOn(x, h, now) => PutOn(x, h2, now2)
  BY <1>3 DEF PutOn
<1> QED BY <1>2, <1>4

\* Which compares hold, and which branch was taken.
LEMMA CompareMoves ==
    ASSUME NEW h, NEW now, NEW floor, NEW h2, NEW now2, NEW floor2,
           Moves(h, now, floor, h2, now2, floor2), NEW x \in CallState, x.start <= now, x.decided <= now
    PROVE  /\ Comparing(x, h, now) => Comparing(x, h2, now2)
           /\ Chosen(x, h) => Chosen(x, h2)
<1>1. x.start \in Nat /\ x.decided \in Nat
  BY StoreAssumption, SMTT(60) DEF CallState, Revision
<1>2. ASSUME NEW q, NEW i PROVE Holds(q, i, x.start, h2) <=> Holds(q, i, x.start, h)
  <2>1. HeldIn(h2, q.compares[i].key, x.start) = HeldIn(h, q.compares[i].key, x.start)
    BY <1>1, HeldMoves, SMTT(60)
  <2> QED BY <2>1 DEF Holds
<1>3. \A k : Between(h, k, x.start, now) => Between(h2, k, x.start, now2)
  BY <1>1, BetweenMoves
<1>4. \A k : Between(h, k, x.start, x.decided) => Between(h2, k, x.start, x.decided)
  BY <1>1, BetweenMoves
<1>5. Comparing(x, h, now) => Comparing(x, h2, now2)
  BY <1>2, <1>3 DEF Comparing
<1>6. ASSUME NEW q
      PROVE  (\A i \in DOMAIN q.compares : Holds(q, i, x.start, h2))
                = (\A i \in DOMAIN q.compares : Holds(q, i, x.start, h))
  BY <1>2
<1>7. Chosen(x, h) => Chosen(x, h2)
  BY <1>4, <1>6 DEF Chosen
<1> QED BY <1>5, <1>7

\* A finished operation.
LEMMA DoneMoves ==
    ASSUME NEW h, NEW now, NEW floor, NEW h2, NEW now2, NEW floor2,
           Moves(h, now, floor, h2, now2, floor2), NEW start \in Nat, start <= now, NEW txn,
           NEW d \in DoneState, DoneOK(start, txn, d, h, now, floor)
    PROVE  DoneOK(start, txn, d, h2, now2, floor2)
<1>1. d.rev \in Nat /\ d.at \in Nat /\ now \in Nat /\ now2 \in Nat /\ now <= now2
  BY StoreAssumption, SMTT(60) DEF DoneState, Revision, Moves
<1>2. d.rev <= now /\ d.at <= now
  BY DEF DoneOK
<1>3. d.rev <= now2 /\ d.at <= now2
  BY <1>1, <1>2, SMTT(60)
<1>4. Between(h, TheKey(d.op), start, d.at) => Between(h2, TheKey(d.op), start, d.at)
  BY <1>1, BetweenMoves
<1>5. Kept(d, h) => Kept(d, h2)
  <2>1. ASSUME NEW w \in h2, w.rev = d.rev PROVE w \in h
    <3>1. w \notin h => now < w.rev
      BY DEF Moves
    <3> QED BY <1>1, <1>2, <2>1, <3>1, SMTT(60)
  <2>2. \A w \in h : w \in h2
    BY DEF Moves
  <2> QED BY <2>1, <2>2 DEF Kept
<1>6. AllGone(d.op.range, {}, start, h, d.at, floor) => AllGone(d.op.range, {}, start, h2, d.at, floor2)
  BY AllGoneMoves, SMTT(60)
<1> QED BY <1>3, <1>4, <1>5, <1>6 DEF DoneOK

\* All finished operations of a call, whatever else of it changes.
LEMMA DoneOnMoves ==
    ASSUME NEW h, NEW now, NEW floor, NEW h2, NEW now2, NEW floor2,
           Moves(h, now, floor, h2, now2, floor2), NEW x \in CallState, x.start <= now,
           DoneOn(x, h, now, floor), NEW y, y.done = x.done, y.start = x.start, y.req = x.req
    PROVE  DoneOn(y, h2, now2, floor2)
<1>1. x.start \in Nat /\ \A i \in DOMAIN x.done : x.done[i] \in DoneState
  BY StoreAssumption, SMTT(60) DEF CallState, Revision
<1>2. IsTxn(y) = IsTxn(x)
  BY DEF IsTxn
<1>3. ASSUME NEW i \in DOMAIN x.done PROVE DoneOK(x.start, IsTxn(x), x.done[i], h2, now2, floor2)
  <2>1. x.done[i] \in DoneState /\ DoneOK(x.start, IsTxn(x), x.done[i], h, now, floor)
    BY <1>1 DEF DoneOn
  <2> QED BY <1>1, <2>1, DoneMoves, SMTT(60)
<1> QED BY <1>2, <1>3 DEF DoneOn

\* A call that takes no step.
LEMMA CallMoves ==
    ASSUME NEW h, NEW now, NEW floor, NEW h2, NEW now2, NEW floor2,
           Moves(h, now, floor, h2, now2, floor2), NEW x \in CallState, NEW rd \in ReadState,
           CallOK(x, rd, h, now, floor)
    PROVE  CallOK(x, rd, h2, now2, floor2)
<1>1. x.start \in Nat /\ x.decided \in Nat /\ x.modRev \in Nat
  BY StoreAssumption, SMTT(60) DEF CallState, Revision
<1>2. AtOps(x, now) /\ x.start <= now /\ x.decided <= now /\ x.modRev <= now
  BY DEF CallOK, AtOps
<1>3. AtOps(x, now2)
  <2>1. now \in Nat /\ now2 \in Nat /\ now <= now2
    BY DEF Moves
  <2>2. x.start <= now2 /\ x.decided <= now2 /\ x.modRev <= now2
    BY <1>1, <1>2, <2>1, SMTT(60)
  <2> QED BY <1>2, <2>2 DEF AtOps
<1>4. ReadsOn(x, rd, h2, now2)
  BY ReadsMoves DEF CallOK
<1>5. PutOn(x, h2, now2) /\ KeepOn(x, h2)
  BY <1>1, <1>2, PutMoves DEF CallOK
<1>6. EachOn(x, h2, now2, floor2)
  BY <1>1, <1>2, AllGoneMoves DEF CallOK, EachOn
<1>7. Comparing(x, h2, now2) /\ Chosen(x, h2)
  BY <1>2, CompareMoves DEF CallOK
<1>8. DoneOn(x, h2, now2, floor2)
  BY <1>2, DoneOnMoves DEF CallOK
<1> QED BY <1>3, <1>4, <1>5, <1>6, <1>7, <1>8 DEF CallOK

-----------------------------------------------------------------------------
(* Keys and ranges. *)

\* Different keys have different names.
LEMMA NamesDiffer ==
    ASSUME NEW k \in Key, NEW l \in Key, KeyName[k] = KeyName[l]
    PROVE  k = l
<1>1. k \in Nat /\ l \in Nat /\ DOMAIN KeyName = Key
  BY ReadAssumption, ServerAssumption
<1>2. KeyName[k] \in Seq(Nat)
  BY <1>1, KeyNameAssumption
<1>3. ~KeyBefore(KeyName[k], KeyName[k])
  <2>1. \A i \in DOMAIN KeyName[k] : KeyName[k][i] \in Nat
    BY <1>2, SMTT(60)
  <2>2. \A i \in DOMAIN KeyName[k] : ~(KeyName[k][i] < KeyName[k][i])
    BY <2>1, SMTT(60)
  <2> QED BY <2>2 DEF KeyBefore
<1>4. ~(k < l) /\ ~(l < k)
  BY <1>1, <1>3, KeyNameAssumption
<1> QED BY <1>1, <1>4, SMTT(60)

\* A put, and a delete of one key, is of one key.
LEMMA OneKey ==
    ASSUME NEW op \in ServerOp, op.type # "range", SingleKey(op)
    PROVE  /\ TheKey(op) \in Key /\ Listed(op.range) = {TheKey(op)}
           /\ \A k \in Key : InRange(op.range, k) <=> k = TheKey(op)
<1>1. Listed(op.range) # {} /\ DOMAIN KeyName = Key
  BY ServerAssumption DEF ServerOp, SingleKey
<1>2. TheKey(op) \in Listed(op.range)
  BY <1>1 DEF TheKey
<1>3. \A k \in Key : k \in Listed(op.range) <=> KeyName[k] = op.range.key
  BY <1>1 DEF Listed, SingleKey
<1>4. Listed(op.range) \subseteq Key
  BY <1>1 DEF Listed
<1>5. \A k \in Listed(op.range) : k = TheKey(op)
  BY <1>2, <1>3, <1>4, NamesDiffer
<1>6. \A k \in Key : InRange(op.range, k) <=> KeyName[k] = op.range.key
  BY DEF InRange, SingleKey
<1>7. Listed(op.range) = {TheKey(op)}
  BY <1>2, <1>5
<1> QED BY <1>2, <1>3, <1>4, <1>6, <1>7

\* A Txn keeps, of the keys listed for a range, those in the range.
LEMMA TakenInRange ==
    ASSUME NEW q, NEW k \in Listed(q)
    PROVE  BelowEnd(q, k) <=> InRange(q, k)
<1>1. q.end = <<>> => KeyName[k] = q.key
  BY DEF Listed
<1>2. q.end # <<>> => ~KeyBefore(KeyName[k], q.key)
  BY DEF Listed
<1>3. q.end \in {<<>>, Zero} <=> q.end = <<>> \/ q.end = Zero
  OBVIOUS
<1> QED BY <1>1, <1>2, <1>3 DEF BelowEnd, InRange

\* Strings between two that begin with p begin with p.
LEMMA PrefixBetween ==
    ASSUME NEW p \in Seq(Nat), NEW a \in Seq(Nat), NEW b \in Seq(Nat), NEW name \in Seq(Nat),
           HasPrefix(a, p), HasPrefix(b, p), ~KeyBefore(name, a), KeyBefore(name, b)
    PROVE  HasPrefix(name, p)
<1> DEFINE n == Len(p)
<1>1. /\ n \in Nat /\ n <= Len(a) /\ n <= Len(b) /\ DOMAIN p = 1..n
      /\ \A i \in 1..n : a[i] = p[i] /\ b[i] = p[i]
  BY SMTT(60) DEF HasPrefix
<1>2. ASSUME name # b, HasPrefix(b, name) PROVE HasPrefix(name, p)
  <2>1. Len(name) \in Nat /\ Len(name) <= Len(b) /\ \A i \in 1..Len(name) : name[i] = b[i]
    BY <1>2, SMTT(60) DEF HasPrefix
  <2>2. CASE n <= Len(name)
    <3>1. \A i \in 1..n : i \in 1..Len(name)
      BY <1>1, <2>1, <2>2, SMTT(60)
    <3>2. \A i \in 1..n : p[i] = name[i]
      BY <1>1, <2>1, <3>1
    <3> QED BY <1>1, <2>2, <3>2 DEF HasPrefix
  <2>3. CASE ~(n <= Len(name))
    <3>0. \A i \in 1..Len(name) : i \in 1..n
      BY <1>1, <2>1, <2>3, SMTT(60)
    <3>1. \A i \in 1..Len(name) : name[i] = a[i]
      BY <1>1, <2>1, <3>0
    <3>2. Len(name) <= Len(a) /\ name # a /\ DOMAIN name = 1..Len(name)
      BY <1>1, <2>1, <2>3, SMTT(60)
    <3>3. HasPrefix(a, name)
      BY <3>1, <3>2 DEF HasPrefix
    <3> QED BY <3>2, <3>3 DEF KeyBefore
  <2> QED BY <2>2, <2>3
<1>3. ASSUME NEW i \in DOMAIN name \cap DOMAIN b, name[i] < b[i],
             \A j \in 1..(i - 1) : name[j] = b[j]
      PROVE  HasPrefix(name, p)
  <2>1. i \in Nat /\ i >= 1 /\ i <= Len(name) /\ Len(name) \in Nat
    BY <1>3, SMTT(60)
  <2>2. CASE i <= n
    <3>1. i \in DOMAIN name \cap DOMAIN a
      BY <1>1, <1>3, <2>1, <2>2, SMTT(60)
    <3>2. i \in 1..n /\ \A j \in 1..(i - 1) : j \in 1..n
      BY <1>1, <2>1, <2>2, SMTT(60)
    <3>3. name[i] < a[i] /\ \A j \in 1..(i - 1) : name[j] = a[j]
      BY <1>1, <1>3, <3>2
    <3> QED BY <3>1, <3>3 DEF KeyBefore
  <2>3. CASE ~(i <= n)
    <3>1. n <= Len(name) /\ \A j \in 1..n : j \in 1..(i - 1)
      BY <1>1, <2>1, <2>3, SMTT(60)
    <3>2. \A j \in 1..n : p[j] = name[j]
      BY <1>1, <1>3, <3>1
    <3> QED BY <1>1, <3>1, <3>2 DEF HasPrefix
  <2> QED BY <2>2, <2>3
<1> QED BY <1>2, <1>3 DEF KeyBefore

\* The keys of a range whose end begins like its key are all listed.
LEMMA ListCovers ==
    ASSUME NEW q \in KeyRange, Reaches(q), NEW k \in Key, InRange(q, k)
    PROVE  k \in Listed(q)
<1> DEFINE name == KeyName[k]
<1>1. name \in Seq(Nat) /\ q.key \in Seq(Nat) /\ q.end \in Seq(Nat) /\ k \in DOMAIN KeyName
  BY KeyNameAssumption, ServerAssumption DEF KeyRange
<1>2. CASE q.end = <<>>
  BY <1>1, <1>2 DEF InRange, Listed
<1>3. CASE q.end = Zero
  <2>1. q.end # <<>>
    BY <1>3, SMTT(60) DEF Zero
  <2>2. ~KeyBefore(name, q.key)
    BY <2>1 DEF InRange
  <2>3. rangeToPrefix(q.key, q.end) = <<>>
    BY <1>3, SMTT(60) DEF rangeToPrefix
  <2>4. Like(<<>>, name)
    <3>1. <<>> \in Seq(Nat) /\ HasPrefix(name, <<>>) /\ Unescaped(<<>>)
      BY <1>1, SMTT(60) DEF HasPrefix, Unescaped
    <3> QED BY <1>1, <3>1, LikeFinds
  <2> QED BY <1>1, <2>1, <2>2, <2>3, <2>4 DEF Listed
<1>4. CASE q.end \notin {<<>>, Zero}
  <2>1. HasPrefix(q.end, ButLast(q.key)) /\ Unescaped(ButLast(q.key))
    BY <1>4 DEF Reaches
  <2>2. ~KeyBefore(name, q.key) /\ KeyBefore(name, q.end)
    BY <1>4 DEF InRange
  <2>3. ButLast(q.key) \in Seq(Nat) /\ HasPrefix(q.key, ButLast(q.key))
    <3>1. CASE q.key = <<>>
      BY <1>1, <3>1, SMTT(60) DEF ButLast, HasPrefix
    <3>2. CASE q.key # <<>>
      BY <1>1, <3>2, SMTT(60) DEF ButLast, HasPrefix
    <3> QED BY <3>1, <3>2
  <2>4. HasPrefix(name, ButLast(q.key))
    BY <1>1, <2>1, <2>2, <2>3, PrefixBetween
  <2>5. rangeToPrefix(q.key, q.end) = ButLast(q.key)
    BY <1>4, <2>1, SMTT(60) DEF rangeToPrefix
  <2>6. Like(ButLast(q.key), name)
    BY <1>1, <2>1, <2>3, <2>4, LikeFinds
  <2> QED BY <1>1, <1>4, <2>2, <2>5, <2>6 DEF Listed
<1> QED BY <1>2, <1>3, <1>4

-----------------------------------------------------------------------------
(* Steps of a call. *)

\* A step of the store, as the predicates of a call see it.
LEMMA StoreMovesOn ==
    ASSUME ReadIInv, ReadIInv', StoreMoves
    PROVE  Moves(written, clock, compactRev, written', clock', compactRev')
<1>1. /\ clock \in Nat /\ compactRev \in Nat
      /\ \A w \in written : w.rev \in Nat /\ w.rev <= clock
  BY StoreTypes
<1>2. /\ clock' \in Nat /\ compactRev' \in Nat
      /\ \A w \in written' : w.rev \in Nat /\ w.rev <= clock'
  <2>1. IInv'
    BY DEF ReadIInv
  <2>2. clock' \in Nat /\ compactRev' \in Nat /\ \A w \in written' : w.rev \in Nat
    BY <2>1, StoreAssumption, SMTT(60) DEF IInv, TypeOK, Revision, Target, Row
  <2> QED BY <2>1, <2>2 DEF IInv, RevisionBounds
<1>3. \A w \in written' : w \notin written => clock < w.rev
  <2>1. \A w \in written' : w \notin written => w.rev > clock
    BY DEF StoreMoves
  <2> QED BY <1>1, <1>2, <2>1, SMTT(60)
<1> QED BY <1>1, <1>2, <1>3 DEF Moves, StoreMoves

\* A call in progress and its types.
LEMMA CallFields ==
    ASSUME ServerIInv, NEW c \in Reader
    PROVE  /\ call[c] \in CallState /\ reader[c] \in ReadState
           /\ CallOK(call[c], reader[c], written, clock, compactRev)
           /\ call[c].start \in Nat /\ call[c].decided \in Nat /\ call[c].modRev \in Nat
           /\ call[c].start <= clock /\ call[c].decided <= clock /\ call[c].modRev <= clock
           /\ call[c].pc # "idle" => call[c].req \in ServerRequest
<1>1. call[c] \in CallState /\ reader[c] \in ReadState
  BY StoreTypes DEF ServerIInv, CallTypes
<1>2. CallOK(call[c], reader[c], written, clock, compactRev)
  BY DEF ServerIInv
<1>3. call[c].start \in Nat /\ call[c].decided \in Nat /\ call[c].modRev \in Nat
  BY <1>1, StoreAssumption, SMTT(60) DEF CallState, Revision
<1> QED BY <1>1, <1>2, <1>3 DEF CallOK, AtOps

\* The operation a call is at.
LEMMA OpFields ==
    ASSUME NEW x \in CallState, x.ops # <<>>
    PROVE  /\ Op(x) \in RequestOp /\ Op(x) \in ServerOp /\ Tail(x.ops) \in Seq(RequestOp)
           /\ Op(x).type \in {"put", "delete", "range"} /\ Op(x).range \in KeyRange
           /\ Op(x).value \in Value /\ Op(x).lease \in LeaseOrNone /\ Op(x).revision \in Revision
           /\ Op(x).limit \in Nat
           /\ Op(x).type = "put" => SingleKey(Op(x))
<1>1. x.ops \in Seq(RequestOp)
  BY SMTT(60) DEF CallState
<1>2. Op(x) \in RequestOp /\ Tail(x.ops) \in Seq(RequestOp)
  BY <1>1, SMTT(60) DEF Op
<1>3. Op(x) \in ServerOp
  <2>1. PICK q \in ServerRequest : Op(x) \in OpsOf(q)
    BY <1>2 DEF RequestOp
  <2>2. \/ \E i \in DOMAIN q.success : Op(x) = q.success[i]
        \/ \E i \in DOMAIN q.failure : Op(x) = q.failure[i]
    BY <2>1 DEF OpsOf
  <2>3. q.success \in Seq(ServerOp) /\ q.failure \in Seq(ServerOp)
    BY ServerAssumption
  <2> QED BY <2>2, <2>3, SMTT(60)
<1> QED BY <1>2, <1>3, SMTT(60) DEF ServerOp, SingleKey

\* A step of call c, or of its read, or of both.
LEMMA CallKeeps ==
    ASSUME ServerIInv, ReadIInv', StoreMoves, NEW c \in Reader, NEW new \in CallState,
           call' = [call EXCEPT ![c] = new], \A d \in Reader : d # c => reader'[d] = reader[d],
           CallOK(new, reader'[c], written', clock', compactRev')
    PROVE  ServerIInv'
<1>1. CallTypes' /\ call'[c] = new /\ \A d \in Reader : d # c => call'[d] = call[d]
  BY SMTT(60) DEF ServerIInv, CallTypes
<1>2. Moves(written, clock, compactRev, written', clock', compactRev')
  BY StoreMovesOn DEF ServerIInv
<1>3. ASSUME NEW d \in Reader, d # c
      PROVE  CallOK(call'[d], reader'[d], written', clock', compactRev')
  <2>1. CallOK(call[d], reader[d], written', clock', compactRev')
    BY <1>2, CallFields, CallMoves
  <2> QED BY <1>1, <1>3, <2>1
<1> QED BY <1>1, <1>3 DEF ServerIInv

\* A step of the store that no call takes.
LEMMA StorePreservesCalls ==
    ASSUME ServerIInv, IInv', StoreMoves, UNCHANGED <<reader, call>>
    PROVE  ServerIInv'
<1>1. ReadIInv'
  BY StorePreserves DEF ServerIInv
<1>2. Moves(written, clock, compactRev, written', clock', compactRev')
  BY <1>1, StoreMovesOn DEF ServerIInv
<1>3. ASSUME NEW d \in Reader
      PROVE  CallOK(call[d], reader[d], written', clock', compactRev')
  BY <1>2, CallFields, CallMoves
<1> QED BY <1>1, <1>3 DEF ServerIInv, CallTypes

\* A step of a read of a call.
LEMMA ReadKeeps ==
    ASSUME ServerIInv, ReadIInv', UNCHANGED vars, UNCHANGED call, NEW c \in Reader,
           \A d \in Reader : d # c => reader'[d] = reader[d],
           ReadsOn(call[c], reader'[c], written, clock)
    PROVE  ServerIInv'
<1>1. written' = written /\ clock' = clock /\ compactRev' = compactRev /\ call' = call
  BY DEF vars
<1>2. CallOK(call[c], reader'[c], written, clock, compactRev)
  BY CallFields DEF CallOK
<1>3. ASSUME NEW d \in Reader PROVE CallOK(call[d], reader'[d], written, clock, compactRev)
  BY <1>2 DEF ServerIInv
<1> QED BY <1>1, <1>3 DEF ServerIInv, CallTypes

\* A step of call c that is not a read, and does not go on comparing.
LEMMA Advance ==
    ASSUME ServerIInv, ReadIInv', StoreMoves, NEW c \in Reader, NEW new \in CallState,
           call' = [call EXCEPT ![c] = new], \A d \in Reader : d # c => reader'[d] = reader[d],
           reader'[c].pc = "idle", reader'[c].rows = {}, new.pc # "compare",
           AtOps(new, clock'), PutOn(new, written', clock'), KeepOn(new, written'),
           EachOn(new, written', clock', compactRev'), Chosen(new, written'),
           DoneOn(new, written', clock', compactRev')
    PROVE  ServerIInv'
<1>1. ReadsOn(new, reader'[c], written', clock')
  BY DEF ReadsOn
<1>2. Comparing(new, written', clock')
  BY DEF Comparing
<1>3. CallOK(new, reader'[c], written', clock', compactRev')
  BY <1>1, <1>2 DEF CallOK
<1> QED BY <1>3, CallKeeps

\* The branch stays chosen.
LEMMA ChosenKept ==
    ASSUME ServerIInv, ReadIInv', StoreMoves, NEW c \in Reader,
           call[c].pc \in {"op", "get", "update", "each", "answered"}, NEW new,
           new.req = call[c].req, new.start = call[c].start, new.decided = call[c].decided,
           new.succeeded = call[c].succeeded
    PROVE  Chosen(new, written')
<1>1. Moves(written, clock, compactRev, written', clock', compactRev')
  BY StoreMovesOn DEF ServerIInv
<1>2. Chosen(call[c], written')
  BY <1>1, CallFields, CompareMoves DEF CallOK
<1> QED BY <1>2 DEF Chosen

\* What is done stays done.
LEMMA DoneKept ==
    ASSUME ServerIInv, ReadIInv', StoreMoves, NEW c \in Reader, NEW new,
           new.req = call[c].req, new.start = call[c].start, new.done = call[c].done
    PROVE  DoneOn(new, written', clock', compactRev')
<1>1. Moves(written, clock, compactRev, written', clock', compactRev')
  BY StoreMovesOn DEF ServerIInv
<1> QED BY <1>1, CallFields, DoneOnMoves DEF CallOK

\* A step of a call that writes nothing is no step of the store.
LEMMA Still ==
    ASSUME ReadIInv, UNCHANGED vars
    PROVE  /\ StoreMoves /\ IInv'
           /\ written' = written /\ clock' = clock /\ compactRev' = compactRev
<1>1. IInv
  BY DEF ReadIInv
<1> QED BY <1>1, HistoryGrows, NextIInv DEF vars

\* The call fails.
LEMMA FailKeeps ==
    ASSUME ServerIInv, ReadIInv', UNCHANGED vars, NEW c \in Reader, call[c].pc # "idle", Fail(c),
           \A d \in Reader : d # c => reader'[d] = reader[d], reader'[c].pc = "idle", reader'[c].rows = {}
    PROVE  ServerIInv'
<1> DEFINE new == [call[c] EXCEPT !.pc = "failed"]
<1>1. /\ new \in CallState /\ call' = [call EXCEPT ![c] = new] /\ new.pc = "failed"
      /\ new.req = call[c].req /\ new.start = call[c].start /\ new.done = call[c].done
      /\ new.decided = call[c].decided /\ new.modRev = call[c].modRev
  <2>1. call[c] \in CallState
    BY CallFields
  <2>2. call' = [call EXCEPT ![c] = new]
    BY DEF Fail, Set
  <2>3. /\ new \in CallState /\ new.pc = "failed"
        /\ new.req = call[c].req /\ new.start = call[c].start /\ new.done = call[c].done
        /\ new.decided = call[c].decided /\ new.modRev = call[c].modRev
    <3>1. new \in CallState
      BY <2>1 DEF CallState
    <3>2. /\ new.pc = "failed"
          /\ new.req = call[c].req /\ new.start = call[c].start /\ new.done = call[c].done
          /\ new.decided = call[c].decided /\ new.modRev = call[c].modRev
      BY <2>1, SMTT(60) DEF CallState
    <3> QED BY <3>1, <3>2
  <2> QED BY <2>2, <2>3
<1> HIDE DEF new
<1>2. ReadIInv
  BY DEF ServerIInv
<1>3. StoreMoves /\ clock' = clock
  BY <1>2, Still
<1>4. DoneOn(new, written', clock', compactRev')
  BY <1>1, <1>3, DoneKept
<1>5. AtOps(new, clock')
  BY <1>1, <1>3, CallFields DEF AtOps
<1>6. PutOn(new, written', clock') /\ KeepOn(new, written') /\ EachOn(new, written', clock', compactRev')
  BY <1>1 DEF PutOn, KeepOn, EachOn
<1>7. Chosen(new, written') /\ new.pc # "compare"
  BY <1>1, SMTT(60) DEF Chosen
<1> QED BY <1>1, <1>3, <1>4, <1>5, <1>6, <1>7, Advance

\* The rows recorded of a finished operation.
EntryRows(c) == IF Op(call[c]).countOnly THEN reader[c].rows ELSE Taken(c, reader[c].rows)

\* What is recorded of a finished operation.
Entry(c, rev, applied) ==
    [op |-> Op(call[c]), rev |-> rev, applied |-> applied,
     rows |-> EntryRows(c), at |-> Max2(clock, rev)]

\* Its fields.
LEMMA EntryFields ==
    ASSUME NEW c \in Reader, NEW rev \in Revision, NEW applied \in BOOLEAN
    PROVE  /\ Entry(c, rev, applied).op = Op(call[c])
           /\ Entry(c, rev, applied).rev = rev
           /\ Entry(c, rev, applied).applied = applied
           /\ Entry(c, rev, applied).at = Max2(clock, rev)
           /\ Entry(c, rev, applied).rows = EntryRows(c)
BY SMTT(60) DEF Entry

\* The later of two revisions.
LEMMA LaterBound ==
    ASSUME NEW a \in Nat, NEW b \in Revision, NEW n \in Nat, a <= n, b <= n
    PROVE  Max2(a, b) <= n
BY StoreAssumption, SMTT(60) DEF Max2, Revision

\* What a call has done, with one more operation.
LEMMA DoneAppended ==
    ASSUME NEW x \in CallState, NEW d \in DoneState, NEW i \in DOMAIN Append(x.done, d)
    PROVE  \/ i \in DOMAIN x.done /\ Append(x.done, d)[i] = x.done[i]
           \/ Append(x.done, d)[i] = d
<1>1. x.done \in Seq(DoneState)
  BY SMTT(60) DEF CallState
<1> QED BY <1>1, SMTT(60)

\* The call when an operation is finished.
LEMMA FinishFields ==
    ASSUME ServerIInv, NEW c \in Reader, call[c].ops # <<>>, NEW rev \in Revision,
           NEW applied \in BOOLEAN, Finish(c, rev, applied)
    PROVE  /\ Entry(c, rev, applied) \in DoneState
           /\ \E new \in CallState :
                /\ call' = [call EXCEPT ![c] = new] /\ new.pc \in {"answered", "op"}
                /\ new.req = call[c].req /\ new.start = call[c].start
                /\ new.decided = call[c].decided /\ new.succeeded = call[c].succeeded
                /\ new.modRev = 0 /\ new.done = Append(call[c].done, Entry(c, rev, applied))
<1>1. ReadIInv
  BY DEF ServerIInv
<1>2. call[c] \in CallState /\ clock \in Revision /\ reader[c].rows \subseteq Row
  BY <1>1, CallFields, StoreTypes
<1>3. Op(call[c]) \in RequestOp /\ Tail(call[c].ops) \in Seq(RequestOp)
  BY <1>2, OpFields
<1>4. Max2(clock, rev) \in Revision
  BY <1>2, SMTT(60) DEF Max2
<1>5. Taken(c, reader[c].rows) \subseteq Row
  BY <1>2 DEF Taken
<1>6. Entry(c, rev, applied) \in DoneState
  BY <1>2, <1>3, <1>4, <1>5, SMTT(60) DEF Entry, EntryRows, DoneState
<1>7. 0 \in Revision
  BY StoreAssumption, SMTT(60) DEF Revision
<1> DEFINE next == IF Len(call[c].ops) = 1 THEN "answered" ELSE "op"
           ops == Tail(call[c].ops)
           done == Append(call[c].done, Entry(c, rev, applied))
           new == [call[c] EXCEPT !.pc = next, !.ops = ops, !.todo = {}, !.modRev = 0, !.done = done]
<1>8. call' = [call EXCEPT ![c] = new]
  BY DEF Finish, Set, Entry, EntryRows, Op
<1>9. /\ new \in CallState /\ new.pc \in {"answered", "op"}
      /\ new.req = call[c].req /\ new.start = call[c].start
      /\ new.decided = call[c].decided /\ new.succeeded = call[c].succeeded
      /\ new.modRev = 0 /\ new.done = Append(call[c].done, Entry(c, rev, applied))
  <2>1. next \in {"answered", "op"} /\ ops \in Seq(RequestOp)
    BY <1>3
  <2>2. done \in Seq(DoneState)
    <3>1. call[c].done \in Seq(DoneState)
      BY <1>2, SMTT(60) DEF CallState
    <3> QED BY <1>6, <3>1, SMTT(60)
  <2> HIDE DEF next, ops, done
  <2>3. new \in CallState
    BY <1>2, <1>7, <2>1, <2>2 DEF CallState
  <2>4. /\ new.pc = next /\ new.req = call[c].req /\ new.start = call[c].start
        /\ new.decided = call[c].decided /\ new.succeeded = call[c].succeeded
        /\ new.modRev = 0 /\ new.done = done
    BY <1>2, SMTT(60) DEF CallState
  <2> QED BY <2>1, <2>3, <2>4 DEF done
<1> HIDE DEF new
<1> QED BY <1>6, <1>8, <1>9

\* An operation is finished, whichever it is.
LEMMA FinishKeeps ==
    ASSUME ServerIInv, ReadIInv', StoreMoves, NEW c \in Reader,
           call[c].pc \in {"op", "update", "each"}, call[c].ops # <<>>,
           NEW rev \in Revision, rev <= clock', NEW applied \in BOOLEAN, Finish(c, rev, applied),
           \A d \in Reader : d # c => reader'[d] = reader[d], reader'[c].pc = "idle", reader'[c].rows = {},
           \A r \in reader[c].rows : r.key \in Listed(Op(call[c]).range),
           Op(call[c]).type = "put" /\ ~applied =>
              Between(written', TheKey(Op(call[c])), call[c].start, Max2(clock, rev)),
           Op(call[c]).type = "put" /\ applied /\ IsTxn(call[c]) => Kept(Entry(c, rev, applied), written'),
           Op(call[c]).type = "delete" /\ IsTxn(call[c]) /\ Reaches(Op(call[c]).range) =>
              AllGone(Op(call[c]).range, {}, call[c].start, written', Max2(clock, rev), compactRev')
    PROVE  ServerIInv'
<1> DEFINE d == Entry(c, rev, applied)
<1>1. Moves(written, clock, compactRev, written', clock', compactRev')
  BY StoreMovesOn DEF ServerIInv
<1>2. /\ d.op = Op(call[c]) /\ d.rev = rev /\ d.applied = applied /\ d.at = Max2(clock, rev)
      /\ d.rows = EntryRows(c)
  BY EntryFields, SMTT(60)
<1>3. d \in DoneState
  BY FinishFields
<1>4. d.at <= clock'
  <2>1. clock \in Nat /\ clock' \in Nat /\ clock <= clock'
    BY <1>1 DEF Moves
  <2> QED BY <1>2, <2>1, LaterBound
<1>5. IsTxn(call[c]) /\ ~d.op.countOnly => \A r \in d.rows : InRange(d.op.range, r.key)
  <2> SUFFICES ASSUME IsTxn(call[c]), ~Op(call[c]).countOnly, NEW r \in Taken(c, reader[c].rows)
               PROVE  InRange(Op(call[c]).range, r.key)
    BY <1>2 DEF EntryRows
  <2>1. r \in reader[c].rows /\ BelowEnd(Op(call[c]).range, r.key)
    BY DEF Taken, IsTxn, Op
  <2> QED BY <2>1, TakenInRange
<1> HIDE DEF d
<1>6. DoneOK(call[c].start, IsTxn(call[c]), d, written', clock', compactRev')
  BY <1>2, <1>4, <1>5 DEF DoneOK, d
<1>7. PICK new \in CallState :
        /\ call' = [call EXCEPT ![c] = new] /\ new.pc \in {"answered", "op"}
        /\ new.req = call[c].req /\ new.start = call[c].start
        /\ new.decided = call[c].decided /\ new.succeeded = call[c].succeeded
        /\ new.modRev = 0 /\ new.done = Append(call[c].done, d)
  BY FinishFields DEF d
<1>8. DoneOn(new, written', clock', compactRev')
  <2>1. DoneOn(call[c], written', clock', compactRev')
    BY DoneKept
  <2>2. ASSUME NEW i \in DOMAIN new.done
        PROVE  DoneOK(call[c].start, IsTxn(call[c]), new.done[i], written', clock', compactRev')
    <3>1. call[c] \in CallState
      BY CallFields
    <3>2. (i \in DOMAIN call[c].done /\ new.done[i] = call[c].done[i]) \/ new.done[i] = d
      <4>1. i \in DOMAIN Append(call[c].done, d) /\ new.done[i] = Append(call[c].done, d)[i]
        BY <1>7, <2>2
      <4> QED BY <1>3, <3>1, <4>1, DoneAppended
    <3> QED BY <1>6, <2>1, <3>2 DEF DoneOn
  <2>3. IsTxn(new) = IsTxn(call[c])
    BY <1>7 DEF IsTxn
  <2> QED BY <1>7, <2>2, <2>3 DEF DoneOn
<1>9. AtOps(new, clock')
  <2>1. call[c].start <= clock' /\ call[c].decided <= clock' /\ 0 <= clock'
    <3>1. /\ call[c].start \in Nat /\ call[c].decided \in Nat
          /\ call[c].start <= clock /\ call[c].decided <= clock
      BY CallFields
    <3>2. clock \in Nat /\ clock' \in Nat /\ clock <= clock'
      BY <1>1 DEF Moves
    <3> QED BY <3>1, <3>2, SMTT(60)
  <2>2. new.req \in ServerRequest
    BY <1>7, CallFields
  <2> QED BY <1>7, <2>1, <2>2 DEF AtOps
<1>10. Chosen(new, written')
  BY <1>7, ChosenKept
<1>11. /\ PutOn(new, written', clock') /\ KeepOn(new, written') /\ new.pc # "compare"
       /\ EachOn(new, written', clock', compactRev')
  BY <1>7 DEF PutOn, KeepOn, EachOn
<1> QED BY <1>7, <1>8, <1>9, <1>10, <1>11, Advance

-----------------------------------------------------------------------------
(* A step of the service is at most one transaction. *)

\* The key of a put.
LEMMA PutKey ==
    ASSUME ServerIInv, NEW c \in Reader, call[c].ops # <<>>, Op(call[c]).type = "put"
    PROVE  /\ TheKey(Op(call[c])) \in Key /\ Listed(Op(call[c]).range) = {TheKey(Op(call[c]))}
           /\ Op(call[c]).value \in Value /\ Op(call[c]).lease \in LeaseOrNone
<1>1. call[c] \in CallState
  BY CallFields
<1>2. /\ Op(call[c]) \in ServerOp /\ SingleKey(Op(call[c]))
      /\ Op(call[c]).value \in Value /\ Op(call[c]).lease \in LeaseOrNone
  BY <1>1, OpFields
<1>3. Op(call[c]).type # "range"
  BY SMTT(60)
<1> QED BY <1>2, <1>3, OneKey

\* The table commits once or is left as it is, but for compaction.
CommitsOrKeeps ==
    \/ \E rows : ValidInsert(rows) /\ Commit(rows)
    \/ written' = written /\ clock' = clock

\* A compare-and-set with what the call carries commits one row.
LEMMA UpdateCommits ==
    ASSUME IInv, NEW k \in Key, NEW v \in Value \cup {NoValue}, NEW l \in LeaseOrNone,
           NEW rev, Update(k, v, rev, l)
    PROVE  CommitsOrKeeps
<1>1. PICK prev \in getLatestTxn(k) : Commit({UpdatedRow(prev, v, l)})
  BY DEF Update
<1>2. clock < MaxRev
  BY <1>1 DEF Commit
<1>3. ValidRow(UpdatedRow(prev, v, l)) /\ UpdatedRow(prev, v, l).key = k
  BY <1>2, UpdatedRowValid, SMTT(60)
<1>4. ValidInsert({UpdatedRow(prev, v, l)})
  BY <1>3 DEF ValidInsert
<1> QED BY <1>1, <1>4 DEF CommitsOrKeeps

\* A step of a call is at most one transaction.
LEMMA CallStepCommits ==
    ASSUME ServerIInv, NEW c \in Reader, CallStep(c)
    PROVE  CommitsOrKeeps
<1>1. IInv /\ 0 \in Revision
  BY StoreAssumption, SMTT(60) DEF ServerIInv, ReadIInv, Revision
<1>2. UNCHANGED vars => CommitsOrKeeps
  BY DEF CommitsOrKeeps, vars
<1>3. WriteStep => CommitsOrKeeps
  BY <1>1, WriteCommits DEF CommitsOrKeeps
<1>4. CASE PutCreate(c)
  <2> DEFINE op == Op(call[c])
  <2>1. call[c] \in CallState /\ call[c].ops # <<>> /\ op.type = "put"
    BY <1>4, CallFields DEF PutCreate, AtOp, Op
  <2>2. TheKey(op) \in Key /\ op.value \in Value /\ op.lease \in LeaseOrNone
    BY <2>1, PutKey
  <2>3. UNCHANGED vars \/ Create(TheKey(op), op.value, op.lease)
    BY <1>4 DEF PutCreate, Op
  <2> HIDE DEF op
  <2> QED BY <1>2, <1>3, <2>2, <2>3 DEF WriteStep
<1>5. CASE PutUpdate(c)
  <2> DEFINE x == call[c]
             op == Op(x)
  <2>1. x \in CallState /\ x.ops # <<>> /\ op.type = "put" /\ Update(TheKey(op), x.value, x.modRev, x.lease)
    BY <1>5, CallFields DEF PutUpdate, CallOK, AtOps, Op
  <2>2. TheKey(op) \in Key
    BY <2>1, PutKey
  <2>3. x.value \in Value \cup {NoValue} /\ x.lease \in LeaseOrNone
    BY <2>1, SMTT(60) DEF CallState
  <2> HIDE DEF op, x
  <2> QED BY <1>1, <2>1, <2>2, <2>3, UpdateCommits, SMTT(60)
<1>6. CASE DeleteKey(c)
  <2> DEFINE op == Op(call[c])
  <2>1. call[c] \in CallState /\ call[c].ops # <<>> /\ op.type = "delete" /\ SingleKey(op)
    BY <1>6, CallFields DEF DeleteKey, AtOp, Op
  <2>2. op \in ServerOp /\ op.type # "range"
    BY <2>1, OpFields, SMTT(60)
  <2>3. TheKey(op) \in Key
    BY <2>1, <2>2, OneKey
  <2>4. UNCHANGED vars \/ Delete(TheKey(op), 0)
    BY <1>6 DEF DeleteKey, Op
  <2> HIDE DEF op
  <2> QED BY <1>1, <1>2, <1>3, <2>3, <2>4 DEF WriteStep
<1>7. CASE DeleteEach(c)
  <2>1. PICK k \in call[c].todo : UNCHANGED vars \/ Delete(k, 0)
    BY <1>7 DEF DeleteEach
  <2>2. call[c] \in CallState
    BY CallFields
  <2>3. k \in Key
    BY <2>1, <2>2, SMTT(60) DEF CallState
  <2> QED BY <1>1, <1>2, <1>3, <2>1, <2>3 DEF WriteStep
<1>8. CASE \/ \E q \in ServerRequest : StartCall(c, q)
           \/ CompareAsk(c) \/ CompareRead(c) \/ CompareHolds(c) \/ NoOps(c)
  BY <1>2, <1>8 DEF StartCall, CompareAsk, CompareRead, CompareHolds, NoOps, Ask, Answered, Get, List,
                    Count, Begin
<1>9. CASE PutAsk(c) \/ PutRead(c) \/ IgnoreAsk(c) \/ IgnoreRead(c) \/ PutMismatch(c)
  BY <1>2, <1>9 DEF PutAsk, PutRead, IgnoreAsk, IgnoreRead, PutMismatch, Ask, Answered, Get, List,
                    Count, Begin
<1>10. CASE DeleteAsk(c) \/ DeleteRead(c) \/ DeleteDone(c) \/ RangeAsk(c) \/ RangeRead(c)
  BY <1>2, <1>10 DEF DeleteAsk, DeleteRead, DeleteDone, RangeAsk, RangeRead, Ask, Answered, Get, List,
                     Count, Begin
<1>11. CASE ReadGoesOn(c) \/ ReadFails(c) \/ ReadCompacted(c) \/ StoreError(c)
  BY <1>2, <1>11 DEF ReadGoesOn, ReadFails, ReadCompacted, StoreError, CheckCompacted, Query, ReadError
<1> QED BY <1>4, <1>5, <1>6, <1>7, <1>8, <1>9, <1>10, <1>11 DEF CallStep

\* So is every step.
LEMMA ServerNextCommits ==
    ASSUME ServerIInv, [ServerNext]_serverVars
    PROVE  CommitsOrKeeps
<1>1. IInv
  BY DEF ServerIInv, ReadIInv
<1>2. CASE Background
  <2>1. CASE \E t \in TxnRequest : AtomicTxn(t)
    BY <1>1, <2>1, WriteCommits DEF WriteStep, CommitsOrKeeps
  <2>2. CASE \E k \in Key, l \in Lease : DeleteIfLease(k, l)
    BY <1>1, <2>2, WriteCommits DEF WriteStep, LeaseOrNone, CommitsOrKeeps
  <2>3. CASE HorizonRises \/ RowCompacted
    BY <2>3 DEF HorizonRises, RowCompacted, CommitsOrKeeps
  <2> QED BY <1>2, <2>1, <2>2, <2>3 DEF Background
<1>3. CASE \E c \in Reader : CallStep(c)
  BY <1>3, CallStepCommits
<1>4. CASE UNCHANGED serverVars
  BY <1>4 DEF serverVars, vars, CommitsOrKeeps
<1> QED BY <1>2, <1>3, <1>4 DEF ServerNext

-----------------------------------------------------------------------------
(* The reads of a call. *)

\* The requests calls make are requests.
LEMMA ReadOfType ==
    ASSUME NEW op \in {"get", "list"}, NEW keys \in SUBSET Key
    PROVE  /\ ReadOf(op, keys) \in Request /\ ReadOf(op, keys).op = op /\ ReadOf(op, keys).keys = keys
           /\ ReadOf(op, keys).limit = 0 /\ ReadOf(op, keys).revision = 0
<1>1. 0 \in Revision
  BY StoreAssumption, SMTT(60) DEF Revision
<1> QED BY <1>1, SMTT(60) DEF ReadOf, Request

\* What is listed are keys.
LEMMA ListedKeys ==
    ASSUME NEW q
    PROVE  Listed(q) \in SUBSET Key
BY ServerAssumption DEF Listed

\* A call calls Get, List or Count.
LEMMA AskKeeps ==
    ASSUME ServerIInv, NEW c \in Reader, NEW req \in Request, Ask(c, req), Asks(call[c], req)
    PROVE  ServerIInv'
<1>1. Get(c, req) \/ List(c, req) \/ Count(c, req)
  BY DEF Ask
<1>2. ReadIInv
  BY DEF ServerIInv
<1>3. /\ ReadIInv' /\ OnlyReader(c)
      /\ reader'[c].pc \in {"check", "query"} /\ reader'[c].req = req
      /\ reader'[c].currentRev = clock /\ reader'[c].rows = {}
  BY <1>1, <1>2, ReadBegins
<1>4. ASSUME NEW w \in written PROVE HeldIn(written, w.key, clock) # {}
  <2>1. PICK m \in written : m.key = w.key /\ \A s \in written : s.key = w.key => s.rev <= m.rev
    BY <1>2 DEF ReadIInv, IInv, RevisionBounds
  <2>2. m.rev <= clock
    BY <1>2, StoreTypes
  <2>3. m \in HeldIn(written, w.key, clock)
    BY <2>1, <2>2 DEF HeldIn
  <2> QED BY <2>3
<1>5. call[c].start <= clock /\ clock <= clock
  <2>1. call[c].start <= clock /\ clock \in Nat
    BY <1>2, CallFields, StoreTypes
  <2> QED BY <2>1, SMTT(60)
<1>6. reader'[c].pc # "answered"
  BY <1>3
<1>7. ReadsOn(call[c], reader'[c], written, clock)
  BY <1>3, <1>4, <1>5, <1>6 DEF ReadsOn
<1>8. UNCHANGED call
  BY DEF Ask
<1> QED BY <1>3, <1>7, <1>8, ReadKeeps DEF OnlyReader

\* What is read are live rows of the keys asked for.
LEMMA AnswerRows ==
    ASSUME NEW rd, rd.req.limit \in Nat, rd.req.op \in {"get", "list", "count"}, NEW rows \in Answers(rd)
    PROVE  \A r \in rows : r \in kv /\ r.key \in rd.req.keys /\ ~r.deleted
<1>1. rows \subseteq LiveAt(rd.req.keys, Cap(rd))
  <2>1. CASE rd.req.op \in {"get", "count"}
    <3>1. Answers(rd) = {LiveAt(rd.req.keys, Cap(rd))}
      BY <2>1, SMTT(60) DEF Answers
    <3> QED BY <3>1
  <2>2. CASE rd.req.op = "list"
    <3>1. Answers(rd) = LimitedTo("list", rd.req.limit, LiveAt(rd.req.keys, Cap(rd)))
      BY <2>2, SMTT(60) DEF Answers
    <3>2. rows \in LimitedTo("list", rd.req.limit, LiveAt(rd.req.keys, Cap(rd)))
      BY <3>1
    <3> QED BY <3>2, LimitKeeps, SMTT(60)
  <2>3. rd.req.op \in {"get", "count"} \/ rd.req.op = "list"
    OBVIOUS
  <2> QED BY <2>1, <2>2, <2>3
<1> QED BY <1>1 DEF LiveAt

\* A read of a call goes on.
LEMMA ReadGoesOnKeeps ==
    ASSUME ServerIInv, NEW c \in Reader, ReadGoesOn(c)
    PROVE  ServerIInv'
<1> DEFINE rd == reader[c]
<1>1. ReadIInv /\ ReadsOn(call[c], rd, written, clock) /\ rd \in ReadState
  BY CallFields DEF ServerIInv, CallOK
<1>2. UNCHANGED call /\ (CheckCompacted(c) \/ Query(c))
  BY DEF ReadGoesOn
<1>3. /\ ReadIInv' /\ OnlyReader(c)
      /\ rd.pc \in {"check", "query"} /\ reader'[c].pc # "idle"
      /\ reader'[c].req = rd.req /\ reader'[c].currentRev = rd.currentRev
      /\ reader'[c].pc # "answered" => reader'[c].rows = rd.rows
      /\ reader'[c].pc = "answered" => reader'[c].rows \in Answers(rd) /\ reader'[c].asOf = clock
  BY <1>1, <1>2, ReadAdvances
<1>4. rd.pc # "idle" /\ rd.pc # "answered"
  BY <1>3
<1>5. /\ Asks(call[c], rd.req) /\ call[c].start <= rd.currentRev /\ rd.currentRev <= clock
      /\ rd.rows = {}
      /\ \A w \in written : w.rev <= rd.currentRev => HeldIn(written, w.key, rd.currentRev) # {}
  BY <1>1, <1>4 DEF ReadsOn
<1>6. rd.req.op \in {"get", "list", "count"} /\ rd.req.limit \in Nat
  <2>1. rd.req \in Request
    BY <1>1, SMTT(60) DEF ReadState
  <2>2. rd.req.op # "after"
    <3>1. \A keys : ReadOf("get", keys).op # "after" /\ ReadOf("list", keys).op # "after"
      BY SMTT(60) DEF ReadOf
    <3> QED BY <1>5, <3>1 DEF Asks
  <2> QED BY <2>1, <2>2, SMTT(60) DEF Request
<1>7. \A r \in reader'[c].rows : r \in written /\ r.key \in rd.req.keys /\ ~r.deleted
  <2>1. CASE reader'[c].pc # "answered"
    BY <1>3, <1>5, <2>1
  <2>2. CASE reader'[c].pc = "answered"
    <3>1. \A r \in reader'[c].rows : r \in kv /\ r.key \in rd.req.keys /\ ~r.deleted
      BY <1>3, <1>6, <2>2, AnswerRows
    <3>2. kv \subseteq written
      BY <1>1, StoreTypes
    <3> QED BY <3>1, <3>2
  <2> QED BY <2>1, <2>2
<1>8. ReadsOn(call[c], reader'[c], written, clock)
  BY <1>3, <1>5, <1>7 DEF ReadsOn
<1> QED BY <1>2, <1>3, <1>8, ReadKeeps DEF OnlyReader

\* A call that reads has begun.
LEMMA ReadingCall ==
    ASSUME ServerIInv, NEW c \in Reader, reader[c].pc # "idle"
    PROVE  Asks(call[c], reader[c].req) /\ call[c].pc # "idle"
<1>1. Asks(call[c], reader[c].req)
  BY CallFields DEF CallOK, ReadsOn
<1> QED BY <1>1 DEF Asks

\* A read of a call fails, or is of a compacted revision.
LEMMA ReadFailsKeeps ==
    ASSUME ServerIInv, NEW c \in Reader, ReadFails(c) \/ ReadCompacted(c)
    PROVE  ServerIInv'
<1>1. /\ reader[c].pc # "idle" /\ reader' = [reader EXCEPT ![c] = NoRead] /\ UNCHANGED vars
      /\ Fail(c)
  BY DEF ReadFails, ReadError, ReadCompacted
<1>2. ReadIInv
  BY DEF ServerIInv
<1>3. ReadIInv' /\ OnlyReader(c) /\ reader'[c].pc = "idle" /\ reader'[c].rows = {}
  BY <1>1, <1>2, ReadEnds
<1> QED BY <1>1, <1>3, ReadingCall, FailKeeps DEF OnlyReader

\* The answer to a read of the current revision, for a key whose row has not
\* been compacted.
LEMMA AnswerExact ==
    ASSUME ServerIInv, NEW c \in Reader, reader[c].pc = "answered",
           NEW op \in {"get", "list"}, NEW keys \in SUBSET Key, reader[c].req = ReadOf(op, keys),
           NEW w \in written, w.key \in keys, w \in HeldIn(written, w.key, reader[c].currentRev),
           w.rev > compactRev \/ NewestIn(written, w)
    PROVE  {s \in reader[c].rows : s.key = w.key} = IF w.deleted THEN {} ELSE {w}
<1> DEFINE rd == reader[c]
<1>1. /\ rd.req.op \in {"get", "list"} /\ rd.req.keys = keys /\ rd.req.limit = 0
      /\ rd.req.revision = 0
  BY ReadOfType, SMTT(60)
<1>2. Cap(rd) = rd.currentRev
  BY <1>1, SMTT(60) DEF Cap, revCap
<1>3. rd.currentRev <= rd.asOf /\ rd.currentRev \in Nat /\ rd.asOf \in Nat
  <2>1. rd.currentRev <= rd.asOf
    BY CallFields DEF CallOK, ReadsOn
  <2>2. rd \in ReadState
    BY CallFields
  <2> QED BY <2>1, <2>2, StoreAssumption, SMTT(60) DEF ReadState, Revision
<1>4. SnapshotRead(rd) /\ Covered(rd, w.key)
  BY <1>1 DEF SnapshotRead, Covered
<1>5. w.rev <= rd.currentRev /\ \A s \in written : s.key = w.key /\ s.rev <= rd.currentRev => s.rev <= w.rev
  BY DEF HeldIn
<1>6. Visible(rd, w)
  <2>1. w.rev \in Nat
    BY StoreTypes DEF ServerIInv
  <2>2. w.rev <= rd.asOf
    BY <1>3, <1>5, <2>1, SMTT(60)
  <2> QED BY <1>2, <1>5, <2>2 DEF Visible
<1>7. w.rev > compactRev \/ NewestEver(w)
  BY DEF NewestIn, NewestEver
<1>8. SnapshotExact
  BY DEF ServerIInv, ReadIInv
<1> QED BY <1>1, <1>4, <1>6, <1>7, <1>8 DEF SnapshotExact

\* A Get of a key nobody has written since the call began returns what the key
\* held then.
LEMMA GetExact ==
    ASSUME ServerIInv, NEW c \in Reader, reader[c].pc = "answered", NEW k \in Key,
           reader[c].req = ReadOf("get", {k}), ~Between(written, k, call[c].start, clock)
    PROVE  /\ reader[c].rows = {w \in HeldIn(written, k, call[c].start) : ~w.deleted}
           /\ \A w \in written : w.key = k /\ NewestIn(written, w) =>
                reader[c].rows = IF w.deleted THEN {} ELSE {w}
<1> DEFINE rows == reader[c].rows
           start == call[c].start
<1>1. ReadIInv /\ start \in Nat /\ clock \in Nat /\ reader[c] \in ReadState
  BY CallFields, StoreTypes DEF ServerIInv
<1>2. /\ \A r \in rows : r \in written /\ r.key = k /\ ~r.deleted
      /\ start <= reader[c].currentRev /\ reader[c].currentRev \in Nat
  <2>1. /\ \A r \in rows : r \in written /\ r.key \in reader[c].req.keys /\ ~r.deleted
        /\ start <= reader[c].currentRev
    BY CallFields DEF CallOK, ReadsOn
  <2>2. reader[c].req.keys = {k}
    BY ReadOfType
  <2>3. reader[c].currentRev \in Nat
    BY <1>1, StoreAssumption, SMTT(60) DEF ReadState, Revision
  <2> QED BY <2>1, <2>2, <2>3
<1>3. ASSUME NEW w \in written, w.key = k PROVE w.rev <= start /\ w.rev <= reader[c].currentRev
  <2>1. w.rev \in Nat /\ w.rev <= clock
    BY <1>1, StoreTypes
  <2>2. ~(start < w.rev)
    BY <1>3, <2>1 DEF Between
  <2> QED BY <1>1, <1>2, <2>1, <2>2, SMTT(60)
<1>4. ASSUME NEW w \in written, w.key = k, NewestIn(written, w)
      PROVE  /\ rows = IF w.deleted THEN {} ELSE {w}
             /\ HeldIn(written, k, start) = {w}
  <2>1. w \in HeldIn(written, w.key, reader[c].currentRev)
    BY <1>3, <1>4 DEF HeldIn, NewestIn
  <2>2. {s \in rows : s.key = w.key} = IF w.deleted THEN {} ELSE {w}
    <3>1. "get" \in {"get", "list"} /\ {k} \in SUBSET Key /\ w.key \in {k}
      BY <1>4
    <3> QED BY <1>4, <2>1, <3>1, AnswerExact, SMTT(60)
  <2>3. {s \in rows : s.key = w.key} = rows
    BY <1>2, <1>4
  <2>4. w \in HeldIn(written, k, start)
    BY <1>3, <1>4 DEF HeldIn, NewestIn
  <2>5. ASSUME NEW s \in HeldIn(written, k, start) PROVE s = w
    <3>1. s \in written /\ s.key = k /\ w.rev <= s.rev /\ s.rev <= w.rev
      BY <1>3, <1>4, <2>4, <2>5 DEF HeldIn
    <3>2. s.rev = w.rev
      BY <1>1, <3>1, StoreTypes, SMTT(60)
    <3> QED BY <1>1, <1>4, <3>1, <3>2 DEF ReadIInv, IInv, HistoryChained
  <2> QED BY <2>2, <2>3, <2>4, <2>5
<1>5. CASE \E w \in written : w.key = k
  <2>1. PICK w \in written : w.key = k
    BY <1>5
  <2>2. PICK m \in written : m.key = w.key /\ \A s \in written : s.key = w.key => s.rev <= m.rev
    BY <1>1 DEF ReadIInv, IInv, RevisionBounds
  <2>3. m.key = k /\ NewestIn(written, m)
    BY <2>1, <2>2 DEF NewestIn
  <2>4. (rows = IF m.deleted THEN {} ELSE {m}) /\ HeldIn(written, k, start) = {m}
    BY <1>4, <2>3
  <2>5. {v \in {m} : ~v.deleted} = IF m.deleted THEN {} ELSE {m}
    OBVIOUS
  <2> QED BY <1>4, <2>4, <2>5
<1>6. CASE ~\E w \in written : w.key = k
  <2>1. rows = {}
    BY <1>2, <1>6
  <2>2. HeldIn(written, k, start) = {}
    BY <1>6 DEF HeldIn
  <2> QED BY <1>6, <2>1, <2>2
<1> QED BY <1>5, <1>6

-----------------------------------------------------------------------------
(* The start of a call and its compares. *)

\* A call that asks for nothing reads nothing.
LEMMA IdleReader ==
    ASSUME ServerIInv, NEW c \in Reader, ~Asks(call[c], reader[c].req)
    PROVE  reader[c].pc = "idle" /\ reader[c].rows = {}
<1>1. ReadsOn(call[c], reader[c], written, clock)
  BY CallFields DEF CallOK
<1>2. reader[c].pc = "idle"
  BY <1>1 DEF ReadsOn
<1> QED BY <1>1, <1>2 DEF ReadsOn

\* The compares and the operations of a request.
LEMMA RequestParts ==
    ASSUME NEW q \in ServerRequest
    PROVE  /\ q.compares \in Seq(TxnCompare)
           /\ q.success \in Seq(RequestOp) /\ q.failure \in Seq(RequestOp)
<1>1. q.compares \in Seq(TxnCompare) /\ q.success \in Seq(ServerOp) /\ q.failure \in Seq(ServerOp)
  BY ServerAssumption
<1>2. OpsOf(q) \subseteq RequestOp
  BY DEF RequestOp
<1>3. /\ \A i \in DOMAIN q.success : q.success[i] \in RequestOp
      /\ \A i \in DOMAIN q.failure : q.failure[i] \in RequestOp
  BY <1>2, SMTT(60) DEF OpsOf
<1>4. q.success \in Seq(RequestOp) /\ q.failure \in Seq(RequestOp)
  BY <1>1, <1>3, SMTT(60)
<1> QED BY <1>1, <1>4

\* A client calls.
LEMMA StartKeeps ==
    ASSUME ServerIInv, NEW c \in Reader, NEW q \in ServerRequest, StartCall(c, q)
    PROVE  ServerIInv'
<1> DEFINE new == [NoCall EXCEPT !.pc = "compare", !.req = q, !.compares = q.compares,
                                 !.start = clock, !.decided = clock]
<1>1. /\ ReadIInv /\ clock \in Revision /\ clock \in Nat
      /\ call[c].pc \in {"idle", "answered", "failed"} /\ UNCHANGED vars /\ UNCHANGED reader
  BY StoreTypes DEF ServerIInv, StartCall
<1>2. call' = [call EXCEPT ![c] = new]
  BY DEF StartCall, Set
<1>3. /\ new \in CallState /\ new.pc = "compare" /\ new.req = q /\ new.compares = q.compares
      /\ new.start = clock /\ new.decided = clock /\ new.modRev = 0 /\ new.done = <<>>
  <2>1. q.compares \in Seq(TxnCompare) /\ 0 \in Revision /\ 0 \in LeaseOrNone
    BY RequestParts, StoreAssumption, SMTT(60) DEF Revision, LeaseOrNone
  <2>2. <<>> \in Seq(TxnCompare) /\ <<>> \in Seq(RequestOp) /\ <<>> \in Seq(DoneState)
    BY SMTT(60)
  <2>3. NoCall \in CallState
    BY <2>1, <2>2, SMTT(60) DEF NoCall, CallState
  <2>4. new \in CallState
    BY <1>1, <2>1, <2>3 DEF CallState
  <2>5. /\ new.pc = "compare" /\ new.req = q /\ new.compares = q.compares
        /\ new.start = clock /\ new.decided = clock /\ new.modRev = 0 /\ new.done = <<>>
    BY SMTT(60) DEF NoCall
  <2> QED BY <2>4, <2>5
<1> HIDE DEF new
<1>4. reader[c].pc = "idle" /\ reader[c].rows = {}
  BY <1>1, IdleReader DEF Asks
<1>5. StoreMoves /\ written' = written /\ clock' = clock /\ compactRev' = compactRev
  BY <1>1, Still
<1>6. ReadIInv'
  BY <1>1, <1>5, Still, StorePreserves
<1>7. AtOps(new, clock) /\ ReadsOn(new, reader[c], written, clock)
  <2>1. clock <= clock /\ 0 <= clock
    BY <1>1, SMTT(60)
  <2>2. AtOps(new, clock)
    BY <1>3, <2>1 DEF AtOps
  <2> QED BY <1>4, <2>2 DEF ReadsOn
<1>8. /\ PutOn(new, written, clock) /\ KeepOn(new, written) /\ EachOn(new, written, clock, compactRev)
      /\ Chosen(new, written)
  BY <1>3 DEF PutOn, KeepOn, EachOn, Chosen
<1>9. Comparing(new, written, clock)
  <2>1. Len(q.compares) \in Nat
    BY RequestParts, SMTT(60)
  <2>2. Compared(new) = 0
    BY <1>3, <2>1, SMTT(60) DEF Compared
  <2>3. \A i \in 1..Len(q.compares) : 0 + i = i
    BY <2>1, SMTT(60)
  <2>4. Len(q.compares) <= Len(q.compares) /\ 1..0 = {}
    BY <2>1, SMTT(60)
  <2> QED BY <1>3, <2>2, <2>3, <2>4 DEF Comparing
<1>10. DoneOn(new, written, clock, compactRev)
  BY <1>3, SMTT(60) DEF DoneOn
<1>11. CallOK(new, reader'[c], written', clock', compactRev')
  BY <1>1, <1>5, <1>7, <1>8, <1>9, <1>10 DEF CallOK
<1> QED BY <1>1, <1>2, <1>3, <1>5, <1>6, <1>11, CallKeeps

\* evaluateCompare calls Get.
LEMMA CompareAskKeeps ==
    ASSUME ServerIInv, NEW c \in Reader, CompareAsk(c)
    PROVE  ServerIInv'
<1> DEFINE k == Head(call[c].compares).key
<1>1. k \in Key
  <2>1. call[c].compares \in Seq(TxnCompare) /\ call[c].compares # <<>>
    <3>1. call[c] \in CallState /\ call[c].compares # <<>>
      BY CallFields DEF CompareAsk
    <3> QED BY <3>1, SMTT(60) DEF CallState
  <2>2. Head(call[c].compares) \in TxnCompare
    BY <2>1, SMTT(60)
  <2> QED BY <2>2, SMTT(60) DEF TxnCompare
<1>2. ReadOf("get", {k}) \in Request
  BY <1>1, ReadOfType
<1>3. Ask(c, ReadOf("get", {k})) /\ Asks(call[c], ReadOf("get", {k}))
  BY DEF CompareAsk, Asks
<1> QED BY <1>2, <1>3, AskKeeps

\* The branch is chosen.
LEMMA ChooseKeeps ==
    ASSUME ServerIInv, ReadIInv', UNCHANGED vars, NEW c \in Reader, call[c].pc = "compare",
           NEW succeeded \in BOOLEAN, Choose(c, succeeded),
           \A d \in Reader : d # c => reader'[d] = reader[d], reader'[c].pc = "idle", reader'[c].rows = {},
           \/ \E i \in DOMAIN call[c].req.compares :
                Between(written, call[c].req.compares[i].key, call[c].start, clock)
           \/ succeeded = (\A i \in DOMAIN call[c].req.compares :
                             Holds(call[c].req, i, call[c].start, written))
    PROVE  ServerIInv'
<1> DEFINE new == [call[c] EXCEPT !.pc = "op", !.succeeded = succeeded, !.compares = <<>>,
                           !.ops = IF succeeded THEN call[c].req.success ELSE call[c].req.failure,
                           !.decided = clock]
<1>1. /\ ReadIInv /\ clock \in Revision /\ clock \in Nat /\ call[c] \in CallState
      /\ call[c].req \in ServerRequest /\ call[c].start <= clock /\ call[c].modRev <= clock
  BY CallFields, StoreTypes DEF ServerIInv
<1>2. call' = [call EXCEPT ![c] = new]
  BY DEF Choose, Set
<1>3. /\ new \in CallState /\ new.pc = "op" /\ new.req = call[c].req /\ new.start = call[c].start
      /\ new.decided = clock /\ new.modRev = call[c].modRev /\ new.done = call[c].done
      /\ new.succeeded = succeeded
  <2>1. call[c].req.success \in Seq(RequestOp) /\ call[c].req.failure \in Seq(RequestOp)
    BY <1>1, RequestParts
  <2>2. <<>> \in Seq(TxnCompare)
    BY SMTT(60)
  <2>3. new \in CallState
    BY <1>1, <2>1, <2>2 DEF CallState
  <2>4. /\ new.pc = "op" /\ new.req = call[c].req /\ new.start = call[c].start
        /\ new.decided = clock /\ new.modRev = call[c].modRev /\ new.done = call[c].done
        /\ new.succeeded = succeeded
    BY <1>1, SMTT(60) DEF CallState
  <2> QED BY <2>3, <2>4
<1> HIDE DEF new
<1>4. StoreMoves /\ written' = written /\ clock' = clock /\ compactRev' = compactRev
  BY <1>1, Still
<1>5. DoneOn(new, written', clock', compactRev')
  BY <1>3, <1>4, DoneKept
<1>6. AtOps(new, clock')
  <2>1. clock <= clock
    BY <1>1, SMTT(60)
  <2> QED BY <1>1, <1>3, <1>4, <2>1 DEF AtOps
<1>7. /\ PutOn(new, written', clock') /\ KeepOn(new, written') /\ EachOn(new, written', clock', compactRev')
      /\ new.pc # "compare"
  BY <1>3 DEF PutOn, KeepOn, EachOn
<1>8. Chosen(new, written')
  BY <1>3, <1>4 DEF Chosen
<1> QED BY <1>2, <1>3, <1>4, <1>5, <1>6, <1>7, <1>8, Advance

\* The compares a call has been through.
LEMMA ComparedSoFar ==
    ASSUME ServerIInv, NEW c \in Reader, call[c].pc = "compare"
    PROVE  /\ call[c].req.compares \in Seq(TxnCompare) /\ call[c].compares \in Seq(TxnCompare)
           /\ Compared(call[c]) \in Nat
           /\ Len(call[c].req.compares) = Compared(call[c]) + Len(call[c].compares)
           /\ \A i \in 1..Len(call[c].compares) :
                call[c].compares[i] = call[c].req.compares[Compared(call[c]) + i]
           /\ \A i \in 1..Compared(call[c]) :
                \/ Between(written, call[c].req.compares[i].key, call[c].start, clock)
                \/ Holds(call[c].req, i, call[c].start, written)
<1>1. call[c].req \in ServerRequest /\ call[c].compares \in Seq(TxnCompare)
  <2>1. call[c] \in CallState /\ call[c].req \in ServerRequest
    BY CallFields
  <2> QED BY <2>1, SMTT(60) DEF CallState
<1>2. call[c].req.compares \in Seq(TxnCompare)
  BY <1>1, RequestParts
<1>3. Comparing(call[c], written, clock)
  BY CallFields DEF CallOK
<1>4. Len(call[c].compares) <= Len(call[c].req.compares)
  BY <1>3 DEF Comparing
<1>5. /\ Compared(call[c]) \in Nat
      /\ Len(call[c].req.compares) = Compared(call[c]) + Len(call[c].compares)
  BY <1>1, <1>2, <1>4, SMTT(60) DEF Compared
<1> QED BY <1>1, <1>2, <1>3, <1>5 DEF Comparing

\* All compares hold.
LEMMA CompareHoldsKeeps ==
    ASSUME ServerIInv, NEW c \in Reader, CompareHolds(c)
    PROVE  ServerIInv'
<1>1. /\ call[c].pc = "compare" /\ call[c].compares = <<>> /\ Choose(c, TRUE)
      /\ UNCHANGED vars /\ UNCHANGED reader /\ ReadIInv
  BY DEF CompareHolds, ServerIInv
<1>2. ReadIInv'
  BY <1>1, Still, StorePreserves
<1>3. reader[c].pc = "idle" /\ reader[c].rows = {}
  BY <1>1, IdleReader DEF Asks
<1>4. DOMAIN call[c].req.compares = 1..Compared(call[c])
  <2>1. /\ call[c].req.compares \in Seq(TxnCompare) /\ Compared(call[c]) \in Nat
        /\ Len(call[c].req.compares) = Compared(call[c]) + Len(call[c].compares)
    BY <1>1, ComparedSoFar
  <2> QED BY <1>1, <2>1, SMTT(60)
<1>5. \A i \in DOMAIN call[c].req.compares :
          \/ Between(written, call[c].req.compares[i].key, call[c].start, clock)
          \/ Holds(call[c].req, i, call[c].start, written)
  BY <1>1, <1>4, ComparedSoFar
<1>6. TRUE \in BOOLEAN
  OBVIOUS
<1>7. \/ \E i \in DOMAIN call[c].req.compares :
            Between(written, call[c].req.compares[i].key, call[c].start, clock)
      \/ TRUE = (\A i \in DOMAIN call[c].req.compares : Holds(call[c].req, i, call[c].start, written))
  BY <1>5
<1> QED BY <1>1, <1>2, <1>3, <1>6, <1>7, ChooseKeeps

\* A compare is decided by what Get returned.
LEMMA CompareReadKeeps ==
    ASSUME ServerIInv, NEW c \in Reader, CompareRead(c)
    PROVE  ServerIInv'
<1> DEFINE x == call[c]
           n == Compared(x)
           k == Head(x.compares).key
           new == [x EXCEPT !.compares = Tail(x.compares)]
<1>1. /\ x.pc = "compare" /\ x.compares # <<>> /\ reader[c].pc = "answered"
      /\ reader' = [reader EXCEPT ![c] = NoRead] /\ UNCHANGED vars /\ ReadIInv
  BY DEF CompareRead, Answered, ServerIInv
<1>2. ReadIInv' /\ OnlyReader(c) /\ reader'[c].pc = "idle" /\ reader'[c].rows = {}
  BY <1>1, ReadEnds
<1>3. /\ x.req.compares \in Seq(TxnCompare) /\ x.compares \in Seq(TxnCompare) /\ n \in Nat
      /\ Len(x.req.compares) = n + Len(x.compares)
      /\ \A i \in 1..Len(x.compares) : x.compares[i] = x.req.compares[n + i]
      /\ \A i \in 1..n : \/ Between(written, x.req.compares[i].key, x.start, clock)
                         \/ Holds(x.req, i, x.start, written)
  BY <1>1, ComparedSoFar
<1>4. StoreMoves /\ written' = written /\ clock' = clock /\ compactRev' = compactRev
  BY <1>1, Still
<1> HIDE DEF n
<1>5. /\ Head(x.compares) = x.req.compares[n + 1] /\ n + 1 \in DOMAIN x.req.compares
      /\ k \in Key /\ Len(x.compares) >= 1
  <2>1. Len(x.compares) \in Nat /\ Len(x.compares) >= 1 /\ Head(x.compares) = x.compares[1]
    BY <1>1, <1>3, SMTT(60)
  <2>2. Head(x.compares) = x.req.compares[n + 1] /\ n + 1 \in DOMAIN x.req.compares
    BY <1>3, <2>1, SMTT(60)
  <2>3. Head(x.compares) \in TxnCompare
    BY <1>1, <1>3, SMTT(60)
  <2> QED BY <2>1, <2>2, <2>3, SMTT(60) DEF TxnCompare
<1>6. reader[c].req = ReadOf("get", {k})
  BY <1>1, ReadingCall DEF Asks
<1>7. \/ Between(written, k, x.start, clock)
      \/ ModRevOf(reader[c].rows) = Head(x.compares).modRev <=> Holds(x.req, n + 1, x.start, written)
  <2>1. CASE ~Between(written, k, x.start, clock)
    <3>1. reader[c].rows = {w \in HeldIn(written, k, x.start) : ~w.deleted}
      BY <1>1, <1>5, <1>6, <2>1, GetExact
    <3> QED BY <1>5, <3>1 DEF Holds
  <2> QED BY <2>1
<1>8. CASE ModRevOf(reader[c].rows) = Head(x.compares).modRev
  <2>1. call' = [call EXCEPT ![c] = new]
    BY <1>8 DEF CompareRead, Set
  <2>2. x \in CallState /\ CallOK(x, reader[c], written, clock, compactRev)
    BY CallFields
  <2>3. /\ new \in CallState /\ new.pc = "compare" /\ new.req = x.req /\ new.start = x.start
        /\ new.decided = x.decided /\ new.modRev = x.modRev /\ new.done = x.done
        /\ new.compares = Tail(x.compares)
    <3>1. new \in CallState
      <4>1. Tail(x.compares) \in Seq(TxnCompare)
        BY <1>1, <1>3, SMTT(60)
      <4> QED BY <2>2, <4>1 DEF CallState
    <3>2. /\ new.pc = "compare" /\ new.req = x.req /\ new.start = x.start
          /\ new.decided = x.decided /\ new.modRev = x.modRev /\ new.done = x.done
          /\ new.compares = Tail(x.compares)
      BY <1>1, <1>3, <2>2, SMTT(60) DEF CallState
    <3> QED BY <3>1, <3>2
  <2> HIDE DEF new
  <2>4. /\ Len(new.compares) + 1 = Len(x.compares) /\ Len(new.compares) \in Nat
        /\ \A i \in 1..Len(new.compares) : new.compares[i] = x.compares[i + 1]
    BY <1>1, <1>3, <2>3, SMTT(60)
  <2>5. Compared(new) = n + 1
    <3>1. Compared(new) = Len(x.req.compares) - Len(new.compares)
      BY <2>3 DEF Compared
    <3>2. Len(x.req.compares) = n + (Len(new.compares) + 1)
      BY <1>3, <2>4
    <3>3. n \in Nat /\ Len(new.compares) \in Nat
      BY <1>3, <2>4
    <3>4. \A a, b \in Nat : (a + (b + 1)) - b = a + 1
      BY SMTT(60)
    <3> QED BY <3>1, <3>2, <3>3, <3>4
  <2>6. Comparing(new, written, clock)
    <3>1. Len(new.compares) <= Len(new.req.compares)
      BY <1>3, <2>3, <2>4, SMTT(60)
    <3>2. \A i \in 1..Len(new.compares) : new.compares[i] = x.req.compares[(n + 1) + i]
      BY <1>3, <2>4, SMTT(60)
    <3>3. ASSUME NEW i \in 1..(n + 1)
          PROVE  \/ Between(written, x.req.compares[i].key, x.start, clock)
                 \/ Holds(x.req, i, x.start, written)
      <4>1. i \in 1..n \/ i = n + 1
        BY <1>3, SMTT(60)
      <4> QED BY <1>3, <1>5, <1>7, <1>8, <4>1
    <3> QED BY <2>3, <2>5, <3>1, <3>2, <3>3 DEF Comparing
  <2>7. AtOps(new, clock)
    <3>1. x.req \in ServerRequest /\ x.start <= clock /\ x.decided <= clock /\ x.modRev <= clock
      BY <1>1, CallFields
    <3> QED BY <2>3, <3>1 DEF AtOps
  <2>8. ReadsOn(new, reader'[c], written, clock)
    BY <1>2 DEF ReadsOn
  <2>9. /\ PutOn(new, written, clock) /\ KeepOn(new, written) /\ EachOn(new, written, clock, compactRev)
        /\ Chosen(new, written)
    BY <2>3 DEF PutOn, KeepOn, EachOn, Chosen
  <2>10. DoneOn(new, written', clock', compactRev')
    BY <1>2, <1>4, <2>3, DoneKept
  <2>11. CallOK(new, reader'[c], written', clock', compactRev')
    BY <1>4, <2>6, <2>7, <2>8, <2>9, <2>10 DEF CallOK
  <2> QED BY <1>2, <1>4, <2>1, <2>3, <2>11, CallKeeps DEF OnlyReader
<1>9. CASE ModRevOf(reader[c].rows) # Head(x.compares).modRev
  <2>1. Choose(c, FALSE)
    BY <1>9 DEF CompareRead
  <2>2. \/ \E i \in DOMAIN x.req.compares : Between(written, x.req.compares[i].key, x.start, clock)
        \/ FALSE = (\A i \in DOMAIN x.req.compares : Holds(x.req, i, x.start, written))
    BY <1>5, <1>7, <1>9
  <2>3. FALSE \in BOOLEAN
    OBVIOUS
  <2> QED BY <1>1, <1>2, <2>1, <2>2, <2>3, ChooseKeeps DEF OnlyReader
<1> QED BY <1>8, <1>9

\* A call without operations is answered, or fails.
LEMMA NoOpsKeeps ==
    ASSUME ServerIInv, NEW c \in Reader, NoOps(c)
    PROVE  ServerIInv'
<1> DEFINE new == [call[c] EXCEPT !.pc = "answered"]
<1>1. call[c].pc = "op" /\ call[c].ops = <<>> /\ UNCHANGED vars /\ UNCHANGED reader /\ ReadIInv
  BY DEF NoOps, ServerIInv
<1>2. ReadIInv' /\ StoreMoves /\ clock' = clock
  BY <1>1, Still, StorePreserves
<1>3. reader[c].pc = "idle" /\ reader[c].rows = {}
  BY <1>1, IdleReader DEF Asks
<1>4. CASE Set(c, [call[c] EXCEPT !.pc = "failed"])
  BY <1>1, <1>2, <1>3, <1>4, FailKeeps DEF Fail
<1>5. CASE Set(c, [call[c] EXCEPT !.pc = "answered"])
  <2>1. call' = [call EXCEPT ![c] = new]
    BY <1>5 DEF Set
  <2>2. /\ new \in CallState /\ new.pc = "answered" /\ new.req = call[c].req
        /\ new.start = call[c].start /\ new.done = call[c].done /\ new.succeeded = call[c].succeeded
        /\ new.decided = call[c].decided /\ new.modRev = call[c].modRev
    <3>1. call[c] \in CallState
      BY CallFields
    <3>2. new \in CallState
      BY <3>1 DEF CallState
    <3>3. /\ new.pc = "answered" /\ new.req = call[c].req
          /\ new.start = call[c].start /\ new.done = call[c].done /\ new.succeeded = call[c].succeeded
          /\ new.decided = call[c].decided /\ new.modRev = call[c].modRev
      BY <3>1, SMTT(60) DEF CallState
    <3> QED BY <3>2, <3>3
  <2> HIDE DEF new
  <2>3. AtOps(new, clock')
    BY <1>1, <1>2, <2>2, CallFields DEF AtOps
  <2>4. /\ PutOn(new, written', clock') /\ KeepOn(new, written') /\ EachOn(new, written', clock', compactRev')
        /\ new.pc # "compare"
    BY <2>2 DEF PutOn, KeepOn, EachOn
  <2>5. Chosen(new, written')
    BY <1>1, <1>2, <2>2, ChosenKept
  <2>6. DoneOn(new, written', clock', compactRev')
    BY <1>2, <2>2, DoneKept
  <2> QED BY <1>1, <1>2, <1>3, <2>1, <2>2, <2>3, <2>4, <2>5, <2>6, Advance
<1> QED BY <1>4, <1>5 DEF NoOps

-----------------------------------------------------------------------------
(* Range. *)

\* Range calls Get, Count or List.
LEMMA RangeAskKeeps ==
    ASSUME ServerIInv, NEW c \in Reader, RangeAsk(c)
    PROVE  ServerIInv'
<1> DEFINE op == Op(call[c])
           read == CASE SingleKey(op) -> "get"
                     [] ~SingleKey(op) /\ op.countOnly -> "count"
                     [] ~SingleKey(op) /\ ~op.countOnly -> "list"
           req == [op |-> read, keys |-> Listed(op.range), revision |-> op.revision,
                   limit |-> IF read = "list" THEN op.limit ELSE 0]
<1>1. call[c].pc = "op" /\ call[c].ops # <<>> /\ op.type = "range" /\ Ask(c, req)
  BY DEF RangeAsk, AtOp, Op
<1>2. op.limit \in Nat /\ op.revision \in Revision
  BY <1>1, CallFields, OpFields
<1>3. read \in {"get", "count", "list"}
  BY SMTT(60)
<1> HIDE DEF read, op
<1>4. req \in Request /\ req.keys = Listed(op.range) /\ req.op # "after"
  BY <1>2, <1>3, ListedKeys, SMTT(60) DEF Request
<1>5. Asks(call[c], req)
  BY <1>1, <1>4 DEF Asks, op
<1> QED BY <1>1, <1>4, <1>5, AskKeeps

\* A Range has its answer.
LEMMA RangeReadKeeps ==
    ASSUME ServerIInv, NEW c \in Reader, RangeRead(c)
    PROVE  ServerIInv'
<1> DEFINE x == call[c]
<1>1. /\ x.pc = "op" /\ x.ops # <<>> /\ Op(x).type = "range"
      /\ reader[c].pc = "answered" /\ reader' = [reader EXCEPT ![c] = NoRead] /\ UNCHANGED vars
      /\ ReadIInv /\ Finish(c, reader[c].currentRev, FALSE) /\ FALSE \in BOOLEAN
  BY DEF RangeRead, AtOp, Answered, Op, ServerIInv
<1>2. ReadIInv' /\ OnlyReader(c) /\ reader'[c].pc = "idle" /\ reader'[c].rows = {}
  BY <1>1, ReadEnds
<1>3. StoreMoves /\ clock' = clock
  BY <1>1, Still
<1>4. ReadsOn(x, reader[c], written, clock) /\ reader[c].currentRev \in Revision
  BY <1>1, CallFields, StoreTypes DEF CallOK
<1>5. Op(x).type # "put" /\ Op(x).type # "delete" /\ x.pc # "compare" /\ x.pc # "get"
  BY <1>1, SMTT(60)
<1>6. reader[c].req.keys = Listed(Op(x).range)
  BY <1>1, <1>5, ReadingCall DEF Asks
<1>7. \A r \in reader[c].rows : r.key \in Listed(Op(x).range)
  BY <1>4, <1>6 DEF ReadsOn
<1>8. reader[c].currentRev <= clock'
  BY <1>1, <1>3, <1>4 DEF ReadsOn
<1> QED BY <1>1, <1>2, <1>3, <1>4, <1>5, <1>7, <1>8, FinishKeeps DEF OnlyReader

=============================================================================
