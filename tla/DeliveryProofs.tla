--------------------------- MODULE DeliveryProofs ---------------------------
(***************************************************************************)
(* Proof that a live subscriber misses nothing (NothingMissed of Watcher), *)
(* for any number of subscriptions and partition workers, any page size    *)
(* and channel depth.                                                      *)
(*                                                                         *)
(* It is conditional where the code is: PollKeepsUp and PagesWhole are     *)
(* what the poll loop and the replay rely on without checking (the runs    *)
(* poll_batch and replay_pages show what happens without them), and        *)
(* watchPrefix only makes a prefix of the ranges of PrefixWatches.         *)
(*                                                                         *)
(* And that a subscription which is torn down has room for closedSentinel, *)
(* if the channel holds more batches than there are dispatchers: each of   *)
(* them can have seen the subscription open before it was closed, and then *)
(* sends one batch after the drain.                                        *)
(***************************************************************************)
EXTENDS WatcherProofs

\* Zenon is the prover of a step that does not name another; it has a minute.
USE ZenonT(60)

-----------------------------------------------------------------------------
(* The replay of a subscription, and its client. *)

\* A page is asked for.
LEMMA ReplayAskDelivers ==
    ASSUME WatchIInv, WatchIInv', DeliveryInv, NEW s \in Sub, ReplayAsk(s)
    PROVE  DeliveryInv'
<1> DEFINE x == [sub[s] EXCEPT !.pc = "read"]
<1>1. sub[s] \in SubState /\ SubExact(s) /\ ReadIInv
  BY DEF WatchIInv, WatchTypes, DeliveryInv
<1>2. /\ poll' = poll /\ out' = out /\ got' = got /\ sub[s].pc = "replay" /\ sub' = [sub EXCEPT ![s] = x]
      /\ After(s, AfterRequest(Replayed(sub[s].range), sub[s].replayRev))
  BY DEF ReplayAsk, SubStep, AfterRequest
<1>3. AfterRequest(Replayed(sub[s].range), sub[s].replayRev) \in Request
  <2>1. Replayed(sub[s].range) \in SUBSET Key /\ sub[s].replayRev \in Revision
    BY SubFields, WatchConstants
  <2> QED BY <2>1, WatchConstants
<1>4. OnlyReader(s) /\ reader'[s].horizon = 0
  BY <1>1, <1>2, <1>3, ReadBegins, WatchConstants
<1>5. UNCHANGED vars /\ \A r \in Reader : r # s => reader'[r] = reader[r]
  BY <1>4 DEF OnlyReader
<1>6. /\ x.pc = "read" /\ x.replayRev = sub[s].replayRev /\ x.after = sub[s].after
      /\ x.keys = sub[s].keys /\ x.start = sub[s].start /\ x.cancelled = sub[s].cancelled
      /\ x.ch = sub[s].ch
  BY <1>1 DEF SubState
<1>7. sub'[s] = x /\ \A q \in Sub : q # s => sub'[q] = sub[q]
  BY <1>2 DEF WatchIInv, WatchTypes
<1> HIDE DEF x
<1>8. Alive(s)' => Alive(s)
  BY <1>2, <1>6, <1>7 DEF Alive, OpenPc
<1>9. StoreMoves /\ PollSame
  BY <1>2, <1>5, StoreQuiet DEF PollSame
<1>10. \A w : Held(s, w) => Held(s, w)'
  BY <1>2, <1>6, <1>7 DEF Held
<1>11. \A w : Coming(s, w) => Coming(s, w)'
  BY <1>2, <1>10 DEF Coming
<1>12. /\ sub'[s].keys = sub[s].keys /\ sub'[s].start = sub[s].start /\ sub'[s].after = sub[s].after
       /\ sub'[s].replayRev = sub[s].replayRev
  BY <1>6, <1>7
<1>13. Caught(s)'
  BY <1>1, <1>8, <1>9, <1>11, <1>12, CaughtStays DEF SubExact
<1>14. ReplayedPast(s)'
  <2>1. sub'[s].pc # "live" /\ sub[s].pc \in {"replay", "read", "push"}
    BY <1>2, <1>6, <1>7
  <2> QED BY <1>1, <1>8, <1>9, <1>10, <1>12, <2>1, ReplayedStays DEF SubExact
<1>15. PageExact(s)'
  <2>1. sub'[s].pc # "push"
    BY <1>6, <1>7
  <2> QED BY <2>1 DEF PageExact
<1>16. SubExact(s)'
  BY <1>13, <1>14, <1>15 DEF SubExact
<1> QED BY <1>2, <1>4, <1>5, <1>7, <1>16, DeliveryKeeps

\* A subscription replays the events of all keys it is sent events of.
LEMMA SubReplays ==
    ASSUME PrefixWatches, WatchIInv, NEW s \in Sub, sub[s].pc # "off"
    PROVE  sub[s].keys \subseteq Replayed(sub[s].range)
<1>1. SubOK(sub[s], reader[s], clock)
  BY DEF WatchIInv, SubWell
<1>2. PICK q \in WatchRequest : sub[s].range = q.range /\ sub[s].keys = Watched(q.range)
  BY <1>1 DEF SubOK, Asked
<1> QED BY <1>2, ReplayCovers

\* The answer to a replay's read leaves out only what comes after it.
LEMMA ReplayRead ==
    ASSUME PrefixWatches, WatchIInv, HorizonPast, NEW s \in Sub,
           sub[s].pc = "read", reader[s].pc = "answered",
           NEW w \in written, Past(s, w), sub[s].replayRev < w.rev,
           \/ reader[s].rows = {} \/ Cardinality(reader[s].rows) < PollBatchSize
           \/ \E last \in reader[s].rows : w.rev < last.rev
    PROVE  w \in reader[s].rows
<1>1. s \in Reader /\ AfterExact
  BY WatchConstants DEF WatchIInv, ReadIInv
<1>2. SubOK(sub[s], reader[s], clock)
  BY DEF WatchIInv, SubWell
<1>3. reader[s].req = AfterRequest(Replayed(sub[s].range), sub[s].replayRev) /\ sub[s].start <= reader[s].asOf
  BY <1>2 DEF SubOK
<1>4. /\ reader[s].req.op = "after" /\ reader[s].req.keys = Replayed(sub[s].range)
      /\ reader[s].req.revision = sub[s].replayRev /\ reader[s].req.limit = PollBatchSize
  BY <1>3, SMTT(60) DEF AfterRequest
<1>5. EventRead(reader[s])
  BY <1>4 DEF EventRead
<1>6. w.key \in sub[s].keys /\ compactRev < w.rev /\ w.rev <= sub[s].start
  BY DEF Past
<1>7. w.rev <= reader[s].asOf /\ reader[s].horizon < w.rev
  <2>1. reader[s].asOf \in Nat /\ reader[s].horizon \in Nat
    BY <1>1, StoreTypes DEF WatchIInv
  <2>2. w.rev \in Nat /\ compactRev \in Nat /\ sub[s].start \in Nat
    BY DeliveryTypes
  <2>3. reader[s].horizon <= compactRev
    BY <1>1 DEF HorizonPast
  <2> QED BY <1>3, <1>6, <2>1, <2>2, <2>3, SMTT(60)
<1>8. reader[s].req.revision < w.rev /\ w.key \in reader[s].req.keys
  BY <1>4, <1>6, SubReplays
<1>9. \/ Cardinality(reader[s].rows) < reader[s].req.limit \/ reader[s].rows = {}
      \/ \E last \in reader[s].rows : w.rev < last.rev
  BY <1>4
<1> QED BY <1>1, <1>5, <1>7, <1>8, <1>9 DEF AfterExact

\* A page, the last one, or ErrCompacted is answered.
LEMMA ReplayAnswerDelivers ==
    ASSUME PrefixWatches, WatchIInv, WatchIInv', DeliveryInv, NEW s \in Sub, ReplayAnswer(s)
    PROVE  DeliveryInv'
<1> DEFINE next == IF reader[s].pc = "compacted" THEN "close"
                   ELSE IF reader[s].rows = {} THEN "live" ELSE "push"
           x == [sub[s] EXCEPT !.pc = next, !.page = reader[s].rows]
<1>1. /\ sub[s] \in SubState /\ SubExact(s) /\ ReadIInv /\ HorizonPast
      /\ Caught(s) /\ ReplayedPast(s) /\ PageExact(s)
  BY DEF WatchIInv, WatchTypes, DeliveryInv, SubExact
<1>2. /\ poll' = poll /\ out' = out /\ got' = got /\ UNCHANGED vars /\ sub[s].pc = "read"
      /\ reader' = [reader EXCEPT ![s] = NoRead] /\ sub' = [sub EXCEPT ![s] = x]
      /\ reader[s].pc \in {"answered", "compacted"}
  BY DEF ReplayAnswer, SubStep
<1>3. /\ reader[s].pc = "compacted" => next = "close"
      /\ reader[s].pc = "answered" /\ reader[s].rows = {} => next = "live"
      /\ reader[s].pc = "answered" /\ reader[s].rows # {} => next = "push"
  OBVIOUS
<1> HIDE DEF next
<1>4. OnlyReader(s) /\ reader'[s].horizon = 0
  BY <1>1, <1>2, ReadEnds, WatchConstants
<1>5. /\ x.pc = next /\ x.replayRev = sub[s].replayRev /\ x.after = sub[s].after
      /\ x.keys = sub[s].keys /\ x.start = sub[s].start /\ x.cancelled = sub[s].cancelled
      /\ x.ch = sub[s].ch /\ x.page = reader[s].rows
  BY <1>1 DEF SubState
<1>6. sub'[s] = x /\ \A q \in Sub : q # s => sub'[q] = sub[q]
  BY <1>2 DEF WatchIInv, WatchTypes
<1> HIDE DEF x
<1>7. /\ \A r \in Reader : r # s => reader'[r] = reader[r]
      /\ \A q \in Sub : q # s => got'[q] = got[q]
  BY <1>2, <1>4 DEF OnlyReader
<1>8. CASE reader[s].pc = "compacted"
  <2>1. x.pc \notin OpenPc
    BY <1>3, <1>5, <1>8 DEF OpenPc
  <2> QED BY <1>2, <1>4, <1>7, <2>1, DeadDelivers
<1>9. CASE reader[s].pc = "answered"
  <2>1. Alive(s)' => Alive(s)
    BY <1>2, <1>5, <1>6 DEF Alive, OpenPc
  <2>2. StoreMoves /\ PollSame /\ written' = written
    BY <1>2, StoreQuiet DEF PollSame, vars
  <2>3. \A w : Held(s, w) => Held(s, w)'
    BY <1>2, <1>5, <1>6 DEF Held
  <2>4. \A w : Coming(s, w) => Coming(s, w)'
    BY <1>2, <2>3 DEF Coming
  <2>5. /\ sub'[s].keys = sub[s].keys /\ sub'[s].start = sub[s].start /\ sub'[s].after = sub[s].after
        /\ sub'[s].replayRev = sub[s].replayRev
    BY <1>5, <1>6
  <2>6. Caught(s)'
    BY <1>1, <2>1, <2>2, <2>4, <2>5, CaughtStays
  <2>7. ReplayedPast(s)'
    <3>1. CASE reader[s].rows = {}
      <4> SUFFICES ASSUME Alive(s)', sub[s].after > 0, NEW w \in written, Past(s, w)'
                   PROVE  Held(s, w)'
        BY <2>2, <2>5 DEF ReplayedPast
      <4>1. Past(s, w)
        BY <2>2, <2>5, PastBefore
      <4>2. w.rev \in Nat /\ sub[s].replayRev \in Nat
        BY DeliveryTypes
      <4>3. ~(sub[s].replayRev < w.rev)
        BY <1>1, <1>2, <1>9, <3>1, <4>1, ReplayRead
      <4>4. w.rev <= sub[s].replayRev /\ sub[s].pc \in {"replay", "read", "push"}
        BY <1>2, <4>2, <4>3, SMTT(60)
      <4>5. Held(s, w)
        BY <1>1, <2>1, <4>1, <4>4 DEF ReplayedPast
      <4> QED BY <2>3, <4>5
    <3>2. CASE reader[s].rows # {}
      <4>1. sub'[s].pc # "live" /\ sub[s].pc \in {"replay", "read", "push"}
        BY <1>2, <1>3, <1>5, <1>6, <1>9, <3>2
      <4> QED BY <1>1, <2>1, <2>2, <2>3, <2>5, <4>1, ReplayedStays
    <3> QED BY <3>1, <3>2
  <2>8. PageExact(s)'
    <3> SUFFICES ASSUME NEW w \in written, Past(s, w)', sub[s].replayRev < w.rev,
                        \/ Cardinality(reader[s].rows) < PollBatchSize
                        \/ \E last \in reader[s].rows : w.rev < last.rev
                 PROVE  w \in reader[s].rows
      <4>1. sub'[s].page = reader[s].rows
        BY <1>5, <1>6
      <4> QED BY <2>2, <2>5, <4>1 DEF PageExact
    <3>1. Past(s, w)
      BY <2>2, <2>5, PastBefore
    <3> QED BY <1>1, <1>2, <1>9, <3>1, ReplayRead
  <2>9. SubExact(s)'
    BY <2>6, <2>7, <2>8 DEF SubExact
  <2> QED BY <1>2, <1>4, <1>6, <1>7, <2>9, DeliveryKeeps
<1> QED BY <1>2, <1>8, <1>9

\* A batch goes to the channel of s.
LEMMA HeldMore ==
    ASSUME NEW s \in Sub, sub[s].ch \in Seq(SUBSET Row), NEW b \in SUBSET Row,
           sub'[s].ch = Append(sub[s].ch, b), got'[s] = got[s]
    PROVE  (\A w : Held(s, w) => Held(s, w)') /\ \A w \in b : Held(s, w)'
<1> DEFINE c == sub[s].ch
           d == sub'[s].ch
<1>1. /\ DOMAIN c \subseteq DOMAIN d /\ \A i \in DOMAIN c : d[i] = c[i]
      /\ Len(d) \in DOMAIN d /\ d[Len(d)] = b
  BY SMTT(60) DEF c, d
<1> HIDE DEF c, d
<1>2. ASSUME NEW w, Held(s, w) PROVE Held(s, w)'
  BY <1>1, <1>2 DEF Held, c, d
<1>3. ASSUME NEW w \in b PROVE Held(s, w)'
  BY <1>1, <1>3 DEF Held, d
<1> QED BY <1>2, <1>3

\* A page goes to the channel.  A full page that ends with a whole commit leaves
\* nothing out at its last revision.
LEMMA ReplayPushDelivers ==
    ASSUME PrefixWatches, WatchIInv, WatchIInv', DeliveryInv, PagesWhole, NEW s \in Sub, ReplayPush(s)
    PROVE  DeliveryInv'
<1> DEFINE full == ~(Cardinality(sub[s].page) < PollBatchSize)
           next == IF Cardinality(sub[s].page) < PollBatchSize THEN "live" ELSE "replay"
           chan == Append(sub[s].ch, sub[s].page)
<1>1. /\ sub[s] \in SubState /\ SubExact(s) /\ HorizonPast
      /\ Caught(s) /\ ReplayedPast(s) /\ PageExact(s)
  BY DEF WatchIInv, WatchTypes, DeliveryInv, SubExact
<1>2. PICK last \in RevsOf(sub[s].page) :
         /\ IsLastRev(last, sub[s].page)
         /\ SubStep(s, [sub[s] EXCEPT !.ch = chan, !.page = {}, !.replayRev = last, !.pc = next])
  BY DEF ReplayPush
<1> DEFINE x == [sub[s] EXCEPT !.ch = chan, !.page = {}, !.replayRev = last, !.pc = next]
<1>3. poll' = poll /\ out' = out /\ got' = got /\ sub' = [sub EXCEPT ![s] = x]
  BY <1>2 DEF SubStep
<1>4. UNCHANGED vars /\ reader' = reader /\ sub[s].pc = "push"
  BY DEF ReplayPush
<1>5. (full => next = "replay") /\ (~full => next = "live")
  OBVIOUS
<1>6. sub[s].ch \in Seq(SUBSET Row) /\ sub[s].page \in SUBSET Row
  BY SubFields
<1> HIDE DEF next, full
<1>7. /\ x.pc = next /\ x.replayRev = last /\ x.after = sub[s].after /\ x.keys = sub[s].keys
      /\ x.start = sub[s].start /\ x.cancelled = sub[s].cancelled /\ x.ch = chan
  BY <1>1 DEF SubState
<1>8. sub'[s] = x /\ \A q \in Sub : q # s => sub'[q] = sub[q]
  BY <1>3 DEF WatchIInv, WatchTypes
<1>9. (\A w : Held(s, w) => Held(s, w)') /\ \A w \in sub[s].page : Held(s, w)'
  <2>1. sub'[s].ch = Append(sub[s].ch, sub[s].page) /\ got'[s] = got[s]
    BY <1>3, <1>7, <1>8
  <2> QED BY <1>6, <2>1, HeldMore
<1> HIDE DEF x, chan
<1>10. \A w : Coming(s, w) => Coming(s, w)'
  BY <1>3, <1>9 DEF Coming
<1>11. StoreMoves /\ PollSame /\ written' = written
  BY <1>3, <1>4, StoreQuiet DEF PollSame, vars
<1>12. sub'[s].keys = sub[s].keys /\ sub'[s].start = sub[s].start /\ sub'[s].after = sub[s].after
  BY <1>7, <1>8
<1>13. Alive(s)' => Alive(s)
  BY <1>4, <1>7, <1>8 DEF Alive, OpenPc
<1>14. Caught(s)'
  BY <1>1, <1>10, <1>11, <1>12, <1>13, CaughtStays
<1>15. ReplayedPast(s)'
  <2> SUFFICES ASSUME Alive(s)', sub[s].after > 0, NEW w \in written, Past(s, w)',
                      next = "live" \/ w.rev <= last
               PROVE  Held(s, w)'
    BY <1>7, <1>8, <1>11, <1>12 DEF ReplayedPast
  <2>1. Past(s, w) /\ Alive(s)
    BY <1>11, <1>12, <1>13, PastBefore
  <2>2. w.rev \in Nat /\ sub[s].replayRev \in Nat
    BY DeliveryTypes
  <2>3. CASE w.rev <= sub[s].replayRev
    <3>1. sub[s].pc \in {"replay", "read", "push"}
      BY <1>4
    <3>2. Held(s, w)
      BY <1>1, <2>1, <2>3, <3>1 DEF ReplayedPast
    <3> QED BY <1>9, <3>2
  <2>4. CASE ~(w.rev <= sub[s].replayRev)
    <3>1. sub[s].replayRev < w.rev
      BY <2>2, <2>4, SMTT(60)
    <3>2. w \in sub[s].page
      <4>1. CASE ~full
        BY <1>1, <1>4, <2>1, <3>1, <4>1 DEF PageExact, full
      <4>2. CASE full
        <5>1. w.rev <= last
          BY <1>5, <4>2
        <5>2. PICK r \in sub[s].page : last = r.rev
          BY <1>2 DEF RevsOf
        <5>3. r.rev \in Nat
          <6>1. r.rev \in Revision
            BY <1>6, <5>2 DEF Row
          <6> QED BY <6>1, WatchConstants
        <5>4. CASE w.rev = r.rev
          <6>1. w.key \in Replayed(sub[s].range) /\ compactRev < w.rev
            BY <1>4, <2>1, SubReplays DEF Past
          <6>2. w.rev > compactRev
            <7>1. compactRev \in Nat
              BY DeliveryTypes
            <7> QED BY <2>2, <6>1, <7>1
          <6> QED BY <1>4, <4>2, <5>2, <5>4, <6>1, <6>2 DEF PagesWhole, full
        <5>5. CASE w.rev < r.rev
          BY <1>1, <1>4, <2>1, <3>1, <5>2, <5>5 DEF PageExact
        <5> QED BY <2>2, <5>1, <5>2, <5>3, <5>4, <5>5, SMTT(60)
      <4> QED BY <4>1, <4>2
    <3> QED BY <1>9, <3>2
  <2> QED BY <2>3, <2>4
<1>16. PageExact(s)'
  <2>1. sub'[s].pc # "push"
    BY <1>5, <1>7, <1>8
  <2> QED BY <2>1 DEF PageExact
<1>17. SubExact(s)'
  BY <1>14, <1>15, <1>16 DEF SubExact
<1>18. /\ \A r \in Reader : r # s => reader'[r] = reader[r]
       /\ \A q \in Sub : q # s => sub'[q] = sub[q] /\ got'[q] = got[q]
       /\ reader'[s].horizon = reader[s].horizon
  BY <1>3, <1>4, <1>8
<1> QED BY <1>3, <1>4, <1>17, <1>18, DeliveryKeeps

\* The read of a replay goes on.
LEMMA ReadGoesOnDelivers ==
    ASSUME WatchIInv, WatchIInv', DeliveryInv, NEW s \in Sub, ReadGoesOn(s)
    PROVE  DeliveryInv'
<1>1. SubExact(s) /\ ReadIInv
  BY DEF WatchIInv, DeliveryInv
<1>2. poll' = poll /\ out' = out /\ got' = got /\ sub' = sub /\ (CheckCompacted(s) \/ Query(s))
  BY DEF ReadGoesOn, watchState
<1>3. OnlyReader(s) /\ reader'[s].horizon \in {reader[s].horizon, compactRev}
  BY <1>1, <1>2, ReadAdvances, WatchConstants
<1>4. UNCHANGED vars /\ \A r \in Reader : r # s => reader'[r] = reader[r]
  BY <1>3 DEF OnlyReader
<1>5. StoreMoves /\ PollSame
  BY <1>2, <1>4, StoreQuiet DEF PollSame
<1>6. SubExact(s)'
  BY <1>1, <1>2, <1>5, Untouched
<1>7. \A q \in Sub : q # s => sub'[q] = sub[q] /\ got'[q] = got[q]
  BY <1>2
<1>8. reader'[s].horizon \in {reader[s].horizon, 0, compactRev}
  BY <1>3
<1> QED BY <1>2, <1>4, <1>6, <1>7, <1>8, DeliveryKeeps

\* The client takes a batch from the channel of s.
LEMMA HeldTail ==
    ASSUME NEW s \in Sub, sub[s].ch \in Seq(SUBSET Row), sub[s].ch # <<>>,
           sub'[s].ch = Tail(sub[s].ch), got'[s] = got[s] \cup Head(sub[s].ch)
    PROVE  \A w : Held(s, w) => Held(s, w)'
<1> DEFINE c == sub[s].ch
           d == sub'[s].ch
<1>1. \A i \in DOMAIN c : i = 1 \/ (i - 1 \in DOMAIN d /\ d[i - 1] = c[i])
  BY SMTT(60) DEF c, d
<1>2. \A i \in DOMAIN c : c[i] = Head(c) \/ \E j \in DOMAIN d : d[j] = c[i]
  <2>1. c[1] = Head(c)
    BY SMTT(60) DEF c
  <2> HIDE DEF c, d
  <2> QED BY <1>1, <2>1
<1> HIDE DEF c, d
<1> SUFFICES ASSUME NEW w, Held(s, w) PROVE Held(s, w)'
  OBVIOUS
<1>3. CASE w \in got[s]
  BY <1>3 DEF Held
<1>4. CASE \E i \in DOMAIN c : w \in c[i]
  BY <1>2, <1>4 DEF Held, c, d
<1> QED BY <1>3, <1>4 DEF Held, c

\* The client of s reads its channel.
LEMMA ReceiveDelivers ==
    ASSUME WatchIInv, WatchIInv', DeliveryInv, NEW s \in Sub, Receive(s)
    PROVE  DeliveryInv'
<1> DEFINE x == [sub[s] EXCEPT !.ch = Tail(sub[s].ch)]
           more == got[s] \cup Head(sub[s].ch)
<1>1. /\ sub[s] \in SubState /\ SubExact(s) /\ got \in [Sub -> SUBSET Row]
      /\ sub \in [Sub -> SubState]
  BY DEF WatchIInv, WatchTypes, DeliveryInv
<1>2. /\ UNCHANGED vars /\ reader' = reader /\ poll' = poll /\ out' = out /\ sub[s].ch # <<>>
      /\ sub' = [sub EXCEPT ![s] = x]
  BY <1>1 DEF Receive
<1>3. /\ x.pc = sub[s].pc /\ x.replayRev = sub[s].replayRev /\ x.after = sub[s].after
      /\ x.keys = sub[s].keys /\ x.start = sub[s].start /\ x.cancelled = sub[s].cancelled
      /\ x.ch = Tail(sub[s].ch) /\ x.page = sub[s].page /\ x.closed = sub[s].closed
  BY <1>1 DEF SubState
<1> HIDE DEF x
<1>4. sub'[s] = x /\ \A q \in Sub : q # s => sub'[q] = sub[q]
  BY <1>1, <1>2
<1>5. \A q \in Sub : q # s => got'[q] = got[q]
  BY <1>1 DEF Receive
<1>6. StoreMoves /\ PollSame
  BY <1>2, StoreQuiet DEF PollSame
<1>7. Alive(s)' => \A w : Held(s, w) => Held(s, w)'
  <2> SUFFICES ASSUME Alive(s)' PROVE \A w : Held(s, w) => Held(s, w)'
    OBVIOUS
  <2>1. ~sub[s].closed
    BY <1>3, <1>4, SubPc DEF Alive
  <2>2. got'[s] = more
    BY <1>1, <2>1 DEF Receive
  <2>3. sub[s].ch \in Seq(SUBSET Row) /\ sub'[s].ch = Tail(sub[s].ch)
    BY <1>3, <1>4, SubFields
  <2> QED BY <1>2, <2>2, <2>3, HeldTail
<1>8. Alive(s)' => \A w : Coming(s, w) => Coming(s, w)'
  BY <1>2, <1>7 DEF Coming
<1>9. /\ sub'[s].pc = sub[s].pc /\ sub'[s].cancelled = sub[s].cancelled
      /\ sub'[s].keys = sub[s].keys /\ sub'[s].start = sub[s].start /\ sub'[s].after = sub[s].after
      /\ sub'[s].replayRev = sub[s].replayRev /\ sub'[s].page = sub[s].page
  BY <1>3, <1>4
<1>10. SubExact(s)'
  BY <1>1, <1>6, <1>7, <1>8, <1>9, ExactStays
<1>11. /\ \A r \in Reader : r # s => reader'[r] = reader[r]
       /\ reader'[s].horizon = reader[s].horizon
  BY <1>2
<1> QED BY <1>2, <1>4, <1>5, <1>10, <1>11, DeliveryKeeps

-----------------------------------------------------------------------------
(* The poll loop, the dispatchers and the store. *)

\* A step of the store or the poll loop that sends nothing.
LEMMA QuietDelivers ==
    ASSUME WatchIInv, WatchIInv', DeliveryInv, StoreMoves, PollSame, sub' = sub, got' = got,
           out'["poll"] = out["poll"], PollPage',
           \A r \in Reader : reader'[r].horizon \in {reader[r].horizon, 0, compactRev}
    PROVE  DeliveryInv'
<1>1. HorizonPast /\ \A q \in Sub : SubExact(q)
  BY DEF DeliveryInv
<1>2. HorizonPast'
  BY <1>1, HorizonStays
<1>3. ASSUME NEW q \in Sub PROVE SubExact(q)'
  <2>1. sub'[q] = sub[q] /\ got'[q] = got[q]
    OBVIOUS
  <2>2. q \in out["poll"].subs => q \in out'["poll"].subs /\ out'["poll"].rows = out["poll"].rows
    OBVIOUS
  <2> QED BY <1>1, <2>1, <2>2, Untouched
<1> QED BY <1>2, <1>3 DEF DeliveryInv

\* A write or a compaction.
LEMMA StoreStepDelivers ==
    ASSUME WatchIInv, WatchIInv', DeliveryInv, StoreStep, UNCHANGED <<reader, watchState>>
    PROVE  DeliveryInv'
<1>1. StoreMoves
  BY StoreStepMoves DEF WatchIInv, ReadIInv
<1>2. reader' = reader /\ poll' = poll /\ sub' = sub /\ out' = out /\ got' = got
  BY DEF watchState
<1>3. PollSame /\ reader'[Poller] = reader[Poller] /\ out'["poll"] = out["poll"]
  BY <1>2 DEF PollSame
<1>4. PollPage'
  BY <1>1, <1>3, PollPageStays DEF DeliveryInv
<1>5. \A r \in Reader : reader'[r].horizon \in {reader[r].horizon, 0, compactRev}
  BY <1>2
<1> QED BY <1>1, <1>2, <1>3, <1>4, <1>5, QuietDelivers

\* The poll loop moves on: what it has gone past by now is coming, and a
\* subscriber has what it had.
LEMMA PollMoves ==
    ASSUME WatchIInv, WatchIInv', DeliveryInv, UNCHANGED vars, sub' = sub, got' = got, PollPage',
           \A r \in Reader : reader'[r].horizon \in {reader[r].horizon, 0, compactRev},
           \A s \in Sub : Caught(s)'
    PROVE  DeliveryInv'
<1>1. HorizonPast /\ \A s \in Sub : SubExact(s)
  BY DEF DeliveryInv
<1>2. StoreMoves
  BY StoreQuiet
<1>3. HorizonPast'
  BY <1>1, <1>2, HorizonStays
<1>4. ASSUME NEW s \in Sub PROVE SubExact(s)'
  <2>1. sub'[s] = sub[s] /\ got'[s] = got[s] /\ ReplayedPast(s) /\ PageExact(s)
    BY <1>1 DEF SubExact
  <2>2. (\A w : Held(s, w) => Held(s, w)') /\ (Alive(s)' => Alive(s))
    BY <2>1 DEF Held, Alive
  <2>3. ReplayedPast(s)'
    BY <1>2, <2>1, <2>2, ReplayedStays
  <2>4. PageExact(s)'
    BY <1>2, <2>1, <2>2, PageStays
  <2> QED BY <2>3, <2>4 DEF SubExact
<1> QED BY <1>3, <1>4 DEF DeliveryInv

\* The poll loop starts from the current revision, or after an error from 0; it
\* has gone past nothing yet.
LEMMA PollStartDelivers ==
    ASSUME WatchIInv, WatchIInv', DeliveryInv, PollStart
    PROVE  DeliveryInv'
<1>1. /\ UNCHANGED vars /\ reader' = reader /\ sub' = sub /\ got' = got /\ poll.pc = "start"
      /\ \E rev \in {0, CurrentRevision} :
            poll' = [pc |-> "wait", lastRev |-> rev, first |-> CurrentRevision]
  BY DEF PollStart
<1>2. CurrentRevision \in Nat
  BY StoreTypes DEF WatchIInv
<1>3. poll'.first \in Nat /\ poll'.lastRev \in Nat /\ poll'.lastRev <= poll'.first
  BY <1>1, <1>2, SMTT(60)
<1>4. ASSUME NEW s \in Sub PROVE Caught(s)'
  <2> SUFFICES ASSUME NEW w \in written', Polled(s, w)' PROVE FALSE
    BY DEF Caught
  <2>1. poll'.first < w.rev /\ w.rev <= poll'.lastRev
    BY DEF Polled
  <2>2. w.rev \in Nat
    BY TypesAfter
  <2> QED BY <1>3, <2>1, <2>2, SMTT(60)
<1>5. PollPage'
  <2>1. reader[Poller].pc = "idle"
    BY <1>1 DEF WatchIInv, PollReads
  <2> QED BY <1>1, <2>1 DEF PollPage
<1>6. \A r \in Reader : reader'[r].horizon \in {reader[r].horizon, 0, compactRev}
  BY <1>1
<1> QED BY <1>1, <1>4, <1>5, <1>6, PollMoves

\* The poll loop calls After, gets an error, or is done with its subscribers.
LEMMA PollWaitsDelivers ==
    ASSUME WatchIInv, WatchIInv', DeliveryInv, PollAsk \/ PollError \/ PollDone
    PROVE  DeliveryInv'
<1>1. ReadIInv /\ poll \in PollState /\ PollPage
  BY DEF WatchIInv, WatchTypes, DeliveryInv
<1>2. /\ sub' = sub /\ out' = out /\ got' = got
      /\ poll' = [poll EXCEPT !.pc = "read"] \/ poll' = [poll EXCEPT !.pc = "wait"]
  BY DEF PollAsk, PollError, PollDone
<1>3. PollSame
  <2>1. /\ [poll EXCEPT !.pc = "read"].first = poll.first /\ [poll EXCEPT !.pc = "wait"].first = poll.first
        /\ [poll EXCEPT !.pc = "read"].lastRev = poll.lastRev
        /\ [poll EXCEPT !.pc = "wait"].lastRev = poll.lastRev
    BY <1>1 DEF PollState
  <2> QED BY <1>2, <2>1 DEF PollSame
<1>4. /\ UNCHANGED vars /\ \A r \in Reader : r # Poller => reader'[r] = reader[r]
      /\ reader'[Poller].horizon \in {reader[Poller].horizon, 0}
      /\ \/ reader'[Poller] = reader[Poller] \/ reader'[Poller].pc \in {"idle", "check", "query"}
  <2>1. CASE PollAsk
    <3>1. After(Poller, AfterRequest(Key, poll.lastRev))
      BY <2>1 DEF PollAsk, AfterRequest
    <3>2. Key \in SUBSET Key
      OBVIOUS
    <3>3. poll.lastRev \in Revision
      BY <1>1 DEF PollState
    <3>4. AfterRequest(Key, poll.lastRev) \in Request
      BY <3>2, <3>3, WatchConstants
    <3>5. OnlyReader(Poller) /\ reader'[Poller].horizon = 0 /\ reader'[Poller].pc \in {"check", "query"}
      BY <1>1, <3>1, <3>4, ReadBegins, WatchConstants
    <3> QED BY <3>5 DEF OnlyReader
  <2>2. CASE PollError
    <3>1. UNCHANGED vars /\ reader' = [reader EXCEPT ![Poller] = NoRead]
      BY <2>2 DEF PollError, ReadError
    <3>2. OnlyReader(Poller) /\ reader'[Poller].horizon = 0 /\ reader'[Poller].pc = "idle"
      BY <1>1, <3>1, ReadEnds, WatchConstants
    <3> QED BY <3>2 DEF OnlyReader
  <2>3. CASE PollDone
    BY <2>3 DEF PollDone
  <2> QED BY <2>1, <2>2, <2>3
<1>5. StoreMoves
  BY <1>4, StoreQuiet
<1>6. PollPage'
  <2>1. CASE reader'[Poller] = reader[Poller]
    BY <1>1, <1>3, <1>5, <2>1, PollPageStays
  <2>2. CASE reader'[Poller].pc \in {"idle", "check", "query"}
    <3>1. reader'[Poller].pc # "compacted" /\ reader'[Poller].pc # "answered"
      BY <2>2
    <3> QED BY <3>1 DEF PollPage
  <2> QED BY <1>4, <2>1, <2>2
<1>7. \A r \in Reader : reader'[r].horizon \in {reader[r].horizon, 0, compactRev}
  BY <1>4
<1>8. out'["poll"] = out["poll"]
  BY <1>2
<1> QED BY <1>2, <1>3, <1>5, <1>6, <1>7, <1>8, QuietDelivers

\* The poll loop's read goes on: as long as it keeps up, it is not answered
\* ErrCompacted, and a page holds every event there is.
LEMMA PollReadDelivers ==
    ASSUME WatchIInv, WatchIInv', DeliveryInv, PollKeepsUp, ReadGoesOn(Poller)
    PROVE  DeliveryInv'
<1> DEFINE rd == reader[Poller]
           rdn == reader'[Poller]
<1>1. ReadIInv /\ PollReads /\ IInv
  BY DEF WatchIInv, ReadIInv
<1>2. poll' = poll /\ sub' = sub /\ out' = out /\ got' = got /\ (CheckCompacted(Poller) \/ Query(Poller))
  BY DEF ReadGoesOn, watchState
<1>3. /\ OnlyReader(Poller) /\ rd.pc \in {"check", "query"}
      /\ rdn.horizon \in {rd.horizon, compactRev}
      /\ rdn.pc = "compacted" => rd.pc = "check" /\ IsCompacted(rd.req)
      /\ rdn.pc = "answered" => /\ rd.pc = "query" /\ rdn.rows \in Answers(rd)
                                /\ rdn.asOf = clock /\ rdn.horizon = compactRev
  BY <1>1, <1>2, ReadAdvances, WatchConstants
<1>4. UNCHANGED vars /\ \A r \in Reader : r # Poller => reader'[r] = reader[r]
  BY <1>3 DEF OnlyReader
<1>5. StoreMoves /\ PollSame /\ written' = written
  BY <1>2, <1>4, StoreQuiet DEF PollSame, vars
<1>6. rd.req = AfterRequest(Key, poll.lastRev)
  <2>1. rd.pc # "idle"
    BY <1>3
  <2> QED BY <1>1, <2>1 DEF PollReads
<1>7. rdn.pc # "compacted"
  BY <1>3 DEF PollKeepsUp
<1>8. ASSUME rdn.pc = "answered", NEW w \in written, poll.lastRev < w.rev, rdn.horizon < w.rev
      PROVE  w \in rdn.rows
  <2> DEFINE e == EventsAfter(Key, poll.lastRev)
  <2>1. /\ rd.req.op = "after" /\ rd.req.limit = PollBatchSize /\ rd.req.keys = Key
        /\ rd.req.revision = poll.lastRev
    BY <1>6, SMTT(60) DEF AfterRequest
  <2>2. Cardinality(e) <= PollBatchSize
    BY <1>3, <1>8 DEF PollKeepsUp
  <2>3. LimitedTo("after", PollBatchSize, e) = {e}
    BY <2>2 DEF LimitedTo
  <2>4. Answers(rd) = LimitedTo("after", PollBatchSize, e)
    <3> HIDE DEF rd
    <3> QED BY <2>1 DEF Answers
  <2>5. rdn.rows = e
    <3> HIDE DEF e, rd, rdn
    <3> QED BY <1>3, <1>8, <2>3, <2>4
  <2>6. w.rev \in Nat /\ compactRev \in Nat /\ poll.lastRev \in Nat /\ w.key \in Key
    BY DeliveryTypes
  <2>7. w.rev > compactRev /\ w.rev > poll.lastRev
    <3>1. compactRev < w.rev
      BY <1>3, <1>8
    <3> QED BY <1>8, <2>6, <3>1
  <2>8. w \in kv
    BY <1>1, <2>7 DEF IInv, AboveHorizonKept
  <2> QED BY <2>5, <2>6, <2>7, <2>8 DEF EventsAfter
<1>9. PollPage'
  BY <1>2, <1>5, <1>7, <1>8 DEF PollPage
<1>10. \A r \in Reader : reader'[r].horizon \in {reader[r].horizon, 0, compactRev}
  BY <1>3, <1>4
<1>11. out'["poll"] = out["poll"]
  BY <1>2
<1> QED BY <1>2, <1>5, <1>9, <1>10, <1>11, QuietDelivers

\* The poll loop takes the answer, moves on, and hands the rows to the
\* subscribers there are.
LEMMA PollAnswerDelivers ==
    ASSUME WatchIInv, WatchIInv', DeliveryInv, PollAnswer
    PROVE  DeliveryInv'
<1>1. /\ ReadIInv /\ WatchTypes /\ PollReads /\ poll \in PollState
      /\ PollPage /\ HorizonPast /\ \A s \in Sub : Caught(s)
  BY DEF WatchIInv, WatchTypes, DeliveryInv, SubExact
<1>2. /\ sub' = sub /\ got' = got /\ UNCHANGED vars /\ reader' = [reader EXCEPT ![Poller] = NoRead]
      /\ poll' = [poll EXCEPT !.pc = "send", !.lastRev = reader[Poller].currentRev]
      /\ Dispatch("poll", reader[Poller].rows) /\ poll.pc = "read"
      /\ reader[Poller].pc \in {"answered", "compacted"}
  BY DEF PollAnswer
<1>3. poll'.first = poll.first /\ poll'.lastRev = reader[Poller].currentRev
  BY <1>1, <1>2 DEF PollState
<1>4. OnlyReader(Poller) /\ reader'[Poller].pc = "idle" /\ reader'[Poller].horizon = 0
  BY <1>1, <1>2, ReadEnds, WatchConstants
<1>5. reader[Poller].pc = "answered"
  BY <1>1, <1>2 DEF PollPage
<1>6. \A q \in Sub : sub[q].registered /\ Matching(q, reader[Poller].rows) # {}
                        => q \in out'["poll"].subs /\ out'["poll"].rows = reader[Poller].rows
  <2>1. reader[Poller].rows \subseteq Row /\ "poll" \in Dispatcher
    BY <1>1, StoreTypes, WatchConstants DEF Dispatcher
  <2> QED BY <1>1, <1>2, <2>1, DispatchGives
<1>7. PollPage'
  <2>1. reader'[Poller].pc # "compacted" /\ reader'[Poller].pc # "answered"
    BY <1>4
  <2> QED BY <2>1 DEF PollPage
<1>8. written' = written /\ compactRev' = compactRev
  BY <1>2 DEF vars
<1>9. ASSUME NEW s \in Sub PROVE Caught(s)'
  <2> SUFFICES ASSUME Alive(s)', NEW w \in written, Polled(s, w)' PROVE Coming(s, w)'
    BY <1>8 DEF Caught
  <2>1. /\ w.key \in sub[s].keys /\ compactRev < w.rev /\ sub[s].start < w.rev
        /\ poll.first < w.rev /\ w.rev <= reader[Poller].currentRev
    BY <1>2, <1>3, <1>8 DEF Polled
  <2>2. Alive(s) /\ sub[s].registered
    BY <1>2, SubPc DEF Alive
  <2>3. /\ w.rev \in Nat /\ compactRev \in Nat /\ poll.lastRev \in Nat
        /\ reader[Poller].horizon \in Nat /\ reader[Poller].asOf \in Nat
        /\ reader[Poller].currentRev \in Nat
    BY <1>1, DeliveryTypes, StoreTypes, WatchConstants
  <2>4. CASE w.rev <= poll.lastRev
    <3>1. Coming(s, w)
      BY <1>1, <2>1, <2>2, <2>4 DEF Caught, Polled
    <3>2. out["poll"].subs = {}
      BY <1>1, <1>2 DEF PollReads
    <3>3. Held(s, w)
      BY <3>1, <3>2 DEF Coming
    <3>4. Held(s, w)'
      BY <1>2, <3>3 DEF Held
    <3> QED BY <3>4 DEF Coming
  <2>5. CASE ~(w.rev <= poll.lastRev)
    <3>1. reader[Poller].horizon <= compactRev /\ reader[Poller].currentRev <= reader[Poller].asOf
      BY <1>1, <1>5, WatchConstants DEF HorizonPast, PollReads
    <3>2. poll.lastRev < w.rev /\ w.rev <= reader[Poller].asOf /\ reader[Poller].horizon < w.rev
      BY <2>1, <2>3, <2>5, <3>1, SMTT(60)
    <3>3. w \in reader[Poller].rows
      BY <1>1, <1>5, <3>2 DEF PollPage
    <3>4. w \in Matching(s, reader[Poller].rows)
      BY <2>1, <3>3 DEF Matching
    <3>5. s \in out'["poll"].subs /\ w \in out'["poll"].rows
      BY <1>6, <2>2, <3>3, <3>4
    <3> QED BY <3>5 DEF Coming
  <2> QED BY <2>4, <2>5
<1>10. \A r \in Reader : reader'[r].horizon \in {reader[r].horizon, 0, compactRev}
  BY <1>4 DEF OnlyReader
<1> QED BY <1>2, <1>7, <1>9, <1>10, PollMoves

\* A step of a dispatcher leaves the poll loop and the reads alone.
LEMMA RoundDelivers ==
    ASSUME WatchIInv, WatchIInv', DeliveryInv, UNCHANGED vars, reader' = reader, poll' = poll,
           \A q \in Sub : SubExact(q)'
    PROVE  DeliveryInv'
<1>1. PollPage /\ HorizonPast
  BY DEF DeliveryInv
<1>2. StoreMoves /\ PollSame /\ reader'[Poller] = reader[Poller]
  BY StoreQuiet DEF PollSame
<1>3. PollPage'
  BY <1>1, <1>2, PollPageStays
<1>4. \A r \in Reader : reader'[r].horizon \in {reader[r].horizon, 0, compactRev}
  OBVIOUS
<1>5. HorizonPast'
  BY <1>1, <1>2, <1>4, HorizonStays
<1> QED BY <1>3, <1>5 DEF DeliveryInv

\* A worker's events are no business of the poll's dispatcher.
LEMMA ChangeStreamDelivers ==
    ASSUME WatchIInv, WatchIInv', DeliveryInv, NEW p \in Partition, dispatchFromCS(p)
    PROVE  DeliveryInv'
<1>1. UNCHANGED vars /\ reader' = reader /\ poll' = poll /\ sub' = sub /\ got' = got
  BY DEF dispatchFromCS
<1>2. ReadIInv /\ WatchTypes /\ \A q \in Sub : SubExact(q)
  BY DEF WatchIInv, DeliveryInv
<1>3. PICK rows \in SUBSET written : Dispatch(p, rows)
  BY DEF dispatchFromCS
<1>4. rows \in SUBSET Row /\ p \in Dispatcher /\ "poll" \in Dispatcher /\ p # "poll"
  BY <1>2, <1>3, StoreTypes, WatchAssumption DEF Dispatcher
<1>5. out'["poll"] = out["poll"]
  BY <1>2, <1>3, <1>4, DispatchGives
<1>6. StoreMoves /\ PollSame
  BY <1>1, StoreQuiet DEF PollSame
<1>7. ASSUME NEW q \in Sub PROVE SubExact(q)'
  <2>1. sub'[q] = sub[q] /\ got'[q] = got[q]
    BY <1>1
  <2>2. q \in out["poll"].subs => q \in out'["poll"].subs /\ out'["poll"].rows = out["poll"].rows
    BY <1>5
  <2> QED BY <1>2, <1>6, <2>1, <2>2, Untouched
<1> QED BY <1>1, <1>7, RoundDelivers

\* A dispatcher skips only a subscription that is being torn down.
LEMMA LookDelivers ==
    ASSUME WatchIInv, WatchIInv', DeliveryInv, NEW d \in Dispatcher, NEW s \in Sub, LookClosed(d, s)
    PROVE  DeliveryInv'
<1>1. UNCHANGED vars /\ reader' = reader /\ poll' = poll /\ sub' = sub /\ got' = got
  BY DEF LookClosed
<1>2. WatchTypes /\ out \in [Dispatcher -> OutState] /\ \A q \in Sub : SubExact(q)
  BY DEF WatchIInv, WatchTypes, DeliveryInv
<1>3. StoreMoves /\ PollSame
  BY <1>1, StoreQuiet DEF PollSame
<1>4. "poll" \in Dispatcher
  BY DEF Dispatcher
<1>5. ASSUME NEW q \in Sub, Alive(q)
      PROVE  q \in out["poll"].subs => q \in out'["poll"].subs /\ out'["poll"].rows = out["poll"].rows
  <2>1. CASE sub[s].closed
    <3>1. ServedBy(d, s)
      BY <2>1 DEF LookClosed
    <3>2. q # s
      BY <1>5, <2>1, SubPc DEF Alive
    <3>3. CASE d = "poll"
      BY <1>2, <3>1, <3>2, <3>3, ServedGoesOn
    <3>4. CASE d # "poll"
      BY <1>2, <1>4, <3>1, <3>4, ServedGoesOn
    <3> QED BY <3>3, <3>4
  <2>2. CASE ~sub[s].closed
    <3> DEFINE new == [out[d] EXCEPT !.to = {s}]
    <3>1. out' = [out EXCEPT ![d] = new]
      BY <1>2, <2>2 DEF LookClosed
    <3>2. new.subs = out[d].subs /\ new.rows = out[d].rows
      BY <1>2 DEF OutState
    <3> HIDE DEF new
    <3>3. out'["poll"].subs = out["poll"].subs /\ out'["poll"].rows = out["poll"].rows
      <4>1. CASE d = "poll"
        BY <1>2, <1>4, <3>1, <3>2, <4>1
      <4>2. CASE d # "poll"
        BY <1>2, <1>4, <3>1, <4>2
      <4> QED BY <4>1, <4>2
    <3> QED BY <3>3
  <2> QED BY <2>1, <2>2
<1>6. ASSUME NEW q \in Sub PROVE SubExact(q)'
  <2>1. sub'[q] = sub[q] /\ got'[q] = got[q]
    BY <1>1
  <2>2. CASE Alive(q)
    BY <1>2, <1>3, <1>5, <2>1, <2>2, Untouched
  <2>3. CASE ~Alive(q)
    <3>1. ~Alive(q)'
      BY <2>1, <2>3 DEF Alive
    <3> QED BY <3>1, DeadExact
  <2> QED BY <2>2, <2>3
<1> QED BY <1>1, <1>6, RoundDelivers

\* A dispatcher sends a batch, or cancels the subscription: what the poll loop
\* found for s goes to its channel, the rest of the round is as it was.
LEMMA SendDelivers ==
    ASSUME WatchIInv, WatchIInv', DeliveryInv, NEW d \in Dispatcher, NEW s \in Sub, Send(d, s)
    PROVE  DeliveryInv'
<1>1. UNCHANGED vars /\ reader' = reader /\ poll' = poll /\ got' = got /\ ServedBy(d, s)
  BY DEF Send
<1>2. WatchTypes /\ \A q \in Sub : SubExact(q)
  BY DEF WatchIInv, DeliveryInv
<1>3. StoreMoves /\ PollSame
  BY <1>1, StoreQuiet DEF PollSame
<1>4. "poll" \in Dispatcher
  BY DEF Dispatcher
<1>5. PICK new \in SubState :
         /\ sub' = [sub EXCEPT ![s] = new]
         /\ new.pc = sub[s].pc /\ new.keys = sub[s].keys
         /\ new.after = sub[s].after /\ new.replayRev = sub[s].replayRev
         /\ new.page = sub[s].page /\ new.start = sub[s].start
         /\ \/ new.ch = Append(sub[s].ch, Matching(s, out[d].rows)) /\ new.cancelled = sub[s].cancelled
            \/ new.ch = sub[s].ch /\ new.cancelled
  BY <1>2, SendStep
<1>6. sub'[s] = new /\ \A q \in Sub : q # s => sub'[q] = sub[q]
  BY <1>2, <1>5, SubsTyped
<1>7. \A q \in Sub : q # s /\ q \in out["poll"].subs
                        => q \in out'["poll"].subs /\ out'["poll"].rows = out["poll"].rows
  <2>1. CASE d = "poll"
    BY <1>1, <1>2, <2>1, ServedGoesOn
  <2>2. CASE d # "poll"
    BY <1>1, <1>2, <1>4, <2>2, ServedGoesOn
  <2> QED BY <2>1, <2>2
<1>8. ASSUME NEW q \in Sub, q # s PROVE SubExact(q)'
  <2>1. sub'[q] = sub[q] /\ got'[q] = got[q]
    BY <1>1, <1>6, <1>8
  <2>2. q \in out["poll"].subs => q \in out'["poll"].subs /\ out'["poll"].rows = out["poll"].rows
    BY <1>7, <1>8
  <2> QED BY <1>2, <1>3, <2>1, <2>2, Untouched
<1>9. SubExact(s)'
  <2>1. CASE new.cancelled
    <3>1. ~Alive(s)'
      BY <1>6, <2>1 DEF Alive
    <3> QED BY <3>1, DeadExact
  <2>2. CASE ~new.cancelled
    <3> DEFINE b == Matching(s, out[d].rows)
    <3>1. sub'[s].ch = Append(sub[s].ch, b) /\ sub'[s].cancelled = sub[s].cancelled
      BY <1>5, <1>6, <2>2
    <3>2. sub[s].ch \in Seq(SUBSET Row)
      BY SubFields
    <3>3. b \in SUBSET Row
      <4>1. out[d].rows \subseteq Row
        BY <1>2 DEF WatchTypes, OutState
      <4> QED BY <4>1 DEF Matching
    <3>4. got'[s] = got[s]
      BY <1>1
    <3> HIDE DEF b
    <3>5. (\A w : Held(s, w) => Held(s, w)') /\ \A w \in b : Held(s, w)'
      BY <3>1, <3>2, <3>3, <3>4, HeldMore
    <3>6. \A w \in written : w.key \in sub[s].keys /\ Coming(s, w) => Coming(s, w)'
      <4> SUFFICES ASSUME NEW w \in written, w.key \in sub[s].keys, Coming(s, w)
                   PROVE  Coming(s, w)'
        OBVIOUS
      <4>1. CASE Held(s, w)
        BY <3>5, <4>1 DEF Coming
      <4>2. CASE s \in out["poll"].subs /\ w \in out["poll"].rows /\ d = "poll"
        <5>1. w \in b
          BY <4>2 DEF b, Matching
        <5> QED BY <3>5, <5>1 DEF Coming
      <4>3. CASE s \in out["poll"].subs /\ w \in out["poll"].rows /\ d # "poll"
        <5>1. out'["poll"] = out["poll"]
          BY <1>1, <1>2, <1>4, <4>3, ServedGoesOn
        <5> QED BY <4>3, <5>1 DEF Coming
      <4> QED BY <4>1, <4>2, <4>3 DEF Coming
    <3>7. /\ sub'[s].pc = sub[s].pc /\ sub'[s].keys = sub[s].keys /\ sub'[s].start = sub[s].start
          /\ sub'[s].after = sub[s].after /\ sub'[s].replayRev = sub[s].replayRev
          /\ sub'[s].page = sub[s].page
      BY <1>5, <1>6
    <3> QED BY <1>2, <1>3, <3>1, <3>5, <3>6, <3>7, ExactStays
  <2> QED BY <2>1, <2>2
<1> QED BY <1>1, <1>8, <1>9, RoundDelivers

-----------------------------------------------------------------------------
(* The result. *)

\* The process starts.
LEMMA DeliveryInitially == WatchInit => DeliveryInv
<1> SUFFICES ASSUME WatchInit PROVE DeliveryInv
  OBVIOUS
<1>1. sub = [s \in Sub |-> NoSub] /\ ReadInit /\ WatchIInv
  BY WatchInitially DEF WatchInit
<1>2. ASSUME NEW s \in Sub PROVE SubExact(s)
  <2>1. sub[s] = NoSub /\ NoSub.pc = "off"
    BY <1>1 DEF NoSub
  <2>2. ~Alive(s)
    BY <2>1 DEF Alive, OpenPc
  <2>3. Caught(s)
    BY <2>2 DEF Caught
  <2>4. ReplayedPast(s)
    BY <2>2 DEF ReplayedPast
  <2>5. PageExact(s)
    BY <2>2 DEF PageExact
  <2> QED BY <2>3, <2>4, <2>5 DEF SubExact
<1>3. ASSUME NEW r \in Reader PROVE reader[r].pc = "idle" /\ reader[r].horizon = 0
  <2>1. reader[r] = NoRead
    BY <1>1 DEF ReadInit
  <2> QED BY <2>1, SMTT(60) DEF NoRead
<1>4. HorizonPast
  <2>1. compactRev \in Nat
    BY <1>1, DeliveryTypes
  <2>2. 0 <= compactRev
    BY <2>1, SMTT(60)
  <2> QED BY <1>3, <2>2 DEF HorizonPast
<1>5. PollPage
  <2>1. reader[Poller].pc = "idle"
    BY <1>3, WatchConstants
  <2> QED BY <2>1 DEF PollPage
<1> QED BY <1>2, <1>4, <1>5 DEF DeliveryInv

\* A step of the poll loop.
LEMMA PollStepDelivers ==
    ASSUME WatchIInv, WatchIInv', DeliveryInv, PollKeepsUp, PollStep
    PROVE  DeliveryInv'
<1>1. CASE PollStart
  BY <1>1, PollStartDelivers
<1>2. CASE PollAsk
  BY <1>2, PollWaitsDelivers
<1>3. CASE PollAnswer
  BY <1>3, PollAnswerDelivers
<1>4. CASE PollDone
  BY <1>4, PollWaitsDelivers
<1>5. CASE ReadGoesOn(Poller)
  BY <1>5, PollReadDelivers
<1> QED BY <1>1, <1>2, <1>3, <1>4, <1>5 DEF PollStep

\* A step of the goroutine of s.
LEMMA GoroutineStepDelivers ==
    ASSUME PrefixWatches, WatchIInv, WatchIInv', DeliveryInv, PagesWhole, NEW s \in Sub, GoroutineStep(s)
    PROVE  DeliveryInv'
<1>1. CASE ReplayCheck(s)
  BY <1>1, ReplayCheckDelivers
<1>2. CASE ReplayAsk(s)
  BY <1>2, ReplayAskDelivers
<1>3. CASE ReplayAnswer(s)
  BY <1>3, ReplayAnswerDelivers
<1>4. CASE ReplayPush(s)
  BY <1>4, ReplayPushDelivers
<1>5. CASE ReadGoesOn(s)
  BY <1>5, ReadGoesOnDelivers
<1>6. CASE Leave(s) \/ MarkClosed(s) \/ removeSub(s) \/ Drain(s) \/ SendSentinel(s)
  BY <1>6, TeardownDelivers
<1> QED BY <1>1, <1>2, <1>3, <1>4, <1>5, <1>6 DEF GoroutineStep

\* Every step, of a poll loop that keeps up and a replay with whole pages.
LEMMA DeliveryNext ==
    ASSUME PrefixWatches, WatchIInv, WatchIInv', DeliveryInv, PollKeepsUp, PagesWhole,
           [WatchNext]_watchVars
    PROVE  DeliveryInv'
<1>1. CASE StoreStep /\ UNCHANGED <<reader, watchState>>
  BY <1>1, StoreStepDelivers
<1>2. CASE PollStep
  BY <1>2, PollStepDelivers
<1>3. CASE PollError
  BY <1>3, PollWaitsDelivers
<1>4. ASSUME NEW p \in Partition, dispatchFromCS(p) PROVE DeliveryInv'
  BY <1>4, ChangeStreamDelivers
<1>5. ASSUME NEW d \in Dispatcher, DispatchStep(d) PROVE DeliveryInv'
  <2>1. PICK s \in Sub : LookClosed(d, s) \/ Send(d, s)
    BY <1>5 DEF DispatchStep
  <2> QED BY <2>1, LookDelivers, SendDelivers
<1>6. ASSUME NEW s \in Sub, NEW q \in WatchRequest, subscribe(s, q) PROVE DeliveryInv'
  BY <1>6, SubscribeDelivers
<1>7. ASSUME NEW s \in Sub, GoroutineStep(s) PROVE DeliveryInv'
  BY <1>7, GoroutineStepDelivers
<1>8. ASSUME NEW s \in Sub, ReplayError(s) PROVE DeliveryInv'
  BY <1>8, ReplayErrorDelivers
<1>9. ASSUME NEW s \in Sub, Cancel(s) PROVE DeliveryInv'
  BY <1>9, TeardownDelivers
<1>10. ASSUME NEW s \in Sub, Receive(s) PROVE DeliveryInv'
  BY <1>10, ReceiveDelivers
<1>11. CASE UNCHANGED watchVars
  <2>1. UNCHANGED vars /\ reader' = reader /\ poll' = poll /\ sub' = sub /\ out' = out /\ got' = got
    BY <1>11 DEF watchVars, watchState, vars
  <2>2. StoreMoves /\ PollSame /\ PollPage
    BY <2>1, StoreQuiet DEF PollSame, DeliveryInv
  <2>3. /\ reader'[Poller] = reader[Poller] /\ out'["poll"] = out["poll"]
        /\ \A r \in Reader : reader'[r].horizon \in {reader[r].horizon, 0, compactRev}
    BY <2>1
  <2>4. PollPage'
    BY <2>2, <2>3, PollPageStays
  <2> QED BY <2>1, <2>2, <2>3, <2>4, QuietDelivers
<1> QED BY <1>1, <1>2, <1>3, <1>4, <1>5, <1>6, <1>7, <1>8, <1>9, <1>10, <1>11 DEF WatchNext

\* What is coming to a live subscriber is all it asked for.
LEMMA DeliveryExact ==
    ASSUME PrefixWatches, WatchIInv, DeliveryInv
    PROVE  NothingMissed
<1> SUFFICES ASSUME NEW s \in Sub, Served(s), NEW w \in written, Wanted(s, w), w.rev > compactRev,
                    w.rev <= sub[s].start \/ (poll.first < w.rev /\ w.rev <= poll.lastRev)
             PROVE  w \in Delivered(s)
  BY DEF NothingMissed
<1>1. Alive(s) /\ sub[s].pc = "live" /\ Caught(s) /\ ReplayedPast(s)
  <2>1. sub[s].pc = "live" /\ ~sub[s].cancelled /\ "live" \in OpenPc
    BY DEF Served, OpenPc
  <2> QED BY <2>1 DEF Alive, DeliveryInv, SubExact
<1>2. /\ w.rev \in Nat /\ w.key \in Key /\ compactRev \in Nat /\ sub[s].start \in Nat
      /\ sub[s].after \in Nat
  BY DeliveryTypes
<1>3. w.key \in sub[s].keys
  <2>1. SubOK(sub[s], reader[s], clock)
    BY DEF WatchIInv, SubWell
  <2>2. sub[s].pc # "off"
    BY <1>1
  <2>3. Asked(sub[s].range, sub[s].keys)
    BY <2>1, <2>2 DEF SubOK
  <2>4. PICK q \in WatchRequest : sub[s].range = q.range /\ sub[s].keys = Watched(q.range)
    BY <2>3 DEF Asked
  <2>5. q.range \in KeyRange /\ IsPrefixRange(q.range)
    <3>1. q \in [range : KeyRange, afterRev : Revision]
      BY WatchAssumption
    <3> QED BY <3>1 DEF PrefixWatches
  <2>6. w.key \in DOMAIN KeyName /\ InRange(q.range, w.key)
    BY <1>2, <2>4, WatchAssumption DEF Wanted
  <2> QED BY <2>4, <2>5, <2>6, PrefixCovers
<1>4. compactRev < w.rev
  BY <1>2
<1>5. Coming(s, w)
  <2>1. CASE sub[s].start < w.rev
    <3>1. ~(w.rev <= sub[s].start)
      BY <1>2, <2>1, SMTT(60)
    <3>2. poll.first < w.rev /\ w.rev <= poll.lastRev
      BY <3>1
    <3>3. Polled(s, w)
      BY <1>3, <1>4, <2>1, <3>2 DEF Polled
    <3> QED BY <1>1, <3>3 DEF Caught
  <2>2. CASE ~(sub[s].start < w.rev)
    <3>1. w.rev <= sub[s].start /\ ~(w.rev > sub[s].start)
      BY <1>2, <2>2, SMTT(60)
    <3>2. sub[s].after # 0 /\ w.rev >= sub[s].after
      BY <3>1 DEF Wanted
    <3>3. sub[s].after > 0 /\ sub[s].after <= w.rev
      BY <1>2, <3>2, SMTT(60)
    <3>4. Past(s, w)
      BY <1>3, <1>4, <3>1, <3>3 DEF Past
    <3>5. Held(s, w)
      BY <1>1, <3>3, <3>4 DEF ReplayedPast
    <3> QED BY <3>5 DEF Coming
  <2> QED BY <2>1, <2>2
<1>6. CASE w \in got[s]
  BY <1>6 DEF Delivered
<1>7. CASE \E i \in DOMAIN sub[s].ch : w \in sub[s].ch[i]
  BY <1>7 DEF Delivered
<1>8. CASE s \in out["poll"].subs /\ w \in out["poll"].rows
  BY <1>8 DEF Delivered
<1> QED BY <1>5, <1>6, <1>7, <1>8 DEF Coming, Held

\* There is no gap between replay, poll and subscription: a subscription to a key,
\* to a prefix or to everything from a key on is sent every event it asked for,
\* however the store, the poll loop, the change stream, the dispatchers and the
\* other subscriptions interleave.
THEOREM NothingIsMissed ==
    ASSUME PrefixWatches
    PROVE  WatchSpec /\ []PollKeepsUp /\ []PagesWhole => []NothingMissed
<1>1. WatchInit => DeliveryInv
  BY DeliveryInitially
<1>2. WatchIInv /\ WatchIInv' /\ DeliveryInv /\ PollKeepsUp /\ PagesWhole /\ [WatchNext]_watchVars
        => DeliveryInv'
  BY DeliveryNext
<1>3. WatchIInv /\ DeliveryInv => NothingMissed
  BY DeliveryExact
<1> QED BY <1>1, <1>2, <1>3, WatchInvariance, PTL DEF WatchSpec

-----------------------------------------------------------------------------
(* Room for the sentinel. *)

\* The theorems on finite sets, for this section alone.
LOCAL FS == INSTANCE FiniteSetTheorems

\* Their cardinalities are those of Watcher.
LEMMA SameNotions ==
    ASSUME NEW S
    PROVE  (IsFiniteSet(S) <=> FS!IsFiniteSet(S)) /\ Cardinality(S) = FS!Cardinality(S)
<1>1. IsFiniteSet(S) <=> FS!IsFiniteSet(S)
  BY SMTT(60) DEF IsFiniteSet, FS!IsFiniteSet
<1>2. Cardinality(S) = FS!Cardinality(S)
  BY SMTT(60) DEF Cardinality, FS!Cardinality
<1> QED BY <1>1, <1>2

\* A part of a finite set.
LEMMA PartCount ==
    ASSUME NEW T, IsFiniteSet(T), NEW S, S \subseteq T
    PROVE  IsFiniteSet(S) /\ Cardinality(S) \in Nat /\ Cardinality(S) <= Cardinality(T)
<1>1. FS!IsFiniteSet(T) /\ S \in SUBSET T
  BY SameNotions
<1>2. FS!IsFiniteSet(S) /\ FS!Cardinality(S) <= FS!Cardinality(T)
  BY <1>1, FS!FS_Subset
<1>3. FS!Cardinality(S) \in Nat
  BY <1>2, FS!FS_CardinalityType
<1>4. Cardinality(S) = FS!Cardinality(S) /\ Cardinality(T) = FS!Cardinality(T) /\ IsFiniteSet(S)
  BY <1>2, SameNotions
<1> QED BY <1>2, <1>3, <1>4

\* One element less.
LEMMA LessCount ==
    ASSUME NEW S, IsFiniteSet(S), NEW x \in S
    PROVE  Cardinality(S \ {x}) + 1 = Cardinality(S)
<1>1. FS!IsFiniteSet(S)
  BY SameNotions
<1>2. FS!Cardinality(S) \in Nat /\ FS!Cardinality(S \ {x}) = FS!Cardinality(S) - 1
  BY <1>1, FS!FS_CardinalityType, FS!FS_RemoveElement
<1>3. FS!Cardinality(S) = Cardinality(S) /\ FS!Cardinality(S \ {x}) = Cardinality(S \ {x})
  BY SameNotions
<1> QED BY <1>2, <1>3, SMTT(60)

\* There are finitely many dispatchers.
LEMMA DispatchersFinite == IsFiniteSet(Dispatcher) /\ Cardinality(Dispatcher) \in Nat
<1>1. FS!IsFiniteSet(Partition) /\ FS!IsFiniteSet({"poll"})
  BY WatchAssumption, SameNotions, FS!FS_Singleton
<1>2. FS!IsFiniteSet(Dispatcher)
  BY <1>1, FS!FS_Union DEF Dispatcher
<1>3. IsFiniteSet(Dispatcher)
  BY <1>2, SameNotions
<1> QED BY <1>3, PartCount

\* The dispatchers that saw s open and have not sent yet.
Senders(s) == {d \in Dispatcher : s \in out[d].to}

\* After the drain: what is on the channel, and what is still to come.
Room(s) ==
    sub[s].pc = "sentinel" => Len(sub[s].ch) + Cardinality(Senders(s)) <= Cardinality(Dispatcher)

\* Neither the channel nor the senders grow.
LEMMA RoomKept ==
    ASSUME WatchTypes, WatchTypes', NEW s \in Sub, Room(s),
           sub'[s].pc = "sentinel" => sub[s].pc = "sentinel" /\ Len(sub'[s].ch) <= Len(sub[s].ch),
           sub'[s].pc = "sentinel" => Senders(s)' \subseteq Senders(s)
    PROVE  Room(s)'
<1> SUFFICES ASSUME sub'[s].pc = "sentinel"
             PROVE  Len(sub'[s].ch) + Cardinality(Senders(s)') <= Cardinality(Dispatcher)
  BY DEF Room
<1>1. /\ Len(sub[s].ch) + Cardinality(Senders(s)) <= Cardinality(Dispatcher)
      /\ Len(sub'[s].ch) <= Len(sub[s].ch) /\ Senders(s)' \subseteq Senders(s)
  BY DEF Room
<1>2. Senders(s) \subseteq Dispatcher
  BY DEF Senders
<1>3. IsFiniteSet(Senders(s)) /\ Cardinality(Senders(s)) \in Nat
  BY <1>2, DispatchersFinite, PartCount
<1>4. Cardinality(Senders(s)') \in Nat /\ Cardinality(Senders(s)') <= Cardinality(Senders(s))
  BY <1>1, <1>3, PartCount
<1>5. Len(sub[s].ch) \in Nat /\ Len(sub'[s].ch) \in Nat
  <2>1. sub[s].ch \in Seq(SUBSET Row) /\ sub'[s].ch \in Seq(SUBSET Row)
    BY DEF WatchTypes, SubState
  <2> QED BY <2>1, SMTT(60)
<1> HIDE DEF Senders
<1> QED BY <1>1, <1>3, <1>4, <1>5, DispatchersFinite, SMTT(60)

\* A step that touches neither a subscription nor a dispatcher.
LEMMA RoomStays ==
    ASSUME WatchTypes, WatchTypes', UNCHANGED <<sub, out>>, NEW s \in Sub, Room(s)
    PROVE  Room(s)'
  BY DEF Room, Senders

\* A batch is given to the subscribers: nothing is sent yet.
LEMMA DispatchRoom ==
    ASSUME WatchTypes, WatchTypes', NEW d \in Dispatcher, NEW rows \in SUBSET Row, Dispatch(d, rows),
           sub' = sub, NEW s \in Sub, Room(s)
    PROVE  Room(s)'
<1>1. out'[d].to = {} /\ \A e \in Dispatcher : e # d => out'[e] = out[e]
  BY DispatchGives
<1>2. Senders(s)' \subseteq Senders(s)
  BY <1>1 DEF Senders
<1>3. Len(sub'[s].ch) <= Len(sub[s].ch)
  <2>1. sub[s].ch \in Seq(SUBSET Row)
    BY DEF WatchTypes, SubState
  <2> QED BY <2>1, SMTT(60)
<1> QED BY <1>2, <1>3, RoomKept

\* A dispatcher that looks at a closed subscription does not turn to it.
LEMMA LookRoom ==
    ASSUME WatchIInv, WatchTypes', NEW d \in Dispatcher, NEW q \in Sub, LookClosed(d, q),
           NEW s \in Sub, Room(s)
    PROVE  Room(s)'
<1>1. WatchTypes /\ sub' = sub
  BY DEF WatchIInv, LookClosed
<1>2. \A e \in Dispatcher : \A r \in out'[e].to : r \in out[e].to \/ ~sub[r].closed
  BY <1>1, LookStep
<1>3. sub[s].pc = "sentinel" => sub[s].closed
  BY SubPc DEF ClosedPc
<1>4. sub'[s].pc = "sentinel" => Senders(s)' \subseteq Senders(s)
  BY <1>1, <1>2, <1>3 DEF Senders
<1>5. Len(sub'[s].ch) <= Len(sub[s].ch)
  <2>1. sub[s].ch \in Seq(SUBSET Row)
    BY <1>1 DEF WatchTypes, SubState
  <2> QED BY <1>1, <2>1, SMTT(60)
<1> QED BY <1>1, <1>4, <1>5, RoomKept

\* A batch sent takes a place on the channel, and its dispatcher sends no more.
LEMMA SendRoom ==
    ASSUME WatchIInv, WatchTypes', NEW d \in Dispatcher, NEW q \in Sub, Send(d, q),
           NEW s \in Sub, Room(s)
    PROVE  Room(s)'
<1>1. WatchTypes
  BY DEF WatchIInv
<1>2. ServedBy(d, q) /\ q \in out[d].to
  BY DEF Send
<1>3. out'[d].to = {} /\ \A e \in Dispatcher : e # d => out'[e] = out[e]
  BY <1>1, <1>2, ServedGoesOn
<1>4. PICK new \in SubState :
         /\ sub' = [sub EXCEPT ![q] = new] /\ new.pc = sub[q].pc
         /\ new.ch = Append(sub[q].ch, Matching(q, out[d].rows)) \/ new.ch = sub[q].ch
  BY <1>1, SendStep
<1>5. sub'[q] = new /\ \A r \in Sub : r # q => sub'[r] = sub[r]
  BY <1>1, <1>4, SubsTyped
<1>6. Senders(s)' \subseteq Senders(s)
  BY <1>3 DEF Senders
<1>7. sub[s].ch \in Seq(SUBSET Row) /\ sub'[s].ch \in Seq(SUBSET Row)
  BY <1>1 DEF WatchTypes, SubState
<1>8. CASE s # q
  <2>1. sub'[s] = sub[s]
    BY <1>5, <1>8
  <2>2. Len(sub'[s].ch) <= Len(sub[s].ch)
    BY <1>7, <2>1, SMTT(60)
  <2> QED BY <1>1, <1>6, <2>1, <2>2, RoomKept
<1>9. CASE s = q
  <2> SUFFICES ASSUME sub'[s].pc = "sentinel"
               PROVE  Len(sub'[s].ch) + Cardinality(Senders(s)') <= Cardinality(Dispatcher)
    BY DEF Room
  <2>1. Len(sub[s].ch) + Cardinality(Senders(s)) <= Cardinality(Dispatcher)
    BY <1>4, <1>5, <1>9 DEF Room
  <2>2. Senders(s) \subseteq Dispatcher /\ d \in Senders(s) /\ Senders(s)' \subseteq Senders(s) \ {d}
    BY <1>2, <1>3, <1>9 DEF Senders
  <2>3. IsFiniteSet(Senders(s)) /\ Cardinality(Senders(s)) \in Nat
    BY <2>2, DispatchersFinite, PartCount
  <2>4. IsFiniteSet(Senders(s) \ {d}) /\ Cardinality(Senders(s) \ {d}) \in Nat
    BY <2>3, PartCount
  <2>5. Cardinality(Senders(s) \ {d}) + 1 = Cardinality(Senders(s))
    BY <2>2, <2>3, LessCount
  <2>6. Cardinality(Senders(s)') \in Nat /\ Cardinality(Senders(s)') <= Cardinality(Senders(s) \ {d})
    BY <2>2, <2>4, PartCount
  <2>7. Len(sub[s].ch) \in Nat /\ Len(sub'[s].ch) \in Nat /\ Len(sub'[s].ch) <= Len(sub[s].ch) + 1
    <3>1. sub'[s].ch = Append(sub[s].ch, Matching(s, out[d].rows)) \/ sub'[s].ch = sub[s].ch
      BY <1>4, <1>5, <1>9
    <3> DEFINE batch == Matching(s, out[d].rows)
    <3> HIDE DEF batch
    <3>2. sub'[s].ch = Append(sub[s].ch, batch) \/ sub'[s].ch = sub[s].ch
      BY <3>1 DEF batch
    <3> QED BY <1>7, <3>2, SMTT(60)
  <2> HIDE DEF Senders
  <2> QED BY <2>1, <2>3, <2>4, <2>5, <2>6, <2>7, DispatchersFinite, SMTT(60)
<1> QED BY <1>8, <1>9

\* A step of the goroutine or the client of q: it comes to the sentinel with an
\* empty channel, and puts nothing on it before that.
LEMMA GoroutineRoom ==
    ASSUME WatchTypes, WatchTypes', NEW q \in Sub, NEW new, sub' = [sub EXCEPT ![q] = new], out' = out,
           new.pc = "sentinel" =>
              \/ new.ch = <<>>
              \/ sub[q].pc = "sentinel" /\ Len(new.ch) <= Len(sub[q].ch),
           NEW s \in Sub, Room(s)
    PROVE  Room(s)'
<1>1. sub'[q] = new /\ \A r \in Sub : r # q => sub'[r] = sub[r]
  BY DEF WatchTypes
<1>2. Senders(s)' = Senders(s) /\ Senders(s) \subseteq Dispatcher
  BY DEF Senders
<1>3. CASE s = q /\ new.ch = <<>>
  <2>1. Cardinality(Senders(s)) \in Nat /\ Cardinality(Senders(s)) <= Cardinality(Dispatcher)
    BY <1>2, DispatchersFinite, PartCount
  <2>2. sub'[s].ch = <<>> /\ Cardinality(Senders(s)') = Cardinality(Senders(s))
    BY <1>1, <1>2, <1>3
  <2>3. Len(sub'[s].ch) + Cardinality(Senders(s)') <= Cardinality(Dispatcher)
    <3> HIDE DEF Senders
    <3> QED BY <2>1, <2>2, DispatchersFinite, SMTT(60)
  <2> QED BY <2>3 DEF Room
<1>4. CASE s = q /\ new.ch # <<>>
  BY <1>1, <1>2, <1>4, RoomKept
<1>5. CASE s # q
  <2>1. sub'[s] = sub[s] /\ sub[s].ch \in Seq(SUBSET Row)
    BY <1>1, <1>5 DEF WatchTypes, SubState
  <2>2. Len(sub'[s].ch) <= Len(sub[s].ch)
    BY <2>1, SMTT(60)
  <2> QED BY <1>2, <2>1, <2>2, RoomKept
<1> QED BY <1>3, <1>4, <1>5

\* A step of the goroutine of q.
LEMMA GoroutineStepRoom ==
    ASSUME WatchIInv, WatchTypes', NEW q \in Sub, GoroutineStep(q), NEW s \in Sub, Room(s)
    PROVE  Room(s)'
<1>1. WatchTypes /\ sub[q] \in SubState
  BY DEF WatchIInv, WatchTypes
<1>2. ASSUME NEW new, SubStep(q, new), new.pc \in OpenPc \cup {"close"} PROVE Room(s)'
  <2>1. sub' = [sub EXCEPT ![q] = new] /\ out' = out /\ new.pc # "sentinel"
    BY <1>2 DEF SubStep, OpenPc
  <2> QED BY <1>1, <2>1, GoroutineRoom
<1>3. CASE ReplayCheck(q)
  <2>1. CASE SubStep(q, [sub[q] EXCEPT !.pc = "replay", !.replayRev = sub[q].after - 1])
    <3>1. [sub[q] EXCEPT !.pc = "replay", !.replayRev = sub[q].after - 1].pc = "replay"
      BY <1>1 DEF SubState
    <3> QED BY <1>2, <2>1, <3>1 DEF OpenPc
  <2>2. CASE SubStep(q, [sub[q] EXCEPT !.pc = "close"])
    <3>1. [sub[q] EXCEPT !.pc = "close"].pc = "close"
      BY <1>1 DEF SubState
    <3> QED BY <1>2, <2>2, <3>1
  <2> QED BY <1>3, <2>1, <2>2 DEF ReplayCheck
<1>4. CASE ReplayAsk(q)
  <2>1. SubStep(q, [sub[q] EXCEPT !.pc = "read"]) /\ [sub[q] EXCEPT !.pc = "read"].pc = "read"
    BY <1>1, <1>4 DEF ReplayAsk, SubState
  <2> QED BY <1>2, <2>1 DEF OpenPc
<1>5. CASE ReplayAnswer(q)
  <2> DEFINE pc == IF reader[q].pc = "compacted" THEN "close"
                   ELSE IF reader[q].rows = {} THEN "live" ELSE "push"
             new == [sub[q] EXCEPT !.pc = pc, !.page = reader[q].rows]
  <2>1. SubStep(q, new)
    BY <1>5 DEF ReplayAnswer
  <2>2. pc \in OpenPc \cup {"close"}
    BY DEF OpenPc
  <2> HIDE DEF pc
  <2>3. new.pc = pc
    BY <1>1 DEF SubState
  <2> HIDE DEF new
  <2> QED BY <1>2, <2>1, <2>2, <2>3
<1>6. CASE ReplayPush(q)
  <2> DEFINE pc == IF Cardinality(sub[q].page) < PollBatchSize THEN "live" ELSE "replay"
             new(last) == [sub[q] EXCEPT !.ch = Append(sub[q].ch, sub[q].page), !.page = {},
                              !.replayRev = last, !.pc = pc]
  <2>1. PICK last : SubStep(q, new(last))
    BY <1>6 DEF ReplayPush
  <2>2. pc \in OpenPc \cup {"close"}
    BY DEF OpenPc
  <2> HIDE DEF pc
  <2>3. new(last).pc = pc
    BY <1>1 DEF SubState
  <2> HIDE DEF new
  <2> QED BY <1>2, <2>1, <2>2, <2>3
<1>7. CASE Leave(q)
  <2>1. SubStep(q, [sub[q] EXCEPT !.pc = "close", !.page = {}])
    BY <1>7 DEF Leave
  <2>2. [sub[q] EXCEPT !.pc = "close", !.page = {}].pc = "close"
    BY <1>1 DEF SubState
  <2> QED BY <1>2, <2>1, <2>2
<1>8. CASE ReadGoesOn(q)
  BY <1>1, <1>8, RoomStays DEF ReadGoesOn, watchState
<1>9. CASE MarkClosed(q)
  <2> DEFINE new == [sub[q] EXCEPT !.pc = "remove", !.closed = TRUE]
  <2>1. sub' = [sub EXCEPT ![q] = new] /\ out' = out /\ new.pc = "remove"
    BY <1>1, <1>9 DEF MarkClosed, SubState
  <2> HIDE DEF new
  <2> QED BY <1>1, <2>1, GoroutineRoom
<1>10. CASE removeSub(q)
  <2> DEFINE new == [sub[q] EXCEPT !.pc = "drain", !.registered = FALSE, !.cancelled = TRUE]
  <2>1. sub' = [sub EXCEPT ![q] = new] /\ out' = out /\ new.pc = "drain"
    BY <1>1, <1>10 DEF removeSub, SubStep, SubState
  <2> HIDE DEF new
  <2> QED BY <1>1, <2>1, GoroutineRoom
<1>11. CASE Drain(q)
  <2>1. CASE sub[q].ch = <<>>
    <3> DEFINE new == [sub[q] EXCEPT !.pc = "sentinel"]
    <3>1. sub' = [sub EXCEPT ![q] = new] /\ out' = out
      BY <1>11, <2>1 DEF Drain, SubStep
    <3>2. new.ch = <<>>
      BY <1>1, <2>1 DEF SubState
    <3> HIDE DEF new
    <3> QED BY <1>1, <3>1, <3>2, GoroutineRoom
  <2>2. CASE sub[q].ch # <<>>
    <3> DEFINE new == [sub[q] EXCEPT !.ch = Tail(sub[q].ch)]
    <3>1. sub' = [sub EXCEPT ![q] = new] /\ out' = out /\ sub[q].pc = "drain"
      BY <1>11, <2>2 DEF Drain, SubStep
    <3>2. new.pc = "drain"
      BY <1>1, <3>1 DEF SubState
    <3> HIDE DEF new
    <3> QED BY <1>1, <3>1, <3>2, GoroutineRoom
  <2> QED BY <2>1, <2>2
<1>12. CASE SendSentinel(q)
  <2> DEFINE new == [sub[q] EXCEPT !.pc = "gone",
                        !.ch = IF Len(sub[q].ch) < Depth THEN Append(sub[q].ch, Sentinel) ELSE sub[q].ch]
  <2>1. sub' = [sub EXCEPT ![q] = new] /\ out' = out /\ new.pc = "gone"
    BY <1>1, <1>12 DEF SendSentinel, SubStep, SubState
  <2> HIDE DEF new
  <2> QED BY <1>1, <2>1, GoroutineRoom
<1> QED BY <1>3, <1>4, <1>5, <1>6, <1>7, <1>8, <1>9, <1>10, <1>11, <1>12 DEF GoroutineStep

\* The client goes away, or its watchLoop takes a batch.
LEMMA ClientRoom ==
    ASSUME WatchIInv, WatchTypes', NEW q \in Sub, Cancel(q) \/ Receive(q), NEW s \in Sub, Room(s)
    PROVE  Room(s)'
<1>1. WatchTypes /\ sub[q] \in SubState /\ sub[q].ch \in Seq(SUBSET Row)
  BY DEF WatchIInv, WatchTypes, SubState
<1>2. CASE Cancel(q)
  <2> DEFINE new == [sub[q] EXCEPT !.cancelled = TRUE]
  <2>1. sub' = [sub EXCEPT ![q] = new] /\ out' = out /\ new.pc = sub[q].pc /\ new.ch = sub[q].ch
    BY <1>1, <1>2 DEF Cancel, SubState
  <2> HIDE DEF new
  <2>2. Len(new.ch) <= Len(sub[q].ch)
    BY <1>1, <2>1, SMTT(60)
  <2> QED BY <1>1, <2>1, <2>2, GoroutineRoom
<1>3. CASE Receive(q)
  <2> DEFINE new == [sub[q] EXCEPT !.ch = Tail(sub[q].ch)]
  <2>1. /\ sub' = [sub EXCEPT ![q] = new] /\ out' = out /\ sub[q].ch # <<>>
        /\ new.pc = sub[q].pc /\ new.ch = Tail(sub[q].ch)
    BY <1>1, <1>3 DEF Receive, SubState
  <2> HIDE DEF new
  <2>2. Len(new.ch) <= Len(sub[q].ch)
    BY <1>1, <2>1, SMTT(60)
  <2> QED BY <1>1, <2>1, <2>2, GoroutineRoom
<1> QED BY <1>2, <1>3

\* Every step leaves as much room as the dispatchers may still need.
LEMMA RoomNext ==
    ASSUME WatchIInv, WatchIInv', [WatchNext]_watchVars, NEW s \in Sub, Room(s)
    PROVE  Room(s)'
<1>1. WatchTypes /\ WatchTypes' /\ ReadIInv
  BY DEF WatchIInv
<1>2. CASE UNCHANGED <<sub, out>>
  BY <1>1, <1>2, RoomStays
<1>3. CASE PollAnswer
  <2>1. /\ Dispatch("poll", reader[Poller].rows) /\ sub' = sub /\ "poll" \in Dispatcher
        /\ reader[Poller].rows \in SUBSET Row
    BY <1>1, <1>3, StoreTypes, WatchConstants DEF PollAnswer, Dispatcher
  <2> QED BY <1>1, <2>1, DispatchRoom
<1>4. ASSUME NEW p \in Partition, dispatchFromCS(p) PROVE Room(s)'
  <2>1. PICK rows \in SUBSET written : Dispatch(p, rows) /\ sub' = sub
    BY <1>4 DEF dispatchFromCS
  <2>2. rows \in SUBSET Row /\ p \in Dispatcher
    BY <1>1, StoreTypes DEF Dispatcher
  <2> QED BY <1>1, <2>1, <2>2, DispatchRoom
<1>5. ASSUME NEW d \in Dispatcher, DispatchStep(d) PROVE Room(s)'
  BY <1>1, <1>5, LookRoom, SendRoom DEF DispatchStep
<1>6. ASSUME NEW q \in Sub, NEW a \in WatchRequest, subscribe(q, a) PROVE Room(s)'
  <2> DEFINE new == [NoSub EXCEPT !.pc = IF a.afterRev = 0 THEN "live" ELSE "check",
                        !.range = a.range, !.keys = Watched(a.range), !.after = a.afterRev,
                        !.registered = TRUE, !.start = clock]
  <2>1. sub' = [sub EXCEPT ![q] = new] /\ out' = out
    BY <1>6 DEF subscribe, SubStep
  <2>2. new.pc # "sentinel"
    BY DEF NoSub
  <2> HIDE DEF new
  <2> QED BY <1>1, <2>1, <2>2, GoroutineRoom
<1>7. ASSUME NEW q \in Sub, GoroutineStep(q) PROVE Room(s)'
  BY <1>1, <1>7, GoroutineStepRoom
<1>8. ASSUME NEW q \in Sub, ReplayError(q) PROVE Room(s)'
  <2>1. sub' = [sub EXCEPT ![q] = [sub[q] EXCEPT !.pc = "close"]] /\ out' = out
    BY <1>8 DEF ReplayError, SubStep
  <2>2. [sub[q] EXCEPT !.pc = "close"].pc = "close"
    BY <1>1 DEF WatchTypes, SubState
  <2> QED BY <1>1, <2>1, <2>2, GoroutineRoom
<1>9. ASSUME NEW q \in Sub, Cancel(q) \/ Receive(q) PROVE Room(s)'
  BY <1>1, <1>9, ClientRoom
<1>10. CASE \/ StoreStep /\ UNCHANGED <<reader, watchState>>
            \/ PollStart \/ PollAsk \/ PollDone \/ ReadGoesOn(Poller) \/ PollError
            \/ UNCHANGED watchVars
  <2>1. UNCHANGED <<sub, out>>
    BY <1>10 DEF PollStart, PollAsk, PollDone, ReadGoesOn, PollError, watchVars, watchState
  <2> QED BY <1>2, <2>1
<1> QED BY <1>3, <1>4, <1>5, <1>6, <1>7, <1>8, <1>9, <1>10 DEF WatchNext, PollStep

\* The drained channel has room for closedSentinel whatever the dispatchers do,
\* as long as they (the poll loop and one worker per partition) are fewer than
\* the places of the channel: subChannelDepth is 100.
THEOREM SentinelAlwaysFits == WatchSpec => []SentinelFits
<1> DEFINE Rooms == \A s \in Sub : Room(s)
<1>1. WatchInit => Rooms
  <2> SUFFICES ASSUME WatchInit, NEW s \in Sub PROVE Room(s)
    OBVIOUS
  <2>1. sub[s].pc = "off"
    BY DEF WatchInit, NoSub
  <2> QED BY <2>1 DEF Room
<1>2. WatchIInv /\ WatchIInv' /\ Rooms /\ [WatchNext]_watchVars => Rooms'
  BY RoomNext
<1>3. WatchIInv /\ Rooms => SentinelFits
  <2> SUFFICES ASSUME WatchIInv, Rooms, Cardinality(Dispatcher) < Depth, NEW s \in Sub, sub[s].pc = "sentinel"
               PROVE  Len(sub[s].ch) < Depth
    BY DEF SentinelFits
  <2>1. Len(sub[s].ch) + Cardinality(Senders(s)) <= Cardinality(Dispatcher)
    BY DEF Room
  <2>2. Senders(s) \subseteq Dispatcher
    BY DEF Senders
  <2>3. Cardinality(Senders(s)) \in Nat
    BY <2>2, DispatchersFinite, PartCount
  <2>4. Len(sub[s].ch) \in Nat /\ Depth \in Nat
    <3>1. sub[s].ch \in Seq(SUBSET Row)
      BY SubFields
    <3> QED BY <3>1, WatchAssumption, SMTT(60)
  <2> HIDE DEF Senders
  <2> QED BY <2>1, <2>3, <2>4, DispatchersFinite, SMTT(60)
<1> HIDE DEF Rooms
<1>4. WatchSpec => []Rooms
  BY <1>1, <1>2, WatchInvariance, PTL DEF WatchSpec
<1> QED BY <1>3, <1>4, WatchInvariance, PTL

=============================================================================
