--------------------------- MODULE WatcherProofs ---------------------------
(***************************************************************************)
(* Proofs about Watcher, for any number of subscriptions and of partition  *)
(* workers, and any requests, page size and channel depth.                 *)
(*                                                                         *)
(* WatchIInv says what the goroutines, the dispatchers and the reads are   *)
(* about to do.                                                            *)
(*                                                                         *)
(* The last sections begin the proof that no event is missed: DeliveryInv, *)
(* and the steps that begin and end a subscription.  DeliveryProofs has    *)
(* the other steps and the theorem.                                        *)
(***************************************************************************)
EXTENDS Watcher, StoreProofs

\* Zenon is the prover of a step that does not name another; it has a minute.
USE ZenonT(60)

-----------------------------------------------------------------------------
(* Types. *)

\* The goroutine of a subscription, in the order of its steps.
OpenPc == {"check", "replay", "read", "push", "live"}

ClosedPc == {"remove", "drain", "sentinel", "gone"}

SubState == [pc : {"off", "close"} \cup OpenPc \cup ClosedPc, range : KeyRange,
             keys : SUBSET Key, after : Revision, replayRev : Revision, page : SUBSET Row,
             ch : Seq(SUBSET Row), registered : BOOLEAN, closed : BOOLEAN,
             cancelled : BOOLEAN, start : Revision]

OutState == [rows : SUBSET Row, to : SUBSET Sub, subs : SUBSET Sub]

PollState == [pc : {"start", "wait", "read", "send"}, lastRev : Revision, first : Revision]

WatchTypes ==
    /\ poll \in PollState
    /\ sub \in [Sub -> SubState]
    /\ out \in [Dispatcher -> OutState]
    /\ got \in [Sub -> SUBSET Row]

\* The read of the poll loop, and of a replay.
AfterRequest(keys, rev) ==
    [op |-> "after", keys |-> keys, limit |-> PollBatchSize, revision |-> rev]

PollReads ==
    /\ reader[Poller].pc # "idle" <=> poll.pc = "read"
    /\ poll.pc = "read" => reader[Poller].req = AfterRequest(Key, poll.lastRev)
    /\ poll.lastRev <= clock /\ reader[Poller].currentRev <= clock
    /\ reader[Poller].pc = "answered" => reader[Poller].currentRev <= reader[Poller].asOf
    /\ poll.pc # "send" => out["poll"].subs = {}

\* Somebody asked for these keys.
Asked(range, keys) == \E q \in WatchRequest : range = q.range /\ keys = Watched(q.range)

\* A subscription x is asked for once, reads (rd) only while it replays and is
\* closed for good.  now is the last commit.
SubOK(x, rd, now) ==
    /\ rd.pc # "idle" <=> x.pc = "read"
    /\ x.pc = "read" => rd.req = AfterRequest(Replayed(x.range), x.replayRev)
    /\ rd.pc = "answered" => x.start <= rd.asOf
    /\ x.start <= now
    /\ x.pc # "off" => Asked(x.range, x.keys)
    /\ x.pc \in OpenPc => x.registered /\ ~x.closed
    /\ x.pc \in OpenPc \ {"live"} => x.after > 0
    /\ x.pc \in ClosedPc => x.closed

SubWell(s) == SubOK(sub[s], reader[s], clock)

\* What holds however far behind the poll loop is.
WatchIInv == ReadIInv /\ WatchTypes /\ PollReads /\ \A s \in Sub : SubWell(s)

-----------------------------------------------------------------------------
(* Facts about the constants and the records. *)

\* Readers, revisions and requests are what the actions need them to be.
LEMMA WatchConstants ==
    /\ Sub \subseteq Reader /\ Poller \in Reader /\ Poller \notin Sub
    /\ Revision \subseteq Nat /\ 0 \in Revision
    /\ \A keys \in SUBSET Key, rev \in Revision : AfterRequest(keys, rev) \in Request
    /\ \A q : Watched(q) \subseteq Key /\ Replayed(q) \subseteq Key
<1>1. Sub \subseteq Reader /\ Poller \in Reader /\ Poller \notin Sub
  BY WatchAssumption
<1>2. Revision \subseteq Nat /\ 0 \in Revision
  BY StoreAssumption, SMTT(60) DEF Revision
<1>3. \A keys \in SUBSET Key, rev \in Revision : AfterRequest(keys, rev) \in Request
  BY WatchAssumption DEF AfterRequest, Request
<1>4. \A q : Watched(q) \subseteq Key /\ Replayed(q) \subseteq Key
  BY WatchAssumption DEF Watched, Replayed
<1> QED BY <1>1, <1>2, <1>3, <1>4

\* A subscription that has not been asked for, and an idle dispatcher.
LEMMA NoTypes == NoSub \in SubState /\ NoDispatch \in OutState
<1>1. <<>> \in Seq(SUBSET Row) /\ [key |-> <<>>, end |-> <<>>] \in KeyRange
  BY SMTT(60) DEF KeyRange
<1>2. NoSub \in SubState
  BY <1>1, WatchConstants DEF NoSub, SubState
<1>3. NoDispatch \in OutState
  BY DEF NoDispatch, OutState
<1> QED BY <1>2, <1>3

\* The process starts.
LEMMA WatchInitially == WatchInit => WatchIInv
<1> SUFFICES ASSUME WatchInit PROVE WatchIInv
  OBVIOUS
<1>1. /\ ReadInit /\ poll = [pc |-> "start", lastRev |-> 0, first |-> 0]
      /\ sub = [s \in Sub |-> NoSub] /\ out = [d \in Dispatcher |-> NoDispatch]
      /\ got = [s \in Sub |-> {}]
  BY DEF WatchInit
<1>2. ReadIInv /\ \A r \in Reader : reader[r] = NoRead
  BY <1>1, ReadInitIInv DEF ReadInit
<1>3. clock \in Nat
  BY <1>2, WatchConstants DEF ReadIInv, IInv, TypeOK
<1>4. WatchTypes
  BY <1>1, NoTypes, WatchConstants DEF WatchTypes, PollState
<1>5. PollReads
  <2>1. reader[Poller].pc = "idle" /\ reader[Poller].currentRev = 0 /\ poll.pc = "start" /\ poll.lastRev = 0
    BY <1>1, <1>2, WatchConstants, SMTT(60) DEF NoRead
  <2>2. out["poll"].subs = {}
    BY <1>1 DEF Dispatcher, NoDispatch
  <2>3. 0 <= clock
    BY <1>3, SMTT(60)
  <2> QED BY <2>1, <2>2, <2>3 DEF PollReads
<1>6. ASSUME NEW s \in Sub PROVE SubWell(s)
  <2>1. reader[s].pc = "idle" /\ sub[s] = NoSub /\ got[s] = {}
    BY <1>1, <1>2, WatchConstants, SMTT(60) DEF NoRead
  <2>2. sub[s].pc = "off" /\ sub[s].start <= clock /\ sub[s].ch = <<>>
    BY <1>3, <2>1, SMTT(60) DEF NoSub
  <2> QED BY <2>1, <2>2 DEF SubWell, SubOK, OpenPc, ClosedPc
<1> QED BY <1>2, <1>4, <1>5, <1>6 DEF WatchIInv

-----------------------------------------------------------------------------
(* The invariant of one subscription. *)

\* Nothing of s changes.
LEMMA SubStays ==
    ASSUME NEW s \in Sub, SubWell(s), sub[s] \in SubState, clock \in Nat, clock' \in Nat, clock <= clock',
           sub'[s] = sub[s], reader'[s] = reader[s]
    PROVE  SubWell(s)'
<1> DEFINE x == sub[s]
<1>1. SubOK(x, reader[s], clock)
  BY DEF SubWell
<1>2. x.start <= clock'
  <2>1. x.start \in Nat /\ x.start <= clock
    <3>1. x.start \in Revision /\ x.start <= clock
      BY <1>1 DEF SubState, SubOK
    <3> QED BY <3>1, WatchConstants
  <2> QED BY <2>1, SMTT(60)
<1> HIDE DEF x
<1>3. SubOK(x, reader[s], clock')
  BY <1>1, <1>2 DEF SubOK
<1> QED BY <1>3 DEF SubWell, x

\* s goes on to new, which keeps what it was asked for, when new is well.
LEMMA SubGoesOn ==
    ASSUME NEW s \in Sub, SubWell(s), NEW new, sub'[s] = new, clock' = clock,
           new.pc # "off" => sub[s].pc # "off",
           new.range = sub[s].range, new.keys = sub[s].keys, new.start = sub[s].start,
           reader'[s].pc # "idle" <=> new.pc = "read",
           new.pc = "read" => reader'[s].req = AfterRequest(Replayed(new.range), new.replayRev),
           reader'[s].pc = "answered" => new.start <= reader'[s].asOf,
           new.pc \in OpenPc => new.registered /\ ~new.closed,
           new.pc \in OpenPc \ {"live"} => new.after > 0,
           new.pc \in ClosedPc => new.closed
    PROVE  SubWell(s)'
<1>1. SubOK(sub[s], reader[s], clock)
  BY DEF SubWell
<1>2. new.start <= clock /\ (new.pc # "off" => Asked(new.range, new.keys))
  BY <1>1 DEF SubOK
<1> DEFINE rd == reader'[s]
<1>3. SubOK(new, rd, clock)
  <2> HIDE DEF rd
  <2> QED BY <1>2 DEF SubOK, rd
<1> QED BY <1>3 DEF SubWell

\* The type of the subscriptions when one goes on.
LEMMA SubsTyped ==
    ASSUME WatchTypes, NEW s \in Sub, NEW new \in SubState, sub' = [sub EXCEPT ![s] = new]
    PROVE  /\ sub' \in [Sub -> SubState] /\ sub'[s] = new
           /\ \A q \in Sub : q # s => sub'[q] = sub[q]
  BY DEF WatchTypes

\* The state of a subscription, for the steps that change some of its fields.
LEMMA SubFields ==
    ASSUME WatchIInv, NEW s \in Sub
    PROVE  /\ sub[s] \in SubState /\ SubWell(s) /\ sub[s].ch \in Seq(SUBSET Row)
           /\ sub[s].after \in Revision /\ sub[s].replayRev \in Revision /\ sub[s].page \subseteq Row
           /\ sub[s].keys \subseteq Key /\ sub[s].start \in Nat /\ sub[s].start <= clock
           /\ got[s] \subseteq Row
<1>1. sub[s] \in SubState /\ SubWell(s) /\ got[s] \subseteq Row
  BY DEF WatchIInv, WatchTypes
<1>2. /\ sub[s].ch \in Seq(SUBSET Row) /\ sub[s].after \in Revision /\ sub[s].replayRev \in Revision
      /\ sub[s].page \subseteq Row /\ sub[s].keys \subseteq Key /\ sub[s].start \in Revision
  BY <1>1 DEF SubState
<1>3. sub[s].start <= clock
  BY <1>1 DEF SubWell, SubOK
<1> QED BY <1>1, <1>2, <1>3, WatchConstants

\* A step of s alone, its goroutine, dispatcher or client.
LEMMA SubKeeps ==
    ASSUME WatchIInv, ReadIInv', clock' = clock, NEW s \in Sub, NEW new \in SubState,
           sub' = [sub EXCEPT ![s] = new], UNCHANGED <<poll, out>>,
           \A q \in Reader : q # s => reader'[q] = reader[q],
           got' \in [Sub -> SUBSET Row],
           SubWell(s)'
    PROVE  WatchIInv'
<1>1. ReadIInv /\ WatchTypes /\ PollReads /\ \A q \in Sub : SubWell(q) /\ sub[q] \in SubState
  BY DEF WatchIInv, WatchTypes
<1>2. clock \in Nat
  BY <1>1, StoreTypes
<1>3. sub' \in [Sub -> SubState] /\ \A q \in Sub : q # s => sub'[q] = sub[q]
  BY <1>1, SubsTyped
<1>4. WatchTypes'
  BY <1>1, <1>3 DEF WatchTypes
<1>5. PollReads'
  <2>1. reader'[Poller] = reader[Poller]
    BY WatchConstants
  <2> QED BY <1>1, <2>1 DEF PollReads
<1>6. ASSUME NEW q \in Sub, q # s PROVE SubWell(q)'
  <2>1. reader'[q] = reader[q] /\ sub'[q] = sub[q]
    BY <1>3, <1>6, WatchConstants
  <2>2. clock <= clock' /\ clock' \in Nat
    BY <1>2, SMTT(60)
  <2> QED BY <1>1, <1>2, <2>1, <2>2, SubStays
<1> QED BY <1>4, <1>5, <1>6 DEF WatchIInv

\* A step of the poll loop or of the change stream.
LEMMA PollKeeps ==
    ASSUME WatchIInv, ReadIInv', clock' = clock, UNCHANGED <<sub, got>>,
           \A q \in Reader : q # Poller => reader'[q] = reader[q],
           poll' \in PollState, out' \in [Dispatcher -> OutState],
           PollReads'
    PROVE  WatchIInv'
<1>1. ReadIInv /\ WatchTypes /\ \A q \in Sub : SubWell(q) /\ sub[q] \in SubState
  BY DEF WatchIInv, WatchTypes
<1>2. clock \in Nat
  BY <1>1, StoreTypes
<1>3. WatchTypes'
  BY <1>1 DEF WatchTypes
<1>4. ASSUME NEW q \in Sub PROVE SubWell(q)'
  <2>1. reader'[q] = reader[q] /\ sub'[q] = sub[q]
    BY WatchConstants
  <2>2. clock <= clock' /\ clock' \in Nat
    BY <1>2, SMTT(60)
  <2> QED BY <1>1, <1>2, <2>1, <2>2, SubStays
<1> QED BY <1>3, <1>4 DEF WatchIInv

-----------------------------------------------------------------------------
(* The dispatchers. *)

\* A batch is given to the subscribers registered for some row of it.
LEMMA DispatchGives ==
    ASSUME WatchTypes, NEW d \in Dispatcher, NEW rows \in SUBSET Row, Dispatch(d, rows)
    PROVE  /\ out' \in [Dispatcher -> OutState] /\ out'[d].to = {}
           /\ \A e \in Dispatcher : e # d => out'[e] = out[e]
           /\ \A q \in Sub : sub[q].registered /\ Matching(q, rows) # {}
                                => q \in out'[d].subs /\ out'[d].rows = rows
<1> DEFINE subs == {s \in Sub : sub[s].registered /\ Matching(s, rows) # {}}
           some == [rows |-> rows, to |-> {}, subs |-> subs]
<1>1. subs \subseteq Sub /\ \A q \in Sub : sub[q].registered /\ Matching(q, rows) # {} => q \in subs
  OBVIOUS
<1>2. out' = [out EXCEPT ![d] = IF subs = {} THEN NoDispatch ELSE some]
  BY DEF Dispatch
<1>3. out \in [Dispatcher -> OutState]
  BY DEF WatchTypes
<1> HIDE DEF subs
<1>4. some \in OutState /\ some.to = {} /\ some.subs = subs /\ some.rows = rows
  BY <1>1 DEF OutState
<1>5. NoDispatch.to = {}
  BY DEF NoDispatch
<1> HIDE DEF some
<1>6. CASE subs = {}
  <2>1. out' = [out EXCEPT ![d] = NoDispatch]
    BY <1>2, <1>6
  <2> QED BY <1>1, <1>3, <1>5, <1>6, <2>1, NoTypes
<1>7. CASE subs # {}
  <2>1. out' = [out EXCEPT ![d] = some]
    BY <1>2, <1>7
  <2> QED BY <1>1, <1>3, <1>4, <2>1
<1> QED BY <1>6, <1>7

\* A dispatcher is through with s, and goes on to the others.
LEMMA ServedGoesOn ==
    ASSUME WatchTypes, NEW d \in Dispatcher, NEW s \in Sub, ServedBy(d, s)
    PROVE  /\ out' \in [Dispatcher -> OutState] /\ out'[d].to = {}
           /\ \A e \in Dispatcher : e # d => out'[e] = out[e]
           /\ out'[d].subs = out[d].subs \ {s}
           /\ \A q \in Sub : q # s /\ q \in out[d].subs
                                => q \in out'[d].subs /\ out'[d].rows = out[d].rows
<1> DEFINE less == [out[d] EXCEPT !.to = {}, !.subs = out[d].subs \ {s}]
<1>1. out \in [Dispatcher -> OutState] /\ out[d] \in OutState
  BY DEF WatchTypes
<1>2. out' = [out EXCEPT ![d] = IF out[d].subs = {s} THEN NoDispatch ELSE less]
  BY <1>1 DEF ServedBy
<1>3. less \in OutState /\ less.to = {} /\ less.subs = out[d].subs \ {s} /\ less.rows = out[d].rows
  BY <1>1 DEF OutState
<1>4. NoDispatch.to = {} /\ NoDispatch.subs = {}
  BY DEF NoDispatch
<1> HIDE DEF less
<1>5. CASE out[d].subs = {s}
  <2>1. out' = [out EXCEPT ![d] = NoDispatch]
    BY <1>2, <1>5
  <2>2. out[d].subs \ {s} = {}
    BY <1>5
  <2>3. out' \in [Dispatcher -> OutState] /\ out'[d] = NoDispatch
        /\ \A e \in Dispatcher : e # d => out'[e] = out[e]
    BY <1>1, <2>1, NoTypes
  <2>4. \A q \in Sub : ~(q # s /\ q \in out[d].subs)
    BY <1>5
  <2> QED BY <1>4, <2>2, <2>3, <2>4
<1>6. CASE out[d].subs # {s}
  <2>1. out' = [out EXCEPT ![d] = less]
    BY <1>2, <1>6
  <2>2. out' \in [Dispatcher -> OutState] /\ out'[d] = less
        /\ \A e \in Dispatcher : e # d => out'[e] = out[e]
    BY <1>1, <1>3, <2>1
  <2> QED BY <1>3, <2>2
<1> QED BY <1>5, <1>6

\* A dispatcher looks at the closed flag of s, and turns to it if it is not set.
LEMMA LookStep ==
    ASSUME WatchTypes, NEW d \in Dispatcher, NEW s \in Sub, LookClosed(d, s)
    PROVE  /\ out' \in [Dispatcher -> OutState]
           /\ \A e \in Dispatcher : out'[e].subs \subseteq out[e].subs
           /\ \A e \in Dispatcher : \A q \in out'[e].to : q \in out[e].to \/ ~sub[q].closed
<1>1. CASE sub[s].closed
  <2>1. ServedBy(d, s)
    BY <1>1 DEF LookClosed
  <2>2. /\ out' \in [Dispatcher -> OutState] /\ out'[d].to = {} /\ out'[d].subs \subseteq out[d].subs
        /\ \A e \in Dispatcher : e # d => out'[e] = out[e]
    BY <2>1, ServedGoesOn
  <2> QED BY <2>2
<1>2. CASE ~sub[s].closed
  <2> DEFINE new == [out[d] EXCEPT !.to = {s}]
  <2>1. out \in [Dispatcher -> OutState] /\ out[d] \in OutState
    BY DEF WatchTypes
  <2>2. new \in OutState /\ new.to = {s} /\ new.subs = out[d].subs
    BY <2>1 DEF OutState
  <2>3. out' = [out EXCEPT ![d] = new]
    BY <1>2, <2>1 DEF LookClosed
  <2> HIDE DEF new
  <2>4. /\ out' \in [Dispatcher -> OutState] /\ out'[d] = new
        /\ \A e \in Dispatcher : e # d => out'[e] = out[e]
    BY <2>1, <2>2, <2>3
  <2> QED BY <1>2, <2>2, <2>4
<1> QED BY <1>1, <1>2

\* The watcher's state when a dispatcher looks at a closed flag.
LEMMA LookPreserves ==
    ASSUME WatchIInv, NEW d \in Dispatcher, NEW s \in Sub, LookClosed(d, s)
    PROVE  WatchIInv'
<1>1. ReadIInv /\ WatchTypes /\ PollReads /\ \A q \in Sub : SubWell(q) /\ sub[q] \in SubState
  BY DEF WatchIInv, WatchTypes
<1>2. UNCHANGED <<reader, poll, sub, got>> /\ clock' = clock /\ ReadIInv'
  <2>1. UNCHANGED <<vars, reader, poll, sub, got>>
    BY DEF LookClosed
  <2> QED BY <1>1, <2>1, ReadNextIInv DEF vars, readVars
<1>3. /\ out' \in [Dispatcher -> OutState]
      /\ \A e \in Dispatcher : out'[e].subs \subseteq out[e].subs
  BY <1>1, LookStep
<1>4. WatchTypes'
  BY <1>1, <1>2, <1>3 DEF WatchTypes
<1>5. PollReads'
  <2>1. out'["poll"].subs \subseteq out["poll"].subs
    BY <1>3 DEF Dispatcher
  <2>2. poll'.pc # "send" => out'["poll"].subs = {}
    BY <1>1, <1>2, <2>1 DEF PollReads
  <2> QED BY <1>1, <1>2, <2>2 DEF PollReads
<1>6. ASSUME NEW q \in Sub PROVE SubWell(q)'
  <2>1. reader'[q] = reader[q] /\ sub'[q] = sub[q]
    BY <1>2
  <2>2. clock <= clock' /\ clock' \in Nat /\ clock \in Nat
    BY <1>1, <1>2, StoreTypes, SMTT(60)
  <2> QED BY <1>1, <2>1, <2>2, SubStays
<1> QED BY <1>2, <1>4, <1>5, <1>6 DEF WatchIInv

\* What Send does to s: a batch more on the channel, or cancelled.
LEMMA SendStep ==
    ASSUME WatchTypes, NEW d \in Dispatcher, NEW s \in Sub, Send(d, s)
    PROVE  \E new \in SubState :
              /\ sub' = [sub EXCEPT ![s] = new]
              /\ new.pc = sub[s].pc /\ new.range = sub[s].range /\ new.keys = sub[s].keys
              /\ new.after = sub[s].after /\ new.replayRev = sub[s].replayRev
              /\ new.page = sub[s].page /\ new.registered = sub[s].registered
              /\ new.closed = sub[s].closed /\ new.start = sub[s].start
              /\ \/ new.ch = Append(sub[s].ch, Matching(s, out[d].rows)) /\ new.cancelled = sub[s].cancelled
                 \/ new.ch = sub[s].ch /\ new.cancelled
<1>1. sub \in [Sub -> SubState] /\ sub[s] \in SubState /\ out[d] \in OutState
  BY DEF WatchTypes
<1>2. CASE Len(sub[s].ch) < Depth
  <2> DEFINE new == [sub[s] EXCEPT !.ch = Append(sub[s].ch, Matching(s, out[d].rows))]
  <2>1. sub' = [sub EXCEPT ![s] = new]
    BY <1>1, <1>2 DEF Send
  <2>2. Append(sub[s].ch, Matching(s, out[d].rows)) \in Seq(SUBSET Row)
    <3>1. sub[s].ch \in Seq(SUBSET Row) /\ out[d].rows \subseteq Row
      BY <1>1 DEF SubState, OutState
    <3>2. Matching(s, out[d].rows) \in SUBSET Row
      BY <3>1 DEF Matching
    <3> QED BY <3>1, <3>2, SMTT(60)
  <2>3. new \in SubState
    BY <1>1, <2>2 DEF SubState
  <2> QED BY <1>1, <2>1, <2>3 DEF SubState
<1>3. CASE ~(Len(sub[s].ch) < Depth)
  <2> DEFINE new == [sub[s] EXCEPT !.cancelled = TRUE]
  <2>1. sub' = [sub EXCEPT ![s] = new]
    BY <1>1, <1>3 DEF Send
  <2>2. new \in SubState
    BY <1>1 DEF SubState
  <2> QED BY <1>1, <2>1, <2>2 DEF SubState
<1> QED BY <1>2, <1>3

\* A dispatcher sends to s.
LEMMA SendPreserves ==
    ASSUME WatchIInv, NEW d \in Dispatcher, NEW s \in Sub, Send(d, s)
    PROVE  WatchIInv'
<1>1. ReadIInv /\ WatchTypes /\ PollReads /\ \A q \in Sub : SubWell(q) /\ sub[q] \in SubState
  BY DEF WatchIInv, WatchTypes
<1>2. UNCHANGED <<reader, poll, got>> /\ clock' = clock /\ ReadIInv'
  <2>1. UNCHANGED <<vars, reader, poll, got>>
    BY DEF Send
  <2> QED BY <1>1, <2>1, ReadNextIInv DEF vars, readVars
<1>3. /\ out' \in [Dispatcher -> OutState] /\ out'[d].to = {} /\ out'[d].subs = out[d].subs \ {s}
      /\ \A e \in Dispatcher : e # d => out'[e] = out[e]
  BY <1>1, ServedGoesOn DEF Send
<1>4. PICK new \in SubState :
         /\ sub' = [sub EXCEPT ![s] = new]
         /\ new.pc = sub[s].pc /\ new.range = sub[s].range /\ new.keys = sub[s].keys
         /\ new.after = sub[s].after /\ new.replayRev = sub[s].replayRev
         /\ new.page = sub[s].page /\ new.registered = sub[s].registered
         /\ new.closed = sub[s].closed /\ new.start = sub[s].start
         /\ \/ new.ch = Append(sub[s].ch, Matching(s, out[d].rows)) /\ new.cancelled = sub[s].cancelled
            \/ new.ch = sub[s].ch /\ new.cancelled
  BY <1>1, SendStep
<1>5. /\ sub' \in [Sub -> SubState] /\ sub'[s] = new
      /\ \A q \in Sub : q # s => sub'[q] = sub[q]
  BY <1>1, <1>4, SubsTyped
<1>6. WatchTypes'
  BY <1>1, <1>2, <1>3, <1>5 DEF WatchTypes
<1>7. PollReads'
  <2>1. out'["poll"].subs \subseteq out["poll"].subs
    BY <1>3 DEF Dispatcher
  <2>2. poll'.pc # "send" => out'["poll"].subs = {}
    BY <1>1, <1>2, <2>1 DEF PollReads
  <2> QED BY <1>1, <1>2, <2>2 DEF PollReads
<1>8. ASSUME NEW q \in Sub, q # s PROVE SubWell(q)'
  <2>1. reader'[q] = reader[q] /\ sub'[q] = sub[q]
    BY <1>2, <1>5, <1>8
  <2>2. clock <= clock' /\ clock' \in Nat /\ clock \in Nat
    BY <1>1, <1>2, StoreTypes, SMTT(60)
  <2> QED BY <1>1, <2>1, <2>2, SubStays
<1>9. SubWell(s)'
  <2>0. SubOK(sub[s], reader[s], clock)
    BY <1>1 DEF SubWell
  <2>2. SubOK(new, reader[s], clock)
    <3>1. /\ new.pc = sub[s].pc /\ new.range = sub[s].range /\ new.keys = sub[s].keys
          /\ new.after = sub[s].after /\ new.replayRev = sub[s].replayRev
          /\ new.registered = sub[s].registered
          /\ new.closed = sub[s].closed /\ new.start = sub[s].start
      BY <1>4
    <3> QED BY <2>0, <3>1 DEF SubOK
  <2>3. sub'[s] = new /\ reader'[s] = reader[s] /\ clock' = clock
    BY <1>2, <1>5
  <2>4. SubOK(sub'[s], reader'[s], clock')
    BY <2>2, <2>3
  <2> QED BY <2>4 DEF SubWell
<1> QED BY <1>2, <1>6, <1>7, <1>8, <1>9 DEF WatchIInv

-----------------------------------------------------------------------------
(* The poll loop, the change stream and the store. *)

\* pollLoop reads the revision it starts from.
LEMMA PollStartPreserves ==
    ASSUME WatchIInv, PollStart
    PROVE  WatchIInv'
<1>1. ReadIInv /\ WatchTypes /\ PollReads
  BY DEF WatchIInv
<1>2. UNCHANGED <<reader, sub, out, got>> /\ clock' = clock /\ ReadIInv'
  <2>1. UNCHANGED <<vars, reader, sub, out, got>>
    BY DEF PollStart
  <2> QED BY <1>1, <2>1, ReadNextIInv DEF vars, readVars
<1>3. clock \in Revision /\ clock \in Nat /\ CurrentRevision = clock
  BY <1>1, StoreTypes
<1>4. PICK rev \in {0, CurrentRevision} : poll' = [pc |-> "wait", lastRev |-> rev, first |-> CurrentRevision]
  BY DEF PollStart
<1>5. rev \in Revision /\ rev <= clock
  BY <1>3, <1>4, WatchConstants, SMTT(60)
<1>6. poll' \in PollState /\ poll'.pc = "wait" /\ poll'.lastRev = rev
  BY <1>3, <1>4, <1>5 DEF PollState
<1>7. PollReads'
  <2>1. reader[Poller].pc = "idle" /\ out["poll"].subs = {} /\ reader[Poller].currentRev <= clock
    BY <1>1 DEF PollReads, PollStart
  <2> QED BY <1>2, <1>5, <1>6, <2>1 DEF PollReads
<1> QED BY <1>1, <1>2, <1>6, <1>7, PollKeeps DEF WatchTypes

\* The poll loop calls After.
LEMMA PollAskPreserves ==
    ASSUME WatchIInv, PollAsk
    PROVE  WatchIInv'
<1>1. ReadIInv /\ WatchTypes /\ PollReads /\ poll \in PollState
  BY DEF WatchIInv, WatchTypes
<1>2. UNCHANGED <<sub, out, got>> /\ poll.pc = "wait" /\ poll' = [poll EXCEPT !.pc = "read"]
  BY DEF PollAsk
<1>3. /\ poll' \in PollState /\ poll'.pc = "read" /\ poll'.lastRev = poll.lastRev
      /\ poll.lastRev \in Revision
  BY <1>1, <1>2 DEF PollState
<1>4. AfterRequest(Key, poll.lastRev) \in Request
  <2>1. Key \in SUBSET Key
    OBVIOUS
  <2> QED BY <1>3, <2>1, WatchConstants
<1>5. After(Poller, AfterRequest(Key, poll.lastRev))
  BY DEF PollAsk, AfterRequest
<1>6. /\ ReadIInv' /\ OnlyReader(Poller)
      /\ reader'[Poller].pc \in {"check", "query"}
      /\ reader'[Poller].req = AfterRequest(Key, poll.lastRev)
      /\ reader'[Poller].currentRev = clock
  BY <1>1, <1>4, <1>5, ReadBegins, WatchConstants
<1>7. clock' = clock /\ \A q \in Reader : q # Poller => reader'[q] = reader[q]
  BY <1>6 DEF OnlyReader, vars
<1>8. clock <= clock
  BY <1>1, StoreTypes, SMTT(60)
<1>9. PollReads'
  BY <1>1, <1>2, <1>3, <1>6, <1>7, <1>8 DEF PollReads
<1> QED BY <1>1, <1>2, <1>3, <1>6, <1>7, <1>9, PollKeeps DEF WatchTypes

\* The poll loop gets rows, or ErrCompacted, and hands the rows out.
LEMMA PollAnswerPreserves ==
    ASSUME WatchIInv, PollAnswer
    PROVE  WatchIInv'
<1>1. ReadIInv /\ WatchTypes /\ PollReads /\ poll \in PollState
  BY DEF WatchIInv, WatchTypes
<1>2. /\ UNCHANGED <<sub, got>> /\ UNCHANGED vars /\ reader' = [reader EXCEPT ![Poller] = NoRead]
      /\ poll' = [poll EXCEPT !.pc = "send", !.lastRev = reader[Poller].currentRev]
      /\ Dispatch("poll", reader[Poller].rows)
  BY DEF PollAnswer
<1>3. reader[Poller].currentRev \in Revision /\ reader[Poller].rows \subseteq Row
  BY <1>1, StoreTypes, WatchConstants
<1>4. poll' \in PollState /\ poll'.pc = "send" /\ poll'.lastRev = reader[Poller].currentRev
  BY <1>1, <1>2, <1>3 DEF PollState
<1>5. /\ ReadIInv' /\ OnlyReader(Poller) /\ reader'[Poller].pc = "idle" /\ reader'[Poller].currentRev = 0
  BY <1>1, <1>2, ReadEnds, WatchConstants
<1>6. clock' = clock /\ \A q \in Reader : q # Poller => reader'[q] = reader[q]
  BY <1>5 DEF OnlyReader, vars
<1>7. "poll" \in Dispatcher
  BY DEF Dispatcher
<1>8. /\ out' \in [Dispatcher -> OutState] /\ out'["poll"].to = {}
      /\ \A e \in Dispatcher : e # "poll" => out'[e] = out[e]
  BY <1>1, <1>2, <1>3, <1>7, DispatchGives
<1>9. PollReads'
  <2>1. 0 <= clock
    BY <1>1, StoreTypes, SMTT(60)
  <2>2. reader[Poller].currentRev <= clock
    BY <1>1 DEF PollReads
  <2> QED BY <1>4, <1>5, <1>6, <2>1, <2>2 DEF PollReads
<1> QED BY <1>2, <1>4, <1>5, <1>6, <1>8, <1>9, PollKeeps

\* The poll loop gets an error and waits.
LEMMA PollErrorPreserves ==
    ASSUME WatchIInv, PollError
    PROVE  WatchIInv'
<1>1. ReadIInv /\ WatchTypes /\ PollReads /\ poll \in PollState
  BY DEF WatchIInv, WatchTypes
<1>2. /\ UNCHANGED <<sub, out, got>> /\ UNCHANGED vars /\ reader' = [reader EXCEPT ![Poller] = NoRead]
      /\ poll' = [poll EXCEPT !.pc = "wait"] /\ reader[Poller].pc # "idle"
  BY DEF PollError, ReadError
<1>4. poll' \in PollState /\ poll'.pc = "wait" /\ poll'.lastRev = poll.lastRev
  BY <1>1, <1>2 DEF PollState
<1>5. /\ ReadIInv' /\ OnlyReader(Poller) /\ reader'[Poller].pc = "idle" /\ reader'[Poller].currentRev = 0
  BY <1>1, <1>2, ReadEnds, WatchConstants
<1>6. clock' = clock /\ \A q \in Reader : q # Poller => reader'[q] = reader[q]
  BY <1>5 DEF OnlyReader, vars
<1>7. PollReads'
  <2>1. 0 <= clock
    BY <1>1, StoreTypes, SMTT(60)
  <2>2. poll.lastRev <= clock /\ out["poll"].subs = {}
    BY <1>1, <1>2 DEF PollReads
  <2> QED BY <1>2, <1>4, <1>5, <1>6, <2>1, <2>2 DEF PollReads
<1> QED BY <1>1, <1>2, <1>4, <1>5, <1>6, <1>7, PollKeeps DEF WatchTypes

\* The poll loop has handed its rows out.
LEMMA PollDonePreserves ==
    ASSUME WatchIInv, PollDone
    PROVE  WatchIInv'
<1>1. ReadIInv /\ WatchTypes /\ PollReads /\ poll \in PollState
  BY DEF WatchIInv, WatchTypes
<1>2. UNCHANGED <<reader, sub, out, got>> /\ clock' = clock /\ ReadIInv'
  <2>1. UNCHANGED <<vars, reader, sub, out, got>>
    BY DEF PollDone
  <2> QED BY <1>1, <2>1, ReadNextIInv DEF vars, readVars
<1>3. poll' = [poll EXCEPT !.pc = "wait"] /\ poll.pc = "send" /\ out["poll"].subs = {}
  BY DEF PollDone
<1>4. poll' \in PollState /\ poll'.pc = "wait" /\ poll'.lastRev = poll.lastRev
  BY <1>1, <1>3 DEF PollState
<1>5. PollReads'
  BY <1>1, <1>2, <1>3, <1>4 DEF PollReads
<1> QED BY <1>1, <1>2, <1>4, <1>5, PollKeeps DEF WatchTypes

\* A worker of the change stream hands out a record.
LEMMA ChangeStreamPreserves ==
    ASSUME WatchIInv, NEW p \in Partition, dispatchFromCS(p)
    PROVE  WatchIInv'
<1>1. ReadIInv /\ WatchTypes /\ PollReads
  BY DEF WatchIInv
<1>2. UNCHANGED <<reader, poll, sub, got>> /\ clock' = clock /\ ReadIInv'
  <2>1. UNCHANGED <<vars, reader, poll, sub, got>>
    BY DEF dispatchFromCS
  <2> QED BY <1>1, <2>1, ReadNextIInv DEF vars, readVars
<1>3. PICK rows \in SUBSET written : Dispatch(p, rows)
  BY DEF dispatchFromCS
<1>4. rows \in SUBSET Row /\ p \in Dispatcher /\ "poll" \in Dispatcher /\ p # "poll"
  BY <1>1, <1>3, StoreTypes, WatchAssumption DEF Dispatcher
<1>5. /\ out' \in [Dispatcher -> OutState] /\ out'[p].to = {}
      /\ \A e \in Dispatcher : e # p => out'[e] = out[e]
  BY <1>1, <1>3, <1>4, DispatchGives
<1>6. out'["poll"] = out["poll"]
  BY <1>4, <1>5
<1>7. PollReads'
  BY <1>1, <1>2, <1>6 DEF PollReads
<1> QED BY <1>1, <1>2, <1>5, <1>6, <1>7, PollKeeps DEF WatchTypes

\* A write or a compaction.
LEMMA StoreStepMoves ==
    ASSUME IInv, StoreStep
    PROVE  IInv' /\ StoreMoves
<1>1. CASE \E t \in TxnRequest : AtomicTxn(t)
  <2>1. [Next]_vars
    BY <1>1 DEF Next, WriteStep
  <2> QED BY <2>1, NextIInv, HistoryGrows
<1>2. CASE HorizonRises \/ RowCompacted
  BY <1>2, CompactionSeen
<1> QED BY <1>1, <1>2 DEF StoreStep

\* The watcher does not see a write or a compaction until it reads.
LEMMA StoreStepPreserves ==
    ASSUME WatchIInv, StoreStep, UNCHANGED <<reader, watchState>>
    PROVE  WatchIInv'
<1>1. ReadIInv /\ WatchTypes /\ PollReads /\ \A q \in Sub : SubWell(q) /\ sub[q] \in SubState
  BY DEF WatchIInv, WatchTypes
<1>2. UNCHANGED <<reader, poll, sub, out, got>>
  BY DEF watchState
<1>3. IInv' /\ StoreMoves
  BY <1>1, StoreStepMoves DEF ReadIInv
<1>4. ReadIInv'
  BY <1>1, <1>2, <1>3, StorePreserves
<1>5. clock \in Nat /\ clock' \in Nat /\ clock <= clock'
  <2>1. clock \in Nat
    BY <1>1, StoreTypes
  <2>2. clock' \in Nat
    BY <1>3, StoreAssumption, SMTT(60) DEF IInv, TypeOK, Revision
  <2>3. clock <= clock'
    BY <1>3 DEF StoreMoves
  <2> QED BY <2>1, <2>2, <2>3
<1>6. WatchTypes'
  BY <1>1, <1>2 DEF WatchTypes
<1>7. PollReads'
  <2>1. poll.lastRev \in Nat /\ reader[Poller].currentRev \in Nat
    <3>1. poll.lastRev \in Revision /\ reader[Poller].currentRev \in Revision
      <4>1. poll.lastRev \in Revision
        BY <1>1 DEF WatchTypes, PollState
      <4>2. reader[Poller].currentRev \in Revision
        BY <1>1, StoreTypes, WatchConstants
      <4> QED BY <4>1, <4>2
    <3> QED BY <3>1, WatchConstants
  <2>2. poll.lastRev <= clock /\ reader[Poller].currentRev <= clock
    BY <1>1 DEF PollReads
  <2>3. poll.lastRev <= clock' /\ reader[Poller].currentRev <= clock'
    BY <1>5, <2>1, <2>2, SMTT(60)
  <2> QED BY <1>1, <1>2, <2>3 DEF PollReads
<1>8. ASSUME NEW q \in Sub PROVE SubWell(q)'
  <2>1. reader'[q] = reader[q] /\ sub'[q] = sub[q]
    BY <1>2
  <2> QED BY <1>1, <1>5, <2>1, SubStays
<1> QED BY <1>4, <1>6, <1>7, <1>8 DEF WatchIInv

\* A read of the poll loop or of a replay goes on.
LEMMA ReadGoesOnPreserves ==
    ASSUME WatchIInv, NEW r \in Reader, ReadGoesOn(r)
    PROVE  WatchIInv'
<1>1. ReadIInv /\ WatchTypes /\ PollReads /\ \A q \in Sub : SubWell(q) /\ sub[q] \in SubState
  BY DEF WatchIInv, WatchTypes
<1>2. UNCHANGED <<poll, sub, out, got>> /\ (CheckCompacted(r) \/ Query(r))
  BY DEF ReadGoesOn, watchState
<1>3. /\ ReadIInv' /\ OnlyReader(r) /\ reader[r].pc # "idle" /\ reader'[r].pc # "idle"
      /\ reader'[r].req = reader[r].req /\ reader'[r].currentRev = reader[r].currentRev
      /\ reader'[r].pc = "answered" => reader'[r].asOf = clock
  BY <1>1, <1>2, ReadAdvances
<1>4. clock' = clock /\ \A q \in Reader : q # r => reader'[q] = reader[q]
  BY <1>3 DEF OnlyReader, vars
<1>5. WatchTypes'
  BY <1>1, <1>2 DEF WatchTypes
<1>6. PollReads'
  <2>1. CASE r = Poller
    BY <1>1, <1>2, <1>3, <1>4, <2>1 DEF PollReads
  <2>2. CASE r # Poller
    <3>1. reader'[Poller] = reader[Poller]
      BY <1>4, <2>2, WatchConstants
    <3> QED BY <1>1, <1>2, <1>4, <3>1 DEF PollReads
  <2> QED BY <2>1, <2>2
<1>7. ASSUME NEW q \in Sub PROVE SubWell(q)'
  <2>0. sub'[q] = sub[q] /\ SubOK(sub[q], reader[q], clock)
    BY <1>1, <1>2 DEF SubWell
  <2>1. SubOK(sub[q], reader'[q], clock)
    <3>1. CASE r = q
      BY <1>3, <2>0, <3>1 DEF SubOK
    <3>2. CASE r # q
      <4>1. reader'[q] = reader[q]
        BY <1>4, <3>2, WatchConstants
      <4> QED BY <2>0, <4>1
    <3> QED BY <3>1, <3>2
  <2>2. SubOK(sub'[q], reader'[q], clock')
    BY <1>4, <2>0, <2>1
  <2> QED BY <2>2 DEF SubWell
<1> QED BY <1>3, <1>5, <1>6, <1>7 DEF WatchIInv

-----------------------------------------------------------------------------
(* The goroutine of a subscription. *)

\* A step of the goroutine or the client of s that is not a read, and neither
\* closes nor drains it.
LEMMA GoroutineKeeps ==
    ASSUME WatchIInv, NEW s \in Sub, NEW new \in SubState, sub' = [sub EXCEPT ![s] = new],
           UNCHANGED vars, UNCHANGED reader, UNCHANGED <<poll, out>>, got' \in [Sub -> SUBSET Row],
           new.pc # "off" => sub[s].pc # "off", sub[s].pc = "read" <=> new.pc = "read",
           new.range = sub[s].range, new.keys = sub[s].keys, new.start = sub[s].start,
           new.pc = "read" => new.replayRev = sub[s].replayRev,
           new.pc \in OpenPc => new.registered /\ ~new.closed,
           new.pc \in OpenPc \ {"live"} => new.after > 0,
           new.pc \in ClosedPc => new.closed
    PROVE  WatchIInv'
<1>1. ReadIInv /\ SubWell(s) /\ WatchTypes
  BY DEF WatchIInv
<1>2. ReadIInv' /\ clock' = clock
  BY <1>1, ReadNextIInv DEF vars, readVars
<1>3. sub'[s] = new
  BY <1>1, SubsTyped
<1>4. SubOK(sub[s], reader[s], clock)
  BY <1>1 DEF SubWell
<1>5. /\ reader'[s].pc # "idle" <=> new.pc = "read"
      /\ new.pc = "read" => reader'[s].req = AfterRequest(Replayed(new.range), new.replayRev)
      /\ reader'[s].pc = "answered" => new.start <= reader'[s].asOf
  BY <1>4 DEF SubOK
<1>6. SubWell(s)'
  BY <1>1, <1>2, <1>3, <1>5, SubGoesOn
<1> QED BY <1>2, <1>6, SubKeeps

\* The pc and the flags of a subscription.
LEMMA SubPc ==
    ASSUME WatchIInv, NEW s \in Sub
    PROVE  /\ sub[s].pc = "read" <=> reader[s].pc # "idle"
           /\ sub[s].pc \in OpenPc => sub[s].registered /\ ~sub[s].closed
           /\ sub[s].pc \in OpenPc \ {"live"} => sub[s].after > 0
           /\ sub[s].pc \in ClosedPc => sub[s].closed
<1>1. SubOK(sub[s], reader[s], clock)
  BY DEF WatchIInv, SubWell
<1> QED BY <1>1 DEF SubOK

\* A client subscribes.
LEMMA SubscribePreserves ==
    ASSUME WatchIInv, NEW s \in Sub, NEW q \in WatchRequest, subscribe(s, q)
    PROVE  WatchIInv'
<1>1. ReadIInv /\ SubWell(s) /\ WatchTypes /\ got \in [Sub -> SUBSET Row]
  BY DEF WatchIInv, WatchTypes
<1>2. UNCHANGED vars /\ UNCHANGED reader /\ UNCHANGED <<poll, out, got>> /\ sub[s].pc = "off"
  BY DEF subscribe, SubStep
<1>3. ReadIInv' /\ clock' = clock
  BY <1>1, <1>2, ReadNextIInv DEF vars, readVars
<1>4. q.range \in KeyRange /\ q.afterRev \in Revision /\ q.afterRev \in Nat
  <2>1. q \in [range : KeyRange, afterRev : Revision]
    BY WatchAssumption
  <2>2. q.range \in KeyRange /\ q.afterRev \in Revision
    BY <2>1
  <2> QED BY <2>2, WatchConstants
<1> DEFINE first == IF q.afterRev = 0 THEN "live" ELSE "check"
<1>5. /\ first \in {"live", "check"}
      /\ first = "check" => q.afterRev # 0
      /\ sub' = [sub EXCEPT ![s] =
                   [NoSub EXCEPT !.pc = first, !.range = q.range, !.keys = Watched(q.range),
                                 !.after = q.afterRev, !.registered = TRUE, !.start = clock]]
  <2>1. first \in {"live", "check"} /\ (first = "check" => q.afterRev # 0)
    OBVIOUS
  <2>2. sub' = [sub EXCEPT ![s] =
                 [NoSub EXCEPT !.pc = first, !.range = q.range, !.keys = Watched(q.range),
                               !.after = q.afterRev, !.registered = TRUE, !.start = clock]]
    BY DEF subscribe, SubStep
  <2> QED BY <2>1, <2>2
<1> HIDE DEF first
<1> DEFINE new == [NoSub EXCEPT !.pc = first, !.range = q.range, !.keys = Watched(q.range),
                                !.after = q.afterRev, !.registered = TRUE, !.start = clock]
<1>6. clock \in Revision /\ Watched(q.range) \subseteq Key /\ clock <= clock
  BY <1>1, StoreTypes, WatchConstants, SMTT(60)
<1>7. /\ new \in SubState /\ new.pc = first /\ new.range = q.range /\ new.keys = Watched(q.range)
      /\ new.after = q.afterRev /\ new.registered /\ ~new.closed /\ new.start = clock
  BY <1>4, <1>5, <1>6, NoTypes DEF SubState, NoSub, OpenPc
<1>8. sub' = [sub EXCEPT ![s] = new]
  BY <1>5
<1> HIDE DEF new
<1>9. sub'[s] = new
  BY <1>1, <1>7, <1>8, SubsTyped
<1>10. reader[s].pc = "idle"
  BY <1>2, SubPc
<1>11. SubOK(new, reader[s], clock)
  <2>1. Asked(new.range, new.keys)
    BY <1>7 DEF Asked
  <2>2. new.pc # "live" => new.after > 0
    BY <1>4, <1>5, <1>7, SMTT(60)
  <2>3. new.pc \in {"live", "check"}
    BY <1>5, <1>7
  <2>4. new.pc \notin ClosedPc /\ new.pc \notin {"read", "sentinel"}
    BY <2>3 DEF ClosedPc
  <2> QED BY <1>6, <1>7, <1>10, <2>1, <2>2, <2>4 DEF SubOK
<1>12. SubWell(s)'
  <2>1. SubOK(sub'[s], reader'[s], clock')
    BY <1>2, <1>3, <1>9, <1>11
  <2> QED BY <2>1 DEF SubWell
<1> QED BY <1>1, <1>2, <1>3, <1>7, <1>8, <1>12, SubKeeps

\* The goroutine reads the compaction revision.
LEMMA ReplayCheckPreserves ==
    ASSUME WatchIInv, NEW s \in Sub, ReplayCheck(s)
    PROVE  WatchIInv'
<1>1. got \in [Sub -> SUBSET Row] /\ sub[s] \in SubState
  BY DEF WatchIInv, WatchTypes
<1>2. UNCHANGED vars /\ UNCHANGED reader /\ UNCHANGED <<poll, out, got>> /\ sub[s].pc = "check"
  BY DEF ReplayCheck, SubStep
<1>3. sub[s].after > 0 /\ sub[s].registered /\ ~sub[s].closed
  BY <1>2, SubPc DEF OpenPc
<1>4. CASE sub' = [sub EXCEPT ![s] = [sub[s] EXCEPT !.pc = "replay", !.replayRev = sub[s].after - 1]]
  <2> DEFINE new == [sub[s] EXCEPT !.pc = "replay", !.replayRev = sub[s].after - 1]
  <2>1. sub[s].after - 1 \in Revision
    <3>1. sub[s].after \in Revision
      BY SubFields
    <3> QED BY <1>3, <3>1, StoreAssumption, SMTT(60) DEF Revision
  <2>2. /\ new \in SubState /\ new.pc = "replay" /\ new.range = sub[s].range /\ new.keys = sub[s].keys
        /\ new.start = sub[s].start /\ new.after = sub[s].after /\ new.registered = sub[s].registered
        /\ new.closed = sub[s].closed
    BY <1>1, <2>1 DEF SubState, OpenPc
  <2> HIDE DEF new
  <2>3. sub' = [sub EXCEPT ![s] = new]
    BY <1>4 DEF new
  <2> QED BY <1>1, <1>2, <1>3, <2>2, <2>3, GoroutineKeeps DEF OpenPc, ClosedPc
<1>5. CASE sub' = [sub EXCEPT ![s] = [sub[s] EXCEPT !.pc = "close"]]
  <2> DEFINE new == [sub[s] EXCEPT !.pc = "close"]
  <2>2. /\ new \in SubState /\ new.pc = "close" /\ new.range = sub[s].range /\ new.keys = sub[s].keys
        /\ new.start = sub[s].start
    BY <1>1 DEF SubState
  <2> HIDE DEF new
  <2>3. sub' = [sub EXCEPT ![s] = new]
    BY <1>5 DEF new
  <2> QED BY <1>1, <1>2, <2>2, <2>3, GoroutineKeeps DEF OpenPc, ClosedPc
<1> QED BY <1>4, <1>5 DEF ReplayCheck, SubStep

\* The goroutine asks for a page.
LEMMA ReplayAskPreserves ==
    ASSUME WatchIInv, NEW s \in Sub, ReplayAsk(s)
    PROVE  WatchIInv'
<1>1. ReadIInv /\ SubWell(s) /\ WatchTypes /\ got \in [Sub -> SUBSET Row] /\ sub[s] \in SubState
  BY DEF WatchIInv, WatchTypes
<1>2. /\ UNCHANGED <<poll, out, got>> /\ sub[s].pc = "replay"
      /\ After(s, AfterRequest(Replayed(sub[s].range), sub[s].replayRev))
      /\ sub' = [sub EXCEPT ![s] = [sub[s] EXCEPT !.pc = "read"]]
  BY DEF ReplayAsk, SubStep, AfterRequest
<1>3. AfterRequest(Replayed(sub[s].range), sub[s].replayRev) \in Request
  <2>1. Replayed(sub[s].range) \in SUBSET Key /\ sub[s].replayRev \in Revision
    BY SubFields, WatchConstants
  <2> QED BY <2>1, WatchConstants
<1>4. /\ ReadIInv' /\ OnlyReader(s) /\ reader'[s].pc \in {"check", "query"}
      /\ reader'[s].req = AfterRequest(Replayed(sub[s].range), sub[s].replayRev)
  BY <1>1, <1>2, <1>3, ReadBegins, WatchConstants
<1>5. clock' = clock /\ \A q \in Reader : q # s => reader'[q] = reader[q]
  BY <1>4 DEF OnlyReader, vars
<1> DEFINE new == [sub[s] EXCEPT !.pc = "read"]
<1>6. /\ new \in SubState /\ new.pc = "read" /\ new.range = sub[s].range /\ new.keys = sub[s].keys
      /\ new.start = sub[s].start /\ new.after = sub[s].after /\ new.registered = sub[s].registered
      /\ new.closed = sub[s].closed /\ new.replayRev = sub[s].replayRev
  BY <1>1 DEF SubState, OpenPc
<1> HIDE DEF new
<1>7. sub' = [sub EXCEPT ![s] = new] /\ sub'[s] = new
  BY <1>1, <1>2, <1>6, SubsTyped DEF new
<1>8. sub[s].registered /\ ~sub[s].closed /\ sub[s].after > 0
  BY <1>2, SubPc DEF OpenPc
<1>9. SubWell(s)'
  <2>1. new.pc \notin ClosedPc /\ new.pc # "sentinel" /\ sub[s].pc # "off"
    BY <1>2, <1>6 DEF ClosedPc
  <2>2. /\ reader'[s].pc # "idle" <=> new.pc = "read"
        /\ reader'[s].pc # "answered" /\ reader'[s].req = AfterRequest(Replayed(new.range), new.replayRev)
    BY <1>4, <1>6
  <2>3. new.registered /\ ~new.closed /\ new.after > 0
    BY <1>6, <1>8
  <2> QED BY <1>1, <1>5, <1>6, <1>7, <2>1, <2>2, <2>3, SubGoesOn
<1> QED BY <1>1, <1>2, <1>4, <1>5, <1>6, <1>7, <1>9, SubKeeps

\* The read of a replay ends, with a page, the last one or an error.
LEMMA ReplayEnds ==
    ASSUME WatchIInv, NEW s \in Sub, NEW new \in SubState, sub' = [sub EXCEPT ![s] = new],
           sub[s].pc = "read", reader' = [reader EXCEPT ![s] = NoRead], UNCHANGED vars,
           UNCHANGED <<poll, out, got>>, new.pc \in {"close", "live", "push"},
           new.range = sub[s].range, new.keys = sub[s].keys, new.start = sub[s].start,
           new.after = sub[s].after, new.registered = sub[s].registered, new.closed = sub[s].closed
    PROVE  WatchIInv'
<1>1. ReadIInv /\ SubWell(s) /\ WatchTypes /\ got \in [Sub -> SUBSET Row]
  BY DEF WatchIInv, WatchTypes
<1>2. ReadIInv' /\ OnlyReader(s) /\ reader'[s].pc = "idle"
  BY <1>1, ReadEnds, WatchConstants
<1>3. clock' = clock /\ \A q \in Reader : q # s => reader'[q] = reader[q]
  BY <1>2 DEF OnlyReader, vars
<1>4. sub'[s] = new
  BY <1>1, SubsTyped
<1>5. sub[s].registered /\ ~sub[s].closed /\ sub[s].after > 0
  BY SubPc DEF OpenPc
<1>6. new.pc \notin ClosedPc /\ new.pc \notin {"off", "read", "sentinel"}
  BY DEF ClosedPc
<1>7. SubWell(s)'
  BY <1>1, <1>2, <1>3, <1>4, <1>5, <1>6, SubGoesOn
<1> QED BY <1>1, <1>2, <1>3, <1>7, SubKeeps

\* A replay gets a page, the end or ErrCompacted.
LEMMA ReplayAnswerPreserves ==
    ASSUME WatchIInv, NEW s \in Sub, ReplayAnswer(s)
    PROVE  WatchIInv'
<1> DEFINE next == IF reader[s].pc = "compacted" THEN "close"
                   ELSE IF reader[s].rows = {} THEN "live" ELSE "push"
           new == [sub[s] EXCEPT !.pc = next, !.page = reader[s].rows]
<1>1. next \in {"close", "live", "push"}
  OBVIOUS
<1>2. /\ UNCHANGED <<poll, out, got>> /\ sub[s].pc = "read" /\ UNCHANGED vars
      /\ reader' = [reader EXCEPT ![s] = NoRead]
      /\ sub' = [sub EXCEPT ![s] = new]
  BY DEF ReplayAnswer, SubStep
<1> HIDE DEF next
<1>3. sub[s] \in SubState /\ reader[s].rows \subseteq Row
  BY StoreTypes, WatchConstants DEF WatchIInv, WatchTypes
<1>4. /\ new \in SubState /\ new.pc = next /\ new.range = sub[s].range /\ new.keys = sub[s].keys
      /\ new.start = sub[s].start /\ new.after = sub[s].after /\ new.registered = sub[s].registered
      /\ new.closed = sub[s].closed
  BY <1>1, <1>3 DEF SubState, OpenPc
<1> HIDE DEF new
<1> QED BY <1>1, <1>2, <1>4, ReplayEnds

\* The read of a replay fails.
LEMMA ReplayErrorPreserves ==
    ASSUME WatchIInv, NEW s \in Sub, ReplayError(s)
    PROVE  WatchIInv'
<1> DEFINE new == [sub[s] EXCEPT !.pc = "close"]
<1>1. /\ UNCHANGED <<poll, out, got>> /\ UNCHANGED vars
      /\ reader' = [reader EXCEPT ![s] = NoRead] /\ reader[s].pc \in {"check", "query"}
      /\ sub' = [sub EXCEPT ![s] = new]
  BY DEF ReplayError, ReadError, SubStep
<1>2. sub[s] \in SubState /\ sub[s].pc = "read"
  BY <1>1, SubPc DEF WatchIInv, WatchTypes
<1>3. /\ new \in SubState /\ new.pc = "close" /\ new.range = sub[s].range /\ new.keys = sub[s].keys
      /\ new.start = sub[s].start /\ new.after = sub[s].after /\ new.registered = sub[s].registered
      /\ new.closed = sub[s].closed
  BY <1>2 DEF SubState
<1> HIDE DEF new
<1> QED BY <1>1, <1>2, <1>3, ReplayEnds

\* A page goes to the channel.
LEMMA ReplayPushPreserves ==
    ASSUME WatchIInv, NEW s \in Sub, ReplayPush(s)
    PROVE  WatchIInv'
<1> DEFINE next == IF Cardinality(sub[s].page) < PollBatchSize THEN "live" ELSE "replay"
           chan == Append(sub[s].ch, sub[s].page)
<1>1. next \in {"live", "replay"}
  OBVIOUS
<1>2. PICK last \in RevsOf(sub[s].page) :
         SubStep(s, [sub[s] EXCEPT !.ch = chan, !.page = {}, !.replayRev = last, !.pc = next])
  BY DEF ReplayPush
<1> DEFINE new == [sub[s] EXCEPT !.ch = chan, !.page = {}, !.replayRev = last, !.pc = next]
<1>3. UNCHANGED <<poll, out, got>> /\ sub' = [sub EXCEPT ![s] = new]
  BY <1>2 DEF SubStep
<1>4. UNCHANGED vars /\ UNCHANGED reader /\ sub[s].pc = "push"
  BY DEF ReplayPush
<1>5. got \in [Sub -> SUBSET Row] /\ sub[s] \in SubState
  BY DEF WatchIInv, WatchTypes
<1>6. chan \in Seq(SUBSET Row) /\ last \in Revision
  <2>1. sub[s].ch \in Seq(SUBSET Row) /\ sub[s].page \subseteq Row
    BY SubFields
  <2>2. \A r \in Row : r.rev \in Revision
    BY DEF Row
  <2> QED BY <1>2, <2>1, <2>2, SMTT(60) DEF RevsOf
<1> HIDE DEF next, chan
<1>7. /\ new \in SubState /\ new.pc = next /\ new.range = sub[s].range /\ new.keys = sub[s].keys
      /\ new.start = sub[s].start /\ new.after = sub[s].after /\ new.registered = sub[s].registered
      /\ new.closed = sub[s].closed
  BY <1>1, <1>5, <1>6 DEF SubState, OpenPc
<1> HIDE DEF new
<1>8. sub[s].registered /\ ~sub[s].closed /\ sub[s].after > 0
  BY <1>4, SubPc DEF OpenPc
<1>9. new.pc \notin ClosedPc /\ new.pc \notin {"off", "read", "sentinel"}
  BY <1>1, <1>7 DEF ClosedPc
<1> QED BY <1>3, <1>4, <1>5, <1>7, <1>8, <1>9, GoroutineKeeps

\* The client goes away.
LEMMA CancelPreserves ==
    ASSUME WatchIInv, NEW s \in Sub, Cancel(s)
    PROVE  WatchIInv'
<1> DEFINE new == [sub[s] EXCEPT !.cancelled = TRUE]
<1>1. got \in [Sub -> SUBSET Row] /\ sub[s] \in SubState /\ sub \in [Sub -> SubState]
  BY DEF WatchIInv, WatchTypes
<1>2. UNCHANGED vars /\ UNCHANGED reader /\ UNCHANGED <<poll, out, got>> /\ sub' = [sub EXCEPT ![s] = new]
  BY <1>1 DEF Cancel
<1>3. /\ new \in SubState /\ new.pc = sub[s].pc /\ new.range = sub[s].range /\ new.keys = sub[s].keys
      /\ new.start = sub[s].start /\ new.after = sub[s].after /\ new.registered = sub[s].registered
      /\ new.closed = sub[s].closed /\ new.replayRev = sub[s].replayRev /\ new.ch = sub[s].ch
  BY <1>1 DEF SubState
<1> HIDE DEF new
<1> QED BY <1>1, <1>2, <1>3, SubPc, GoroutineKeeps

\* The goroutine sees that it is cancelled.
LEMMA LeavePreserves ==
    ASSUME WatchIInv, NEW s \in Sub, Leave(s)
    PROVE  WatchIInv'
<1> DEFINE new == [sub[s] EXCEPT !.pc = "close", !.page = {}]
<1>1. got \in [Sub -> SUBSET Row] /\ sub[s] \in SubState
  BY DEF WatchIInv, WatchTypes
<1>2. /\ UNCHANGED vars /\ UNCHANGED reader /\ UNCHANGED <<poll, out, got>>
      /\ sub' = [sub EXCEPT ![s] = new] /\ sub[s].pc \in {"push", "live"}
  BY DEF Leave, SubStep
<1>3. /\ new \in SubState /\ new.pc = "close" /\ new.range = sub[s].range /\ new.keys = sub[s].keys
      /\ new.start = sub[s].start
  BY <1>1 DEF SubState
<1> HIDE DEF new
<1> QED BY <1>1, <1>2, <1>3, GoroutineKeeps DEF OpenPc, ClosedPc

\* The subscription is closed: its channel no longer counts.
LEMMA MarkClosedPreserves ==
    ASSUME WatchIInv, NEW s \in Sub, MarkClosed(s)
    PROVE  WatchIInv'
<1> DEFINE new == [sub[s] EXCEPT !.pc = "remove", !.closed = TRUE]
<1>1. got \in [Sub -> SUBSET Row] /\ sub[s] \in SubState /\ sub \in [Sub -> SubState]
  BY DEF WatchIInv, WatchTypes
<1>2. /\ UNCHANGED vars /\ UNCHANGED reader /\ UNCHANGED <<poll, out>> /\ sub[s].pc = "close"
      /\ sub' = [sub EXCEPT ![s].pc = "remove", ![s].closed = TRUE] /\ got' = [got EXCEPT ![s] = {}]
  BY DEF MarkClosed
<1>3. /\ new \in SubState /\ new.pc = "remove" /\ new.range = sub[s].range /\ new.keys = sub[s].keys
      /\ new.start = sub[s].start /\ new.closed
  BY <1>1 DEF SubState, ClosedPc
<1>4. sub' = [sub EXCEPT ![s] = new]
  BY <1>1, <1>2
<1>5. got' \in [Sub -> SUBSET Row]
  BY <1>1, <1>2
<1> HIDE DEF new
<1> QED BY <1>2, <1>3, <1>4, <1>5, GoroutineKeeps DEF OpenPc, ClosedPc

\* The subscription leaves the list.
LEMMA RemovePreserves ==
    ASSUME WatchIInv, NEW s \in Sub, removeSub(s)
    PROVE  WatchIInv'
<1> DEFINE new == [sub[s] EXCEPT !.pc = "drain", !.registered = FALSE, !.cancelled = TRUE]
<1>1. got \in [Sub -> SUBSET Row] /\ sub[s] \in SubState
  BY DEF WatchIInv, WatchTypes
<1>2. /\ UNCHANGED vars /\ UNCHANGED reader /\ UNCHANGED <<poll, out, got>>
      /\ sub' = [sub EXCEPT ![s] = new] /\ sub[s].pc = "remove"
  BY DEF removeSub, SubStep
<1>3. /\ new \in SubState /\ new.pc = "drain" /\ new.range = sub[s].range /\ new.keys = sub[s].keys
      /\ new.start = sub[s].start /\ new.closed = sub[s].closed
  BY <1>1 DEF SubState, ClosedPc
<1>4. sub[s].closed
  BY <1>2, SubPc DEF ClosedPc
<1> HIDE DEF new
<1> QED BY <1>1, <1>2, <1>3, <1>4, GoroutineKeeps DEF OpenPc, ClosedPc

\* A batch is drained, or none is left.
LEMMA DrainPreserves ==
    ASSUME WatchIInv, NEW s \in Sub, Drain(s)
    PROVE  WatchIInv'
<1>1. got \in [Sub -> SUBSET Row] /\ sub[s] \in SubState
  BY DEF WatchIInv, WatchTypes
<1>2. UNCHANGED vars /\ UNCHANGED reader /\ UNCHANGED <<poll, out, got>> /\ sub[s].pc = "drain"
  BY DEF Drain, SubStep
<1>3. sub[s].closed /\ sub[s].ch \in Seq(SUBSET Row)
  BY <1>2, SubPc, SubFields DEF ClosedPc
<1>4. CASE sub[s].ch = <<>>
  <2> DEFINE new == [sub[s] EXCEPT !.pc = "sentinel"]
  <2>1. sub' = [sub EXCEPT ![s] = new]
    BY <1>4 DEF Drain, SubStep
  <2>2. /\ new \in SubState /\ new.pc = "sentinel" /\ new.range = sub[s].range /\ new.keys = sub[s].keys
        /\ new.start = sub[s].start /\ new.closed = sub[s].closed /\ new.ch = <<>>
    BY <1>1, <1>4 DEF SubState, ClosedPc
  <2> HIDE DEF new
  <2> QED BY <1>1, <1>2, <1>3, <2>1, <2>2, GoroutineKeeps DEF OpenPc, ClosedPc
<1>5. CASE sub[s].ch # <<>>
  <2> DEFINE new == [sub[s] EXCEPT !.ch = Tail(sub[s].ch)]
  <2>1. sub' = [sub EXCEPT ![s] = new]
    BY <1>5 DEF Drain, SubStep
  <2>2. Tail(sub[s].ch) \in Seq(SUBSET Row)
    BY <1>3, <1>5, SMTT(60)
  <2>3. /\ new \in SubState /\ new.pc = "drain" /\ new.range = sub[s].range /\ new.keys = sub[s].keys
        /\ new.start = sub[s].start /\ new.closed = sub[s].closed
    BY <1>1, <1>2, <2>2 DEF SubState, ClosedPc
  <2> HIDE DEF new
  <2> QED BY <1>1, <1>2, <1>3, <2>1, <2>3, GoroutineKeeps DEF OpenPc, ClosedPc
<1> QED BY <1>4, <1>5

\* The sentinel is sent, or given up.
LEMMA SendSentinelPreserves ==
    ASSUME WatchIInv, NEW s \in Sub, SendSentinel(s)
    PROVE  WatchIInv'
<1> DEFINE chan == IF Len(sub[s].ch) < Depth THEN Append(sub[s].ch, Sentinel) ELSE sub[s].ch
           new == [sub[s] EXCEPT !.pc = "gone", !.ch = chan]
<1>1. got \in [Sub -> SUBSET Row] /\ sub[s] \in SubState
  BY DEF WatchIInv, WatchTypes
<1>2. /\ UNCHANGED vars /\ UNCHANGED reader /\ UNCHANGED <<poll, out, got>>
      /\ sub' = [sub EXCEPT ![s] = new] /\ sub[s].pc = "sentinel"
  BY DEF SendSentinel, SubStep
<1>3. sub[s].closed /\ sub[s].ch \in Seq(SUBSET Row)
  BY <1>2, SubPc, SubFields DEF ClosedPc
<1>4. chan \in Seq(SUBSET Row)
  BY <1>3, SMTT(60) DEF Sentinel
<1> HIDE DEF chan
<1>5. /\ new \in SubState /\ new.pc = "gone" /\ new.range = sub[s].range /\ new.keys = sub[s].keys
      /\ new.start = sub[s].start /\ new.closed = sub[s].closed
  BY <1>1, <1>4 DEF SubState, ClosedPc
<1> HIDE DEF new
<1> QED BY <1>1, <1>2, <1>3, <1>5, GoroutineKeeps DEF OpenPc, ClosedPc

\* watchLoop takes a batch.
LEMMA ReceivePreserves ==
    ASSUME WatchIInv, NEW s \in Sub, Receive(s)
    PROVE  WatchIInv'
<1> DEFINE new == [sub[s] EXCEPT !.ch = Tail(sub[s].ch)]
<1>1. got \in [Sub -> SUBSET Row] /\ sub[s] \in SubState /\ sub \in [Sub -> SubState] /\ got[s] \in SUBSET Row
  BY DEF WatchIInv, WatchTypes
<1>2. /\ UNCHANGED vars /\ UNCHANGED reader /\ UNCHANGED <<poll, out>>
      /\ sub' = [sub EXCEPT ![s] = new] /\ sub[s].ch # <<>>
  BY <1>1 DEF Receive
<1>3. /\ sub[s].ch \in Seq(SUBSET Row) /\ Tail(sub[s].ch) \in Seq(SUBSET Row) /\ Head(sub[s].ch) \in SUBSET Row
      /\ Len(Tail(sub[s].ch)) <= Len(sub[s].ch) /\ Len(sub[s].ch) \in Nat /\ Len(Tail(sub[s].ch)) \in Nat
  <2>1. sub[s].ch \in Seq(SUBSET Row)
    BY SubFields
  <2> QED BY <1>2, <2>1, SMTT(60)
<1>4. got' \in [Sub -> SUBSET Row]
  <2>1. CASE sub[s].closed
    BY <1>1, <2>1 DEF Receive
  <2>2. CASE ~sub[s].closed
    <3> DEFINE more == got[s] \cup Head(sub[s].ch)
    <3>1. got' = [got EXCEPT ![s] = more]
      BY <1>1, <2>2 DEF Receive
    <3>2. more \in SUBSET Row
      BY <1>1, <1>3
    <3> HIDE DEF more
    <3> QED BY <1>1, <3>1, <3>2
  <2> QED BY <2>1, <2>2
<1>5. /\ new \in SubState /\ new.pc = sub[s].pc /\ new.range = sub[s].range /\ new.keys = sub[s].keys
      /\ new.start = sub[s].start /\ new.after = sub[s].after /\ new.registered = sub[s].registered
      /\ new.closed = sub[s].closed /\ new.replayRev = sub[s].replayRev /\ new.ch = Tail(sub[s].ch)
  BY <1>1, <1>3 DEF SubState
<1> HIDE DEF new
<1> QED BY <1>2, <1>4, <1>5, SubPc, GoroutineKeeps

-----------------------------------------------------------------------------
(* The results. *)

\* A step of the poll loop.
LEMMA PollStepPreserves ==
    ASSUME WatchIInv, PollStep
    PROVE  WatchIInv'
<1>1. CASE PollStart
  BY <1>1, PollStartPreserves
<1>2. CASE PollAsk
  BY <1>2, PollAskPreserves
<1>3. CASE PollAnswer
  BY <1>3, PollAnswerPreserves
<1>4. CASE PollDone
  BY <1>4, PollDonePreserves
<1>5. CASE ReadGoesOn(Poller)
  BY <1>5, ReadGoesOnPreserves, WatchConstants
<1> QED BY <1>1, <1>2, <1>3, <1>4, <1>5 DEF PollStep

\* A step of the goroutine of s.
LEMMA GoroutineStepPreserves ==
    ASSUME WatchIInv, NEW s \in Sub, GoroutineStep(s)
    PROVE  WatchIInv'
<1>1. CASE ReplayCheck(s)
  BY <1>1, ReplayCheckPreserves
<1>2. CASE ReplayAsk(s)
  BY <1>2, ReplayAskPreserves
<1>3. CASE ReplayAnswer(s)
  BY <1>3, ReplayAnswerPreserves
<1>4. CASE ReplayPush(s)
  BY <1>4, ReplayPushPreserves
<1>5. CASE ReadGoesOn(s)
  BY <1>5, ReadGoesOnPreserves, WatchConstants
<1>6. CASE Leave(s)
  BY <1>6, LeavePreserves
<1>7. CASE MarkClosed(s)
  BY <1>7, MarkClosedPreserves
<1>8. CASE removeSub(s)
  BY <1>8, RemovePreserves
<1>9. CASE Drain(s)
  BY <1>9, DrainPreserves
<1>10. CASE SendSentinel(s)
  BY <1>10, SendSentinelPreserves
<1> QED BY <1>1, <1>2, <1>3, <1>4, <1>5, <1>6, <1>7, <1>8, <1>9, <1>10 DEF GoroutineStep

\* Every step keeps the invariant.
LEMMA WatchNextIInv == WatchIInv /\ [WatchNext]_watchVars => WatchIInv'
<1> SUFFICES ASSUME WatchIInv, [WatchNext]_watchVars PROVE WatchIInv'
  OBVIOUS
<1>1. CASE StoreStep /\ UNCHANGED <<reader, watchState>>
  BY <1>1, StoreStepPreserves
<1>2. CASE PollStep
  BY <1>2, PollStepPreserves
<1>3. CASE PollError
  BY <1>3, PollErrorPreserves
<1>4. ASSUME NEW p \in Partition, dispatchFromCS(p) PROVE WatchIInv'
  BY <1>4, ChangeStreamPreserves
<1>5. ASSUME NEW d \in Dispatcher, DispatchStep(d) PROVE WatchIInv'
  <2>1. PICK s \in Sub : LookClosed(d, s) \/ Send(d, s)
    BY <1>5 DEF DispatchStep
  <2> QED BY <2>1, LookPreserves, SendPreserves
<1>6. ASSUME NEW s \in Sub, NEW q \in WatchRequest, subscribe(s, q) PROVE WatchIInv'
  BY <1>6, SubscribePreserves
<1>7. ASSUME NEW s \in Sub, GoroutineStep(s) PROVE WatchIInv'
  BY <1>7, GoroutineStepPreserves
<1>8. ASSUME NEW s \in Sub, ReplayError(s) PROVE WatchIInv'
  BY <1>8, ReplayErrorPreserves
<1>9. ASSUME NEW s \in Sub, Cancel(s) PROVE WatchIInv'
  BY <1>9, CancelPreserves
<1>10. ASSUME NEW s \in Sub, Receive(s) PROVE WatchIInv'
  BY <1>10, ReceivePreserves
<1>11. CASE UNCHANGED watchVars
  <2>1. UNCHANGED <<kv, compactRev, clock, pass, written>> /\ UNCHANGED <<reader, poll, sub, out, got>>
    BY <1>11 DEF watchVars, watchState
  <2>2. ReadIInv /\ WatchTypes /\ PollReads /\ \A s \in Sub : SubWell(s)
    BY DEF WatchIInv
  <2>3. ReadIInv'
    BY <2>1, <2>2, ReadNextIInv DEF readVars
  <2>4. WatchTypes' /\ PollReads'
    BY <2>1, <2>2 DEF WatchTypes, PollReads
  <2>5. ASSUME NEW s \in Sub PROVE SubWell(s)'
    <3>1. SubOK(sub[s], reader[s], clock)
      BY <2>2 DEF SubWell
    <3>2. SubOK(sub'[s], reader'[s], clock')
      BY <2>1, <3>1
    <3> QED BY <3>2 DEF SubWell
  <2> QED BY <2>3, <2>4, <2>5 DEF WatchIInv
<1> QED BY <1>1, <1>2, <1>3, <1>4, <1>5, <1>6, <1>7, <1>8, <1>9, <1>10, <1>11 DEF WatchNext

\* The watcher's goroutines, dispatchers and reads, in every reachable state.
THEOREM WatchInvariance == WatchSpec => []WatchIInv
BY WatchInitially, WatchNextIInv, PTL DEF WatchSpec

-----------------------------------------------------------------------------
(* Delivery: the invariant. *)

\* s has event w, or the poll's dispatcher will send it.
Held(s, w) == w \in got[s] \/ \E i \in DOMAIN sub[s].ch : w \in sub[s].ch[i]

Coming(s, w) == Held(s, w) \/ (s \in out["poll"].subs /\ w \in out["poll"].rows)

Alive(s) == sub[s].pc \in OpenPc /\ ~sub[s].cancelled

\* What the poll loop has gone past since s subscribed.
Polled(s, w) ==
    /\ w.key \in sub[s].keys /\ compactRev < w.rev
    /\ sub[s].start < w.rev /\ poll.first < w.rev /\ w.rev <= poll.lastRev

Caught(s) == Alive(s) => \A w \in written : Polled(s, w) => Coming(s, w)

\* What s asked for of the time before it subscribed.
Past(s, w) ==
    /\ w.key \in sub[s].keys /\ compactRev < w.rev
    /\ sub[s].after <= w.rev /\ w.rev <= sub[s].start

\* What the replay has gone past.
ReplayedPast(s) ==
    Alive(s) /\ sub[s].after > 0 =>
        \A w \in written :
            /\ Past(s, w)
            /\ \/ sub[s].pc = "live"
               \/ sub[s].pc \in {"replay", "read", "push"} /\ w.rev <= sub[s].replayRev
            => Held(s, w)

\* The page a replay is about to send leaves out only what comes after it.
PageExact(s) ==
    Alive(s) /\ sub[s].pc = "push" =>
        \A w \in written :
            /\ Past(s, w) /\ sub[s].replayRev < w.rev
            /\ \/ Cardinality(sub[s].page) < PollBatchSize
               \/ \E last \in sub[s].page : w.rev < last.rev
            => w \in sub[s].page

\* The poll loop's answer is all there is, under PollKeepsUp.
PollPage ==
    /\ reader[Poller].pc # "compacted"
    /\ reader[Poller].pc = "answered" =>
         \A w \in written : /\ poll.lastRev < w.rev /\ w.rev <= reader[Poller].asOf
                            /\ reader[Poller].horizon < w.rev
                            => w \in reader[Poller].rows

\* Compaction has not gone back since a read saw it.
HorizonPast == \A r \in Reader : reader[r].horizon <= compactRev

SubExact(s) == Caught(s) /\ ReplayedPast(s) /\ PageExact(s)

DeliveryInv == PollPage /\ HorizonPast /\ \A s \in Sub : SubExact(s)

-----------------------------------------------------------------------------
(* Delivery: which ranges are prefixes. *)

\* A key, everything from a key on, or a prefix: an end that is the key but for
\* its last byte.
IsPrefixRange(q) ==
    \/ q.end = <<>> \/ q.end = Zero
    \/ Len(q.end) = Len(q.key) /\ \A i \in 1..(Len(q.key) - 1) : q.end[i] = q.key[i]

\* Clients watch such ranges, and the prefix has no backslash, which the LIKE of
\* a replay would take for an escape.
PrefixWatches ==
    \A q \in WatchRequest :
        IsPrefixRange(q.range) /\ Unescaped(watchPrefix(q.range.key, q.range.end))

\* Events are replayed for every key they are dispatched for.
LEMMA ReplayCovers ==
    ASSUME PrefixWatches, NEW q \in WatchRequest
    PROVE  Watched(q.range) \subseteq Replayed(q.range)
<1> DEFINE prefix == watchPrefix(q.range.key, q.range.end)
<1>1. q.range.key \in Seq(Nat) /\ q.range.end \in Seq(Nat)
  <2>1. q.range \in KeyRange
    BY WatchAssumption
  <2> QED BY <2>1, SMTT(60) DEF KeyRange
<1>2. prefix \in Seq(Nat)
  <2>1. ButLast(q.range.key) \in Seq(Nat) /\ <<>> \in Seq(Nat)
    BY <1>1, SMTT(60) DEF ButLast
  <2> QED BY <1>1, <2>1, SMTT(60) DEF watchPrefix
<1>3. Unescaped(prefix)
  BY DEF PrefixWatches
<1> HIDE DEF prefix
<1>4. ASSUME NEW k \in DOMAIN KeyName, HasPrefix(KeyName[k], TrimPercent(prefix))
      PROVE  Like(prefix, KeyName[k])
  <2>1. KeyName[k] \in Seq(Nat)
    BY KeyNameAssumption
  <2>2. CASE prefix # <<>> /\ prefix[Len(prefix)] = Percent
    <3>1. HasPrefix(KeyName[k], ButLast(prefix))
      BY <1>4, <2>2 DEF TrimPercent
    <3> QED BY <1>2, <1>3, <2>1, <2>2, <3>1, LikeFindsTrimmed
  <2>3. CASE ~(prefix # <<>> /\ prefix[Len(prefix)] = Percent)
    <3>1. HasPrefix(KeyName[k], prefix)
      BY <1>4, <2>3 DEF TrimPercent
    <3> QED BY <1>2, <1>3, <2>1, <3>1, LikeFinds
  <2> QED BY <2>2, <2>3
<1> QED BY <1>4 DEF Watched, Replayed, prefix

\* A key with a prefix also has the prefix less a % at its end.
LEMMA TrimCovers ==
    ASSUME NEW s \in Seq(Nat), NEW p \in Seq(Nat), HasPrefix(s, p)
    PROVE  HasPrefix(s, TrimPercent(p))
<1>1. CASE p # <<>> /\ p[Len(p)] = Percent
  <2>1. Len(p) \in Nat /\ Len(p) > 0 /\ DOMAIN p = 1..Len(p) /\ Len(s) \in Nat
    BY <1>1, SMTT(60)
  <2>2. /\ Len(ButLast(p)) = Len(p) - 1 /\ DOMAIN ButLast(p) = 1..(Len(p) - 1)
        /\ \A i \in 1..(Len(p) - 1) : ButLast(p)[i] = p[i]
    BY <2>1, SMTT(60) DEF ButLast
  <2>3. Len(p) <= Len(s) /\ \A i \in 1..Len(p) : p[i] = s[i]
    BY <2>1 DEF HasPrefix
  <2>4. HasPrefix(s, ButLast(p))
    BY <2>1, <2>2, <2>3, SMTT(60) DEF HasPrefix
  <2> QED BY <1>1, <2>4 DEF TrimPercent
<1>2. CASE ~(p # <<>> /\ p[Len(p)] = Percent)
  BY <1>2 DEF TrimPercent
<1> QED BY <1>1, <1>2

\* Watches of a key, of everything from a key on, and of a prefix are looked up
\* by a prefix that all their keys have.
LEMMA PrefixCovers ==
    ASSUME NEW q \in KeyRange, IsPrefixRange(q), NEW k \in DOMAIN KeyName, InRange(q, k)
    PROVE  k \in Watched(q)
<1> DEFINE name == KeyName[k]
<1>1. name \in Seq(Nat) /\ q.key \in Seq(Nat) /\ q.end \in Seq(Nat)
  BY KeyNameAssumption DEF KeyRange
<1>2. CASE q.end = <<>>
  <2>1. name = q.key /\ watchPrefix(q.key, q.end) = q.key
    BY <1>2, SMTT(60) DEF InRange, watchPrefix, Zero
  <2>2. HasPrefix(name, q.key)
    BY <1>1, <2>1, SMTT(60) DEF HasPrefix
  <2>3. HasPrefix(name, TrimPercent(q.key))
    BY <1>1, <2>2, TrimCovers
  <2> QED BY <2>1, <2>3 DEF Watched
<1>3. CASE q.end = Zero
  <2>1. watchPrefix(q.key, q.end) = <<>>
    BY <1>3, SMTT(60) DEF Zero, watchPrefix
  <2>2. HasPrefix(name, <<>>)
    BY <1>1, SMTT(60) DEF HasPrefix
  <2>3. TrimPercent(<<>>) = <<>>
    BY DEF TrimPercent
  <2> QED BY <2>1, <2>2, <2>3 DEF Watched
<1>4. CASE q.end \notin {<<>>, Zero}
  <2> DEFINE n == Len(q.key)
  <2>1. Len(q.end) = n /\ \A i \in 1..(n - 1) : q.end[i] = q.key[i]
    BY <1>4 DEF IsPrefixRange
  <2>2. ~KeyBefore(name, q.key) /\ KeyBefore(name, q.end)
    BY <1>4 DEF InRange
  <2>3. n \in Nat /\ n # 0
    BY <1>1, <1>4, <2>1, SMTT(60)
  <2>4. watchPrefix(q.key, q.end) = ButLast(q.key)
    BY <1>4, <2>1 DEF watchPrefix
  <2>5. /\ Len(ButLast(q.key)) = n - 1
        /\ \A i \in 1..(n - 1) : ButLast(q.key)[i] = q.key[i]
    BY <1>1, <2>3, SMTT(60) DEF ButLast
  <2>6. ButLast(q.key) \in Seq(Nat)
    BY <1>1, <2>3, SMTT(60) DEF ButLast
  <2>7. ~(name # q.end /\ HasPrefix(q.end, name))
    <3> SUFFICES ASSUME name # q.end, HasPrefix(q.end, name) PROVE FALSE
      OBVIOUS
    <3>1. Len(name) <= n /\ \A i \in 1..Len(name) : name[i] = q.end[i]
      BY <1>1, <2>1, SMTT(60) DEF HasPrefix
    <3>2. Len(name) # n
      <4>1. name \in [1..Len(name) -> Nat] /\ q.end \in [1..Len(q.end) -> Nat]
        BY <1>1, SMTT(60)
      <4> QED BY <2>1, <3>1, <4>1, SMTT(60)
    <3>3. Len(name) <= n - 1 /\ Len(name) \in Nat /\ DOMAIN name = 1..Len(name)
      BY <1>1, <2>3, <3>1, <3>2, SMTT(60)
    <3>4. \A i \in 1..Len(name) : name[i] = q.key[i]
      BY <2>1, <2>3, <3>1, <3>3, SMTT(60)
    <3>5. name # q.key
      BY <2>3, <3>3, SMTT(60)
    <3>6. HasPrefix(q.key, name)
      BY <2>3, <3>3, <3>4, SMTT(60) DEF HasPrefix
    <3> QED BY <2>2, <3>5, <3>6 DEF KeyBefore
  <2>8. ASSUME NEW i \in DOMAIN name \cap DOMAIN q.end, name[i] < q.end[i],
               \A j \in 1..(i - 1) : name[j] = q.end[j]
        PROVE  HasPrefix(name, ButLast(q.key))
    <3>1. i \in 1..n /\ i <= Len(name) /\ i \in DOMAIN name /\ i \in DOMAIN q.key
      BY <1>1, <2>1, <2>8, SMTT(60)
    <3>2. CASE i <= n - 1
      <4>1. name[i] < q.key[i] /\ \A j \in 1..(i - 1) : name[j] = q.key[j]
        BY <2>1, <2>3, <2>8, <3>1, <3>2, SMTT(60)
      <4> QED BY <2>2, <3>1, <4>1 DEF KeyBefore
    <3>3. CASE i = n
      <4>1. \A j \in 1..(n - 1) : name[j] = ButLast(q.key)[j]
        BY <2>1, <2>5, <2>8, <3>3
      <4>2. DOMAIN ButLast(q.key) = 1..(n - 1) /\ n - 1 <= Len(name)
        BY <1>1, <2>3, <2>5, <2>6, <3>1, <3>3, SMTT(60)
      <4> QED BY <2>5, <4>1, <4>2 DEF HasPrefix
    <3> QED BY <2>3, <3>1, <3>2, <3>3, SMTT(60)
  <2>9. HasPrefix(name, ButLast(q.key))
    <3>1. \/ name # q.end /\ HasPrefix(q.end, name)
          \/ \E i \in DOMAIN name \cap DOMAIN q.end :
                name[i] < q.end[i] /\ \A j \in 1..(i - 1) : name[j] = q.end[j]
      BY <2>2 DEF KeyBefore
    <3> HIDE DEF name
    <3> QED BY <2>7, <2>8, <3>1
  <2>10. HasPrefix(name, TrimPercent(ButLast(q.key)))
    <3> HIDE DEF name
    <3> QED BY <1>1, <2>6, <2>9, TrimCovers
  <2> QED BY <2>4, <2>10 DEF Watched
<1> QED BY <1>2, <1>3, <1>4

-----------------------------------------------------------------------------
(* Delivery: what a step leaves as it was. *)

\* The poll loop does not move on.
PollSame == poll'.first = poll.first /\ poll'.lastRev = poll.lastRev

\* Types the arithmetic below needs.
LEMMA DeliveryTypes ==
    ASSUME WatchIInv
    PROVE  /\ clock \in Nat /\ compactRev \in Nat /\ poll.lastRev \in Nat /\ poll.lastRev <= clock
           /\ poll.first \in Nat
           /\ \A w \in written : w.rev \in Nat /\ w.rev <= clock /\ w.key \in Key
           /\ \A s \in Sub : /\ sub[s].start \in Nat /\ sub[s].start <= clock
                             /\ sub[s].after \in Nat /\ sub[s].replayRev \in Nat
<1>1. ReadIInv /\ poll \in PollState /\ PollReads
  BY DEF WatchIInv, WatchTypes
<1>2. /\ clock \in Nat /\ compactRev \in Nat
      /\ \A w \in written : w.rev \in Nat /\ w.key \in Key /\ w.rev <= clock
  BY <1>1, StoreTypes
<1>3. poll.lastRev \in Nat /\ poll.first \in Nat
  <2>1. poll.lastRev \in Revision /\ poll.first \in Revision
    BY <1>1 DEF PollState
  <2> QED BY <2>1, WatchConstants
<1>4. poll.lastRev <= clock
  BY <1>1 DEF PollReads
<1>5. ASSUME NEW s \in Sub
      PROVE  /\ sub[s].start \in Nat /\ sub[s].start <= clock
             /\ sub[s].after \in Nat /\ sub[s].replayRev \in Nat
  BY SubFields, WatchConstants
<1> QED BY <1>2, <1>3, <1>4, <1>5

\* The same after a step.
LEMMA TypesAfter ==
    ASSUME WatchIInv'
    PROVE  compactRev' \in Nat /\ \A w \in written' : w.rev \in Nat
<1>1. IInv'
  BY DEF WatchIInv, ReadIInv
<1>2. compactRev' \in Target /\ written' \subseteq Row
  BY <1>1 DEF IInv, TypeOK
<1>3. \A w \in Row : w.rev \in Revision
  BY DEF Row
<1>4. Target \subseteq Nat /\ Revision \subseteq Nat
  BY StoreAssumption, SMTT(60) DEF Target, Revision
<1> QED BY <1>2, <1>3, <1>4

\* A step that is not one of the store.
LEMMA StoreQuiet ==
    ASSUME WatchIInv, UNCHANGED vars
    PROVE  StoreMoves
<1>1. clock \in Nat /\ compactRev \in Nat
  BY DeliveryTypes
<1>2. clock' = clock /\ compactRev' = compactRev /\ written' = written
  BY DEF vars
<1> QED BY <1>1, <1>2, SMTT(60) DEF StoreMoves

\* The store adds nothing the poll loop, or the replay, has gone past.
LEMMA PolledBefore ==
    ASSUME WatchIInv, WatchIInv', StoreMoves, PollSame, NEW s \in Sub,
           sub'[s].keys = sub[s].keys, sub'[s].start = sub[s].start,
           NEW w \in written', Polled(s, w)'
    PROVE  w \in written /\ Polled(s, w)
<1>1. /\ w.key \in sub[s].keys /\ compactRev' < w.rev
      /\ sub[s].start < w.rev /\ poll.first < w.rev /\ w.rev <= poll.lastRev
  BY DEF Polled, PollSame
<1>2. /\ compactRev <= compactRev' /\ \A v \in written' \ written : v.rev > clock
  BY DEF StoreMoves
<1>3. clock \in Nat /\ compactRev \in Nat /\ poll.lastRev \in Nat /\ poll.lastRev <= clock
  BY DeliveryTypes
<1>4. compactRev' \in Nat /\ w.rev \in Nat
  BY TypesAfter
<1>5. compactRev < w.rev /\ ~(w.rev > clock)
  BY <1>1, <1>2, <1>3, <1>4, SMTT(60)
<1>6. w \in written
  BY <1>2, <1>5
<1> QED BY <1>1, <1>5, <1>6 DEF Polled

\* Nor does it add anything to the past a replay is asked for.
LEMMA PastBefore ==
    ASSUME WatchIInv, WatchIInv', StoreMoves, NEW s \in Sub,
           sub'[s].keys = sub[s].keys, sub'[s].start = sub[s].start, sub'[s].after = sub[s].after,
           NEW w \in written', Past(s, w)'
    PROVE  w \in written /\ Past(s, w)
<1>1. /\ w.key \in sub[s].keys /\ compactRev' < w.rev
      /\ sub[s].after <= w.rev /\ w.rev <= sub[s].start
  BY DEF Past
<1>2. /\ compactRev <= compactRev' /\ \A v \in written' \ written : v.rev > clock
  BY DEF StoreMoves
<1>3. clock \in Nat /\ compactRev \in Nat /\ sub[s].start \in Nat /\ sub[s].start <= clock
  BY DeliveryTypes
<1>4. compactRev' \in Nat /\ w.rev \in Nat
  BY TypesAfter
<1>5. compactRev < w.rev /\ ~(w.rev > clock)
  BY <1>1, <1>2, <1>3, <1>4, SMTT(60)
<1>6. w \in written
  BY <1>2, <1>5
<1> QED BY <1>1, <1>5, <1>6 DEF Past

\* Nothing that was on its way to s is lost.
LEMMA CaughtStays ==
    ASSUME WatchIInv, WatchIInv', StoreMoves, PollSame, NEW s \in Sub, Caught(s),
           sub'[s].keys = sub[s].keys, sub'[s].start = sub[s].start,
           Alive(s)' => Alive(s),
           Alive(s)' => \A w \in written : w.key \in sub[s].keys /\ Coming(s, w) => Coming(s, w)'
    PROVE  Caught(s)'
<1> SUFFICES ASSUME Alive(s)', NEW w \in written', Polled(s, w)' PROVE Coming(s, w)'
  BY DEF Caught
<1>1. w \in written /\ Polled(s, w)
  BY PolledBefore
<1>2. Coming(s, w) /\ w.key \in sub[s].keys
  BY <1>1 DEF Caught, Polled
<1> QED BY <1>1, <1>2

\* The replay of s does not move on.
LEMMA ReplayedStays ==
    ASSUME WatchIInv, WatchIInv', StoreMoves, NEW s \in Sub, ReplayedPast(s),
           sub'[s].keys = sub[s].keys, sub'[s].start = sub[s].start, sub'[s].after = sub[s].after,
           sub'[s].replayRev = sub[s].replayRev,
           Alive(s)' => Alive(s),
           Alive(s)' => \A w \in written : Held(s, w) => Held(s, w)',
           Alive(s)' => \/ sub'[s].pc = sub[s].pc
                        \/ sub'[s].pc # "live" /\ sub[s].pc \in {"replay", "read", "push"}
    PROVE  ReplayedPast(s)'
<1> SUFFICES ASSUME Alive(s)', sub[s].after > 0, NEW w \in written', Past(s, w)',
                    \/ sub'[s].pc = "live"
                    \/ sub'[s].pc \in {"replay", "read", "push"} /\ w.rev <= sub[s].replayRev
             PROVE  Held(s, w)'
  BY DEF ReplayedPast
<1>1. w \in written /\ Past(s, w)
  BY PastBefore
<1>2. \/ sub[s].pc = "live"
      \/ sub[s].pc \in {"replay", "read", "push"} /\ w.rev <= sub[s].replayRev
  OBVIOUS
<1>3. Held(s, w)
  BY <1>1, <1>2 DEF ReplayedPast
<1> QED BY <1>1, <1>3

\* The page of a replay stays as it is.
LEMMA PageStays ==
    ASSUME WatchIInv, WatchIInv', StoreMoves, NEW s \in Sub, PageExact(s),
           sub'[s].keys = sub[s].keys, sub'[s].start = sub[s].start, sub'[s].after = sub[s].after,
           sub'[s].replayRev = sub[s].replayRev, sub'[s].page = sub[s].page,
           Alive(s)' => Alive(s), Alive(s)' => sub'[s].pc = sub[s].pc
    PROVE  PageExact(s)'
<1> SUFFICES ASSUME Alive(s)', sub'[s].pc = "push", NEW w \in written', Past(s, w)',
                    sub[s].replayRev < w.rev,
                    \/ Cardinality(sub[s].page) < PollBatchSize
                    \/ \E last \in sub[s].page : w.rev < last.rev
             PROVE  w \in sub[s].page
  BY DEF PageExact
<1>1. w \in written /\ Past(s, w)
  BY PastBefore
<1> QED BY <1>1 DEF PageExact

\* A subscription that is being torn down is owed nothing.
LEMMA DeadExact ==
    ASSUME NEW s \in Sub, ~Alive(s)'
    PROVE  SubExact(s)'
<1>1. Caught(s)'
  BY DEF Caught
<1>2. ReplayedPast(s)'
  BY DEF ReplayedPast
<1>3. PageExact(s)'
  BY DEF PageExact
<1> QED BY <1>1, <1>2, <1>3 DEF SubExact

\* s stays where it is, and has or is to be sent what it was.
LEMMA ExactStays ==
    ASSUME WatchIInv, WatchIInv', StoreMoves, PollSame, NEW s \in Sub, SubExact(s),
           sub'[s].pc = sub[s].pc, sub'[s].cancelled \/ sub'[s].cancelled = sub[s].cancelled,
           sub'[s].keys = sub[s].keys, sub'[s].start = sub[s].start, sub'[s].after = sub[s].after,
           sub'[s].replayRev = sub[s].replayRev, sub'[s].page = sub[s].page,
           Alive(s)' => \A w \in written : Held(s, w) => Held(s, w)',
           Alive(s)' => \A w \in written : w.key \in sub[s].keys /\ Coming(s, w) => Coming(s, w)'
    PROVE  SubExact(s)'
<1>1. Alive(s)' => Alive(s)
  BY DEF Alive
<1>2. Caught(s) /\ ReplayedPast(s) /\ PageExact(s)
  BY DEF SubExact
<1>3. Caught(s)'
  BY <1>1, <1>2, CaughtStays
<1>4. ReplayedPast(s)'
  BY <1>1, <1>2, ReplayedStays
<1>5. PageExact(s)'
  BY <1>1, <1>2, PageStays
<1> QED BY <1>3, <1>4, <1>5 DEF SubExact

\* A step that leaves s, and what the poll's dispatcher has for it, alone.
LEMMA Untouched ==
    ASSUME WatchIInv, WatchIInv', StoreMoves, PollSame, NEW s \in Sub, SubExact(s),
           sub'[s] = sub[s], got'[s] = got[s],
           s \in out["poll"].subs => s \in out'["poll"].subs /\ out'["poll"].rows = out["poll"].rows
    PROVE  SubExact(s)'
<1>1. \A w : Held(s, w) => Held(s, w)'
  BY DEF Held
<1>2. \A w : Coming(s, w) => Coming(s, w)'
  BY <1>1 DEF Coming
<1> QED BY <1>1, <1>2, ExactStays

\* The poll loop's answer stays whole, and compaction does not go back.
LEMMA PollPageStays ==
    ASSUME WatchIInv, WatchIInv', StoreMoves, PollPage, reader'[Poller] = reader[Poller], PollSame
    PROVE  PollPage'
<1>1. reader'[Poller].pc # "compacted"
  BY DEF PollPage
<1>2. ASSUME reader[Poller].pc = "answered", NEW w \in written',
             poll.lastRev < w.rev, w.rev <= reader[Poller].asOf, reader[Poller].horizon < w.rev
      PROVE  w \in reader[Poller].rows
  <2>1. \A v \in written' \ written : v.rev > clock
    BY DEF StoreMoves
  <2>2. clock \in Nat /\ reader[Poller].asOf \in Nat /\ reader[Poller].asOf <= clock
    BY StoreTypes, WatchConstants DEF WatchIInv
  <2>3. w.rev \in Nat
    BY TypesAfter
  <2>4. ~(w.rev > clock)
    BY <1>2, <2>2, <2>3, SMTT(60)
  <2>5. w \in written
    BY <2>1, <2>4
  <2> QED BY <1>2, <2>5 DEF PollPage
<1> QED BY <1>1, <1>2 DEF PollPage, PollSame

\* A read that looks at the compaction revision sees at most the one there is.
LEMMA HorizonStays ==
    ASSUME WatchIInv, WatchIInv', StoreMoves, HorizonPast,
           \A r \in Reader : reader'[r].horizon \in {reader[r].horizon, 0, compactRev}
    PROVE  HorizonPast'
<1> SUFFICES ASSUME NEW r \in Reader PROVE reader'[r].horizon <= compactRev'
  BY DEF HorizonPast
<1>1. reader[r].horizon \in Nat /\ reader[r].horizon <= compactRev
  BY StoreTypes DEF WatchIInv, HorizonPast
<1>2. compactRev \in Nat
  BY DeliveryTypes
<1>3. compactRev' \in Nat
  BY TypesAfter
<1>4. compactRev <= compactRev'
  BY DEF StoreMoves
<1>5. reader'[r].horizon \in {reader[r].horizon, 0, compactRev}
  OBVIOUS
<1> QED BY <1>1, <1>2, <1>3, <1>4, <1>5, SMTT(60)

\* A step of s alone, its goroutine or its client.
LEMMA DeliveryKeeps ==
    ASSUME WatchIInv, WatchIInv', DeliveryInv, UNCHANGED vars, poll' = poll, out' = out,
           NEW s \in Sub, \A q \in Sub : q # s => sub'[q] = sub[q] /\ got'[q] = got[q],
           \A r \in Reader : r # s => reader'[r] = reader[r],
           reader'[s].horizon \in {reader[s].horizon, 0, compactRev},
           SubExact(s)'
    PROVE  DeliveryInv'
<1>1. StoreMoves /\ PollSame
  BY StoreQuiet DEF PollSame
<1>2. PollPage /\ HorizonPast /\ \A q \in Sub : SubExact(q)
  BY DEF DeliveryInv
<1>3. reader'[Poller] = reader[Poller]
  BY WatchConstants
<1>4. PollPage'
  BY <1>1, <1>2, <1>3, PollPageStays
<1>5. HorizonPast'
  <2>1. \A r \in Reader : reader'[r].horizon \in {reader[r].horizon, 0, compactRev}
    <3> SUFFICES ASSUME NEW r \in Reader PROVE reader'[r].horizon \in {reader[r].horizon, 0, compactRev}
      OBVIOUS
    <3>1. CASE r = s
      BY <3>1
    <3>2. CASE r # s
      BY <3>2
    <3> QED BY <3>1, <3>2
  <2> QED BY <1>1, <1>2, <2>1, HorizonStays
<1>6. ASSUME NEW q \in Sub, q # s PROVE SubExact(q)'
  <2>1. sub'[q] = sub[q] /\ got'[q] = got[q]
    BY <1>6
  <2>2. q \in out["poll"].subs => q \in out'["poll"].subs /\ out'["poll"].rows = out["poll"].rows
    OBVIOUS
  <2> QED BY <1>1, <1>2, <2>1, <2>2, Untouched
<1> QED BY <1>4, <1>5, <1>6 DEF DeliveryInv

\* The same, when s is torn down.
LEMMA DeadDelivers ==
    ASSUME WatchIInv, WatchIInv', DeliveryInv, UNCHANGED vars, poll' = poll, out' = out,
           NEW s \in Sub, NEW x, sub' = [sub EXCEPT ![s] = x], x.pc \notin OpenPc \/ x.cancelled,
           \A q \in Sub : q # s => got'[q] = got[q],
           \A r \in Reader : r # s => reader'[r] = reader[r],
           reader'[s].horizon \in {reader[s].horizon, 0, compactRev}
    PROVE  DeliveryInv'
<1>1. sub'[s] = x /\ \A q \in Sub : q # s => sub'[q] = sub[q]
  BY DEF WatchIInv, WatchTypes
<1>2. ~Alive(s)'
  BY <1>1 DEF Alive
<1>3. SubExact(s)'
  BY <1>2, DeadExact
<1> QED BY <1>1, <1>3, DeliveryKeeps

-----------------------------------------------------------------------------
(* Delivery: a subscription begins, and ends. *)

\* The teardown.
LEMMA TeardownDelivers ==
    ASSUME WatchIInv, WatchIInv', DeliveryInv, NEW s \in Sub,
           Cancel(s) \/ Leave(s) \/ MarkClosed(s) \/ removeSub(s) \/ Drain(s) \/ SendSentinel(s)
    PROVE  DeliveryInv'
<1>1. sub \in [Sub -> SubState] /\ sub[s] \in SubState /\ got \in [Sub -> SUBSET Row]
  BY DEF WatchIInv, WatchTypes
<1>2. UNCHANGED vars /\ poll' = poll /\ out' = out /\ reader' = reader
  BY DEF Cancel, Leave, MarkClosed, removeSub, Drain, SendSentinel, SubStep
<1>3. \A q \in Sub : q # s => got'[q] = got[q]
  <2>1. CASE MarkClosed(s)
    BY <1>1, <2>1 DEF MarkClosed
  <2>2. CASE ~MarkClosed(s)
    BY <2>2 DEF Cancel, Leave, removeSub, Drain, SendSentinel, SubStep
  <2> QED BY <2>1, <2>2
<1>4. \E x : sub' = [sub EXCEPT ![s] = x] /\ (x.pc \notin OpenPc \/ x.cancelled)
  <2>1. CASE Cancel(s)
    <3>1. sub' = [sub EXCEPT ![s] = [sub[s] EXCEPT !.cancelled = TRUE]]
      BY <1>1, <2>1 DEF Cancel
    <3>2. [sub[s] EXCEPT !.cancelled = TRUE].cancelled
      BY <1>1 DEF SubState
    <3> QED BY <3>1, <3>2
  <2>2. CASE Leave(s)
    <3>1. sub' = [sub EXCEPT ![s] = [sub[s] EXCEPT !.pc = "close", !.page = {}]]
      BY <1>1, <2>2 DEF Leave, SubStep
    <3>2. [sub[s] EXCEPT !.pc = "close", !.page = {}].pc \notin OpenPc
      BY <1>1 DEF SubState, OpenPc
    <3> QED BY <3>1, <3>2
  <2>3. CASE MarkClosed(s)
    <3>1. sub' = [sub EXCEPT ![s] = [sub[s] EXCEPT !.pc = "remove", !.closed = TRUE]]
      BY <1>1, <2>3 DEF MarkClosed
    <3>2. [sub[s] EXCEPT !.pc = "remove", !.closed = TRUE].pc \notin OpenPc
      BY <1>1 DEF SubState, OpenPc
    <3> QED BY <3>1, <3>2
  <2>4. CASE removeSub(s)
    <3> DEFINE x == [sub[s] EXCEPT !.pc = "drain", !.registered = FALSE, !.cancelled = TRUE]
    <3>1. sub' = [sub EXCEPT ![s] = x]
      BY <1>1, <2>4 DEF removeSub, SubStep
    <3>2. x.pc \notin OpenPc
      BY <1>1 DEF SubState, OpenPc
    <3> QED BY <3>1, <3>2
  <2>5. CASE Drain(s) /\ sub[s].ch = <<>>
    <3>1. sub' = [sub EXCEPT ![s] = [sub[s] EXCEPT !.pc = "sentinel"]]
      BY <1>1, <2>5 DEF Drain, SubStep
    <3>2. [sub[s] EXCEPT !.pc = "sentinel"].pc \notin OpenPc
      BY <1>1 DEF SubState, OpenPc
    <3> QED BY <3>1, <3>2
  <2>6. CASE Drain(s) /\ sub[s].ch # <<>>
    <3>1. sub' = [sub EXCEPT ![s] = [sub[s] EXCEPT !.ch = Tail(sub[s].ch)]] /\ sub[s].pc = "drain"
      BY <1>1, <2>6 DEF Drain, SubStep
    <3>2. [sub[s] EXCEPT !.ch = Tail(sub[s].ch)].pc \notin OpenPc
      BY <1>1, <3>1 DEF SubState, OpenPc
    <3> QED BY <3>1, <3>2
  <2>7. CASE SendSentinel(s)
    <3> DEFINE chan == IF Len(sub[s].ch) < Depth THEN Append(sub[s].ch, Sentinel) ELSE sub[s].ch
    <3>1. sub' = [sub EXCEPT ![s] = [sub[s] EXCEPT !.pc = "gone", !.ch = chan]]
      BY <1>1, <2>7 DEF SendSentinel, SubStep
    <3> HIDE DEF chan
    <3>2. [sub[s] EXCEPT !.pc = "gone", !.ch = chan].pc \notin OpenPc
      BY <1>1 DEF SubState, OpenPc
    <3> QED BY <3>1, <3>2
  <2> QED BY <2>1, <2>2, <2>3, <2>4, <2>5, <2>6, <2>7
<1>5. \A r \in Reader : reader'[r] = reader[r]
  BY <1>2
<1>6. reader'[s].horizon = reader[s].horizon
  BY <1>2
<1>7. PICK x : sub' = [sub EXCEPT ![s] = x] /\ (x.pc \notin OpenPc \/ x.cancelled)
  BY <1>4
<1> QED BY <1>2, <1>3, <1>5, <1>6, <1>7, DeadDelivers

\* A read of a replay fails.
LEMMA ReplayErrorDelivers ==
    ASSUME WatchIInv, WatchIInv', DeliveryInv, NEW s \in Sub, ReplayError(s)
    PROVE  DeliveryInv'
<1> DEFINE x == [sub[s] EXCEPT !.pc = "close"]
<1>1. sub[s] \in SubState /\ ReadIInv
  BY DEF WatchIInv, WatchTypes
<1>2. /\ UNCHANGED vars /\ poll' = poll /\ out' = out /\ got' = got
      /\ reader' = [reader EXCEPT ![s] = NoRead] /\ sub' = [sub EXCEPT ![s] = x]
  BY DEF ReplayError, ReadError, SubStep
<1>3. OnlyReader(s) /\ reader'[s].horizon = 0
  BY <1>1, <1>2, ReadEnds, WatchConstants
<1>4. x.pc \notin OpenPc
  BY <1>1 DEF SubState, OpenPc
<1> HIDE DEF x
<1>5. /\ \A r \in Reader : r # s => reader'[r] = reader[r]
      /\ \A q \in Sub : q # s => got'[q] = got[q]
  BY <1>2, <1>3 DEF OnlyReader
<1> QED BY <1>2, <1>3, <1>4, <1>5, DeadDelivers

\* A client subscribes: nothing has been committed since.
LEMMA SubscribeDelivers ==
    ASSUME WatchIInv, WatchIInv', DeliveryInv, NEW s \in Sub, NEW q \in WatchRequest, subscribe(s, q)
    PROVE  DeliveryInv'
<1> DEFINE first == IF q.afterRev = 0 THEN "live" ELSE "check"
           x == [NoSub EXCEPT !.pc = first, !.range = q.range, !.keys = Watched(q.range),
                              !.after = q.afterRev, !.registered = TRUE, !.start = clock]
<1>1. /\ UNCHANGED vars /\ poll' = poll /\ out' = out /\ got' = got /\ reader' = reader
      /\ sub' = [sub EXCEPT ![s] = x]
  BY DEF subscribe, SubStep
<1>2. first \in {"live", "check"} /\ (first = "live" => q.afterRev = 0)
  OBVIOUS
<1> HIDE DEF first
<1>3. x.pc = first /\ x.after = q.afterRev /\ x.start = clock
  BY DEF NoSub
<1> HIDE DEF x
<1>4. sub'[s] = x /\ \A p \in Sub : p # s => sub'[p] = sub[p]
  BY <1>1 DEF WatchIInv, WatchTypes
<1>5. written' = written /\ clock' = clock
  BY <1>1 DEF vars
<1>6. Caught(s)'
  <2> SUFFICES ASSUME NEW w \in written, Polled(s, w)' PROVE FALSE
    BY <1>5 DEF Caught
  <2>1. clock < w.rev
    BY <1>3, <1>4 DEF Polled
  <2>2. w.rev \in Nat /\ w.rev <= clock /\ clock \in Nat
    BY DeliveryTypes
  <2> QED BY <2>1, <2>2, SMTT(60)
<1>7. ReplayedPast(s)'
  <2>1. sub'[s].pc \notin {"replay", "read", "push"} /\ ~(sub'[s].pc = "live" /\ sub'[s].after > 0)
    BY <1>2, <1>3, <1>4, SMTT(60)
  <2> QED BY <2>1 DEF ReplayedPast
<1>8. PageExact(s)'
  <2>1. sub'[s].pc # "push"
    BY <1>2, <1>3, <1>4
  <2> QED BY <2>1 DEF PageExact
<1>9. SubExact(s)'
  BY <1>6, <1>7, <1>8 DEF SubExact
<1>10. /\ \A p \in Sub : p # s => sub'[p] = sub[p] /\ got'[p] = got[p]
       /\ \A r \in Reader : r # s => reader'[r] = reader[r]
       /\ reader'[s].horizon = reader[s].horizon
  BY <1>1, <1>4
<1> QED BY <1>1, <1>9, <1>10, DeliveryKeeps

\* The replay starts before the first event asked for.
LEMMA ReplayCheckDelivers ==
    ASSUME WatchIInv, WatchIInv', DeliveryInv, NEW s \in Sub, ReplayCheck(s)
    PROVE  DeliveryInv'
<1>1. sub[s] \in SubState /\ SubExact(s)
  BY DEF WatchIInv, WatchTypes, DeliveryInv
<1>2. UNCHANGED vars /\ poll' = poll /\ out' = out /\ got' = got /\ reader' = reader /\ sub[s].pc = "check"
  BY DEF ReplayCheck, SubStep
<1>3. /\ \A r \in Reader : r # s => reader'[r] = reader[r]
      /\ \A q \in Sub : q # s => got'[q] = got[q]
      /\ reader'[s].horizon = reader[s].horizon
  BY <1>2
<1>4. CASE sub' = [sub EXCEPT ![s] = [sub[s] EXCEPT !.pc = "close"]]
  <2>1. [sub[s] EXCEPT !.pc = "close"].pc \notin OpenPc
    BY <1>1 DEF SubState, OpenPc
  <2> QED BY <1>2, <1>3, <1>4, <2>1, DeadDelivers
<1>5. CASE sub' = [sub EXCEPT ![s] = [sub[s] EXCEPT !.pc = "replay", !.replayRev = sub[s].after - 1]]
  <2> DEFINE x == [sub[s] EXCEPT !.pc = "replay", !.replayRev = sub[s].after - 1]
  <2>1. /\ x.pc = "replay" /\ x.replayRev = sub[s].after - 1 /\ x.after = sub[s].after
        /\ x.keys = sub[s].keys /\ x.start = sub[s].start /\ x.cancelled = sub[s].cancelled
        /\ x.ch = sub[s].ch
    BY <1>1 DEF SubState
  <2>2. sub'[s] = x /\ \A q \in Sub : q # s => sub'[q] = sub[q]
    BY <1>5 DEF WatchIInv, WatchTypes
  <2> HIDE DEF x
  <2>3. Caught(s)'
    <3>1. Alive(s)' => Alive(s)
      BY <1>2, <2>1, <2>2 DEF Alive, OpenPc
    <3>2. \A w : Coming(s, w) => Coming(s, w)'
      BY <1>2, <2>1, <2>2 DEF Coming, Held
    <3>3. StoreMoves /\ PollSame
      BY <1>2, StoreQuiet DEF PollSame
    <3>4. sub'[s].keys = sub[s].keys /\ sub'[s].start = sub[s].start
      BY <2>1, <2>2
    <3> QED BY <1>1, <3>1, <3>2, <3>3, <3>4, CaughtStays DEF SubExact
  <2>4. ReplayedPast(s)'
    <3> SUFFICES ASSUME NEW w \in written, Past(s, w)', w.rev <= x.replayRev PROVE FALSE
      <4>1. written' = written
        BY <1>2 DEF vars
      <4>2. sub'[s].pc # "live"
        BY <2>1, <2>2
      <4> QED BY <2>2, <4>1, <4>2 DEF ReplayedPast
    <3>1. sub[s].after <= w.rev
      BY <2>1, <2>2 DEF Past
    <3>2. w.rev \in Nat /\ sub[s].after \in Nat
      BY DeliveryTypes
    <3> QED BY <2>1, <3>1, <3>2, SMTT(60)
  <2>5. PageExact(s)'
    <3>1. sub'[s].pc # "push"
      BY <2>1, <2>2
    <3> QED BY <3>1 DEF PageExact
  <2>6. SubExact(s)'
    BY <2>3, <2>4, <2>5 DEF SubExact
  <2> QED BY <1>2, <1>3, <2>2, <2>6, DeliveryKeeps
<1> QED BY <1>4, <1>5 DEF ReplayCheck, SubStep

=============================================================================
