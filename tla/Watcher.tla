------------------------------ MODULE Watcher ------------------------------
(***************************************************************************)
(* The watcher of one replica (pkg/store/watch.go): the poll loop and the  *)
(* change stream's partition workers, which all find events and dispatch   *)
(* them to subscribers, and the goroutine of each subscription, which      *)
(* replays history into the subscriber's bounded channel and tears the     *)
(* subscription down.  The goroutines share the list of subscribers, the   *)
(* channels and the closed flags; they read the store with the After of    *)
(* StoreReads.                                                             *)
(*                                                                         *)
(* A batch on a channel is a set of rows, sorted by revision in the code;  *)
(* the empty batch is closedSentinel.                                      *)
(***************************************************************************)
EXTENDS StoreReads, KeyRanges

CONSTANTS
    Sub,            \* subscriptions
    Poller,         \* the poll loop, as a reader of the store
    WatchRequest,   \* what is watched: [range, afterRev]
    PollBatchSize,  \* rows per poll or replay page (500)
    Depth,          \* subChannelDepth (100)
    Partition       \* the change stream's partition workers (none: no change streams)

ASSUME WatchAssumption ==
    /\ Reader = Sub \cup {Poller} /\ Poller \notin Sub
    /\ PollBatchSize \in Nat \ {0} /\ Depth \in Nat \ {0}
    /\ IsFiniteSet(Partition) /\ "poll" \notin Partition
    /\ WatchRequest \subseteq [range : KeyRange, afterRev : Revision]
    /\ DOMAIN KeyName = Key

VARIABLES
    poll,    \* pc and lastRev of pollLoop; first: history, its first lastRev
    sub,     \* sub[s]: the subscriber and its goroutine
    out,     \* out[d]: what dispatcher d is sending, and to whom still
    got,     \* got[s]: history, events taken from the channel while it is open
    told     \* told[s]: watchLoop has returned: its client left or it took closedSentinel

watchState == <<poll, sub, out, got, told>>

watchVars == <<kv, compactRev, clock, pass, written, reader, watchState>>

Dispatcher == {"poll"} \cup Partition

\* start: history, the last commit when the subscriber was registered.
NoSub == [pc |-> "off", range |-> [key |-> <<>>, end |-> <<>>], keys |-> {},
          after |-> 0, replayRev |-> 0, page |-> {}, ch |-> <<>>, registered |-> FALSE, closed |-> FALSE,
          cancelled |-> FALSE, start |-> 0]

Sentinel == {}

Matching(s, rows) == {r \in rows : r.key \in sub[s].keys}

RevsOf(rows) == {r.rev : r \in rows}

IsLastRev(n, rows) == n \in RevsOf(rows) /\ \A r \in rows : r.rev <= n

-----------------------------------------------------------------------------
(* dispatchEvents: the subscribers are copied, then served one by one. *)

NoDispatch == [rows |-> {}, to |-> {}, subs |-> {}]

Dispatch(d, rows) ==
    LET subs == {s \in Sub : sub[s].registered /\ Matching(s, rows) # {}}
    IN  out' = [out EXCEPT ![d] = IF subs = {} THEN NoDispatch
                                  ELSE [rows |-> rows, to |-> {}, subs |-> subs]]

\* Dispatcher d is through with subscriber s.
ServedBy(d, s) ==
    out' = [out EXCEPT ![d] = IF out[d].subs = {s} THEN NoDispatch
                              ELSE [out[d] EXCEPT !.to = {}, !.subs = out[d].subs \ {s}]]

\* The closed flag is looked at ...
LookClosed(d, s) ==
    /\ s \in out[d].subs /\ out[d].to = {}
    /\ IF sub[s].closed THEN ServedBy(d, s) ELSE out' = [out EXCEPT ![d].to = {s}]
    /\ UNCHANGED <<vars, reader, poll, sub, got, told>>

\* Variant: a full channel loses the batch.
SendOrDrop(d, s) ==
    /\ s \in out[d].to
    /\ ServedBy(d, s)
    /\ sub' = IF Len(sub[s].ch) < Depth
              THEN [sub EXCEPT ![s].ch = Append(@, Matching(s, out[d].rows))] ELSE sub
    /\ UNCHANGED <<vars, reader, poll, got, told>>

\* ... and then the batch is sent, or a full channel cancels the subscription.
Send(d, s) ==
    /\ s \in out[d].to
    /\ ServedBy(d, s)
    /\ sub' = IF Len(sub[s].ch) < Depth
              THEN [sub EXCEPT ![s].ch = Append(@, Matching(s, out[d].rows))]
              ELSE [sub EXCEPT ![s].cancelled = TRUE]
    /\ UNCHANGED <<vars, reader, poll, got, told>>

-----------------------------------------------------------------------------
(* The poll loop. *)

\* An error leaves lastRev at 0.
PollStart ==
    /\ poll.pc = "start"
    /\ \E rev \in {0, CurrentRevision} :
          poll' = [pc |-> "wait", lastRev |-> rev, first |-> CurrentRevision]
    /\ UNCHANGED <<vars, reader, sub, out, got, told>>

\* The ticker fires, or a write on this replica wakes the loop.
PollAsk ==
    /\ poll.pc = "wait"
    /\ After(Poller, [op |-> "after", keys |-> Key, limit |-> PollBatchSize,
                      revision |-> poll.lastRev])
    /\ poll' = [poll EXCEPT !.pc = "read"]
    /\ UNCHANGED <<sub, out, got, told>>

\* Variant: lastRev becomes what is the current revision by now.
PollAnswerLatest ==
    /\ poll.pc = "read"
    /\ reader[Poller].pc \in {"answered", "compacted"}
    /\ poll' = [poll EXCEPT !.pc = "send", !.lastRev = CurrentRevision]
    /\ Dispatch("poll", reader[Poller].rows)
    /\ reader' = [reader EXCEPT ![Poller] = NoRead]
    /\ UNCHANGED <<vars, sub, got, told>>

\* lastRev becomes the current revision After read first, also when it
\* answers ErrCompacted.
PollAnswer ==
    /\ poll.pc = "read"
    /\ reader[Poller].pc \in {"answered", "compacted"}
    /\ poll' = [poll EXCEPT !.pc = "send", !.lastRev = reader[Poller].currentRev]
    /\ Dispatch("poll", reader[Poller].rows)
    /\ reader' = [reader EXCEPT ![Poller] = NoRead]
    /\ UNCHANGED <<vars, sub, got, told>>

PollError ==
    /\ ReadError(Poller)
    /\ poll' = [poll EXCEPT !.pc = "wait"]
    /\ UNCHANGED <<sub, out, got, told>>

PollDone ==
    /\ poll.pc = "send" /\ out["poll"].subs = {}
    /\ poll' = [poll EXCEPT !.pc = "wait"]
    /\ UNCHANGED <<vars, reader, sub, out, got, told>>

\* A worker hands out a data change record: rows of one commit.  Which rows
\* a worker reads, and in which order, is for ChangeStream to say; here it is
\* any rows, at any time and, as when a query is tried again, any number of
\* times.
dispatchFromCS(p) ==
    /\ out[p].subs = {}
    /\ \E rows \in SUBSET written :
          /\ rows # {} /\ Cardinality(RevsOf(rows)) = 1
          /\ Dispatch(p, rows)
    /\ UNCHANGED <<vars, reader, poll, sub, got, told>>

-----------------------------------------------------------------------------
(* subscribe, and the goroutine it starts. *)

SubStep(s, new) ==
    /\ sub' = [sub EXCEPT ![s] = new]
    /\ UNCHANGED <<poll, out, got, told>>

\* keys: those with the prefix the watch server makes of the range.
subscribe(s, q) ==
    /\ sub[s].pc = "off"
    /\ SubStep(s, [NoSub EXCEPT !.pc = IF q.afterRev = 0 THEN "live" ELSE "check",
                                !.range = q.range, !.keys = Watched(q.range), !.after = q.afterRev,
                                !.registered = TRUE, !.start = clock])
    /\ UNCHANGED <<vars, reader>>

\* A start revision already compacted ends the subscription; so does an
\* error reading the compaction revision.
ReplayCheck(s) ==
    /\ sub[s].pc = "check"
    /\ \/ /\ ~(compactRev > 1 /\ sub[s].after <= compactRev)
          /\ SubStep(s, [sub[s] EXCEPT !.pc = "replay", !.replayRev = sub[s].after - 1])
       \/ SubStep(s, [sub[s] EXCEPT !.pc = "close"])
    /\ UNCHANGED <<vars, reader>>

ReplayAsk(s) ==
    /\ sub[s].pc = "replay"
    /\ After(s, [op |-> "after", keys |-> Replayed(sub[s].range), limit |-> PollBatchSize,
                 revision |-> sub[s].replayRev])
    /\ SubStep(s, [sub[s] EXCEPT !.pc = "read"])

\* A page goes to the channel.  An error or ErrCompacted ends the
\* subscription.
ReplayAnswer(s) ==
    /\ sub[s].pc = "read"
    /\ reader[s].pc \in {"answered", "compacted"}
    /\ SubStep(s, [sub[s] EXCEPT
                     !.pc = IF reader[s].pc = "compacted" THEN "close"
                            ELSE IF reader[s].rows = {} THEN "live" ELSE "push",
                     !.page = reader[s].rows])
    /\ reader' = [reader EXCEPT ![s] = NoRead]
    /\ UNCHANGED vars

ReplayError(s) ==
    /\ ReadError(s)
    /\ SubStep(s, [sub[s] EXCEPT !.pc = "close"])

\* This send blocks.  The next page starts after the last revision sent; a
\* page that is not full was the last.
ReplayPush(s) ==
    /\ sub[s].pc = "push" /\ Len(sub[s].ch) < Depth
    /\ \E last \in RevsOf(sub[s].page) :
          /\ IsLastRev(last, sub[s].page)
          /\ SubStep(s, [sub[s] EXCEPT
                !.ch = Append(@, sub[s].page), !.page = {}, !.replayRev = last,
                !.pc = IF Cardinality(sub[s].page) < PollBatchSize THEN "live" ELSE "replay"])
    /\ UNCHANGED <<vars, reader>>

\* The client goes away.
Cancel(s) ==
    /\ sub[s].pc \notin {"off", "gone"} /\ ~sub[s].cancelled
    /\ sub' = [sub EXCEPT ![s].cancelled = TRUE]
    /\ told' = [told EXCEPT ![s] = TRUE]
    /\ UNCHANGED <<vars, reader, poll, out, got>>

\* The goroutine sees its context cancelled.
Leave(s) ==
    /\ sub[s].pc \in {"push", "live"} /\ sub[s].cancelled
    /\ SubStep(s, [sub[s] EXCEPT !.pc = "close", !.page = {}])
    /\ UNCHANGED <<vars, reader>>

\* The deferred teardown: set closed, leave the list, drain, send sentinel.
MarkClosed(s) ==
    /\ sub[s].pc = "close"
    /\ sub' = [sub EXCEPT ![s].pc = "remove", ![s].closed = TRUE]
    /\ got' = [got EXCEPT ![s] = {}]
    /\ UNCHANGED <<vars, reader, poll, out, told>>

removeSub(s) ==
    /\ sub[s].pc = "remove"
    /\ SubStep(s, [sub[s] EXCEPT !.pc = "drain", !.registered = FALSE, !.cancelled = TRUE])
    /\ UNCHANGED <<vars, reader>>

\* Variant: the channel is not drained.
DrainNothing(s) ==
    /\ sub[s].pc = "drain"
    /\ SubStep(s, [sub[s] EXCEPT !.pc = "sentinel"])
    /\ UNCHANGED <<vars, reader>>

Drain(s) ==
    /\ sub[s].pc = "drain"
    /\ SubStep(s, IF sub[s].ch = <<>> THEN [sub[s] EXCEPT !.pc = "sentinel"]
                  ELSE [sub[s] EXCEPT !.ch = Tail(@)])
    /\ UNCHANGED <<vars, reader>>

\* Variant: only a subscription its client has not cancelled gets the sentinel.
SendSentinelIfOpen(s) ==
    /\ sub[s].pc = "sentinel"
    /\ SubStep(s, [sub[s] EXCEPT !.pc = "gone",
                     !.ch = IF ~sub[s].cancelled THEN Append(@, Sentinel) ELSE @])
    /\ UNCHANGED <<vars, reader>>

\* A channel still full after 100ms never gets the sentinel.
SendSentinel(s) ==
    /\ sub[s].pc = "sentinel"
    /\ SubStep(s, [sub[s] EXCEPT !.pc = "gone",
                     !.ch = IF Len(@) < Depth THEN Append(@, Sentinel) ELSE @])
    /\ UNCHANGED <<vars, reader>>

\* watchLoop takes a batch; it stops after the sentinel.
Receive(s) ==
    /\ sub[s].ch # <<>> /\ ~told[s]
    /\ sub' = [sub EXCEPT ![s].ch = Tail(@)]
    /\ got' = IF sub[s].closed THEN got ELSE [got EXCEPT ![s] = @ \cup Head(sub[s].ch)]
    /\ told' = [told EXCEPT ![s] = Head(sub[s].ch) = Sentinel]
    /\ UNCHANGED <<vars, reader, poll, out>>

-----------------------------------------------------------------------------
WatchInit ==
    /\ ReadInit
    /\ poll = [pc |-> "start", lastRev |-> 0, first |-> 0]
    /\ sub = [s \in Sub |-> NoSub]
    /\ out = [d \in Dispatcher |-> NoDispatch]
    /\ got = [s \in Sub |-> {}]
    /\ told = [s \in Sub |-> FALSE]

ReadGoesOn(r) == (CheckCompacted(r) \/ Query(r)) /\ UNCHANGED watchState

PollStep ==
    PollStart \/ PollAsk \/ PollAnswer \/ PollDone \/ ReadGoesOn(Poller)

DispatchStep(d) == \E s \in Sub : LookClosed(d, s) \/ Send(d, s)

GoroutineStep(s) ==
    \/ ReplayCheck(s) \/ ReplayAsk(s) \/ ReplayAnswer(s) \/ ReplayPush(s)
    \/ ReadGoesOn(s) \/ Leave(s)
    \/ MarkClosed(s) \/ removeSub(s) \/ Drain(s) \/ SendSentinel(s)

StoreStep ==
    \/ \E t \in TxnRequest : AtomicTxn(t)
    \/ HorizonRises \/ RowCompacted

WatchNext ==
    \/ StoreStep /\ UNCHANGED <<reader, watchState>>
    \/ PollStep \/ PollError
    \/ \E p \in Partition : dispatchFromCS(p)
    \/ \E d \in Dispatcher : DispatchStep(d)
    \/ \E s \in Sub :
          \/ \E q \in WatchRequest : subscribe(s, q)
          \/ GoroutineStep(s) \/ ReplayError(s) \/ Cancel(s) \/ Receive(s)

WatchSpec == WatchInit /\ [][WatchNext]_watchVars

\* The goroutines run, the watchLoop of an open watch reads its channel, and
\* the reads of the poll loop do not fail for ever.
WatchFairness ==
    /\ WF_watchVars(PollStep)
    /\ SF_watchVars(CheckCompacted(Poller) /\ UNCHANGED watchState)
    /\ SF_watchVars(Query(Poller) /\ UNCHANGED watchState)
    /\ \A d \in Dispatcher : WF_watchVars(DispatchStep(d))
    /\ \A s \in Sub : WF_watchVars(GoroutineStep(s)) /\ WF_watchVars(Receive(s))

FairWatchSpec == WatchSpec /\ WatchFairness

-----------------------------------------------------------------------------
(* Properties. *)

\* Events on their way to s: taken, buffered, or with the poll's dispatcher.
Delivered(s) ==
    got[s] \cup (UNION {sub[s].ch[i] : i \in DOMAIN sub[s].ch})
           \cup (IF s \in out["poll"].subs THEN out["poll"].rows ELSE {})

\* s is subscribed, has replayed what it asked for, and is not being closed.
Served(s) == sub[s].pc = "live" /\ ~sub[s].cancelled

\* What s asked for: events from its start revision, or from now on.
Wanted(s, w) ==
    /\ InRange(sub[s].range, w.key)
    /\ IF sub[s].after = 0 THEN w.rev > sub[s].start ELSE w.rev >= sub[s].after

\* No more events than a page holds, and no compaction past lastRev, come
\* between two polls.
PollKeepsUp ==
    /\ reader[Poller].pc = "check" => ~IsCompacted(reader[Poller].req)
    /\ reader[Poller].pc = "query" => Cardinality(EventsAfter(Key, poll.lastRev)) <= PollBatchSize

\* A full page of a replay does not end in the middle of a commit.
PagesWhole ==
    \A s \in Sub : sub[s].pc = "push" /\ ~(Cardinality(sub[s].page) < PollBatchSize) =>
        \A r \in sub[s].page, w \in written :
            w.key \in Replayed(sub[s].range) /\ w.rev = r.rev /\ w.rev > compactRev =>
                w \in sub[s].page

\* No gap between replay, poll and subscription: a live subscriber is sent
\* every event it asked for that is above the compaction revision, up to the
\* revision the poll loop has reached, as long as PollKeepsUp and PagesWhole.  A
\* replay needs no condition on compaction: it ends in an error rather than skip
\* what is compacted under it.  A full channel cancels, it never skips.  Left out
\* are events committed after the subscription and before the poll loop first
\* read the current revision (poll.first), which it does not look for.
NothingMissed ==
    \A s \in Sub : Served(s) =>
        \A w \in written :
            /\ Wanted(s, w) /\ w.rev > compactRev
            /\ w.rev <= sub[s].start \/ (poll.first < w.rev /\ w.rev <= poll.lastRev)
            => w \in Delivered(s)

\* "Paginate replay until we have delivered all historical events": every
\* event from the start revision to the subscription, still above the
\* compaction revision, is replayed whatever the page size.
ReplayComplete ==
    \A s \in Sub : Served(s) /\ sub[s].after > 0 =>
        \A w \in written :
            Wanted(s, w) /\ w.rev <= sub[s].start /\ w.rev > compactRev =>
                w \in Delivered(s)

\* The drained channel has room for the sentinel although dispatchers that
\* saw the subscription open may still send: each of them sends one batch at
\* most, so that the client is told whenever there are fewer dispatchers (the
\* poll loop and one worker per partition) than places in the channel.
SentinelFits ==
    Cardinality(Dispatcher) < Depth =>
        \A s \in Sub : sub[s].pc = "sentinel" => Len(sub[s].ch) < Depth

\* "using polls during that window ensures no events are dropped": what the
\* poll loop has gone past was sent to every live subscriber.
NoEventDropped ==
    \A s \in Sub : Served(s) =>
        \A w \in written :
            Wanted(s, w) /\ w.rev > sub[s].start /\ w.rev > compactRev
                /\ poll.first < w.rev /\ w.rev <= poll.lastRev => w \in Delivered(s)

\* A subscription ended by the client, by a full channel, by compaction or by
\* an error is torn down and, unless the client left, its watchLoop told.
CancelledIsTold ==
    \A s \in Sub : sub[s].cancelled \/ sub[s].pc = "close" ~> sub[s].pc = "gone" /\ told[s]

\* As long as the poll loop keeps up, every event somebody is subscribed to
\* reaches them, unless the subscription ends or the event is compacted.  The
\* events are those committed after the subscription and after the poll loop
\* first read the current revision.
EventArrives ==
    []PollKeepsUp =>
        \A s \in Sub : \A n \in 2..MaxRev : \A k \in Key :
            (/\ sub[s].registered /\ InRange(sub[s].range, k) /\ n > sub[s].start
             /\ poll.pc # "start" /\ n > poll.first
             /\ \E w \in written : w.rev = n /\ w.key = k)
            ~> (\/ sub[s].pc \notin {"live", "check", "replay", "read", "push"}
                \/ sub[s].cancelled
                \/ n <= compactRev
                \/ \E w \in got[s] : w.rev = n /\ w.key = k)

=============================================================================
