---------------------------- MODULE WatchStream ----------------------------
(***************************************************************************)
(* A Watch stream (pkg/server/watch.go, helpers.go): the handler's main    *)
(* loop, its send and receive goroutines, and the watchLoop goroutine of   *)
(* each watch of the stream.  They share the bounded channels respCh,      *)
(* cancelledCh, sendErrCh and reqCh and the contexts derived from the      *)
(* stream's.                                                               *)
(*                                                                         *)
(* What the store hands a watchLoop is left open here (Watcher models it): *)
(* batches of events, and closedSentinel once it has ended the             *)
(* subscription.                                                           *)
(***************************************************************************)
EXTENDS Naturals, Sequences

CONSTANTS
    MaxWatches,   \* bound: watches a client creates on the stream
    MaxBatches,   \* bound: responses a watch has before it ends
    RespDepth,    \* capacity of respCh (64)
    CancelDepth   \* capacity of cancelledCh (64)

ASSUME StreamAssumption ==
    MaxWatches \in Nat \ {0} /\ MaxBatches \in Nat
    /\ RespDepth \in Nat \ {0} /\ CancelDepth \in Nat \ {0}

VARIABLES
    main,         \* pc of Watch, and the watch id it is about to respond for
    ctxDone,      \* the stream's context is done
    watches,      \* ids in the watches map
    nextID,
    respCh,
    cancelledCh,
    sender,       \* the send goroutine runs
    sendErr,      \* sendErrCh holds an error
    reqCh,        \* what Recv has returned
    loop,         \* loop[id]: watchLoop, its contexts and its subscription
    got,          \* got[id]: responses the client was sent: 0 is Created
    told,         \* ids the client was sent a Canceled for
    asked         \* ids the client has asked to cancel

streamVars == <<main, ctxDone, watches, nextID, respCh, cancelledCh, sender, sendErr,
                reqCh, loop, got, told, asked>>

Id == 0..(MaxWatches - 1)

\* n: responses so far.  cancelled: the watch's cancel has been called.  done:
\* stdCtx is done.  sub: the subscription in the store.
NoLoop == [pc |-> "off", n |-> 0, cancelled |-> FALSE, done |-> FALSE, sub |-> "none"]

RunningMain == {"loop", "created", "canceled"}

-----------------------------------------------------------------------------
(* The client. *)

Request == [type : {"create", "cancel", "eof", "error"}, id : Id]

\* Recv returns a request, the end of the client's requests, or an error.  A
\* client cancels watches it knows, once.
Recv(req) ==
    /\ main.pc \in RunningMain /\ ~ctxDone /\ reqCh = <<>>
    /\ req.type = "create" => nextID < MaxWatches
    /\ IF req.type = "cancel" THEN got[req.id] # <<>> /\ req.id \notin asked ELSE req.id = 0
    /\ reqCh' = <<req>>
    /\ asked' = IF req.type = "cancel" THEN asked \cup {req.id} ELSE asked
    /\ UNCHANGED <<main, ctxDone, watches, nextID, respCh, cancelledCh, sender, sendErr,
                   loop, got, told>>

\* The client disconnects.
Disconnect ==
    /\ main.pc \in RunningMain /\ ~ctxDone
    /\ ctxDone' = TRUE
    /\ UNCHANGED <<main, watches, nextID, respCh, cancelledCh, sender, sendErr, reqCh,
                   loop, got, told, asked>>

-----------------------------------------------------------------------------
(* The main loop. *)

\* Variant: the entries of the map share the cancel function of the newest watch.
CancelNewest(ids) ==
    [i \in Id |-> IF ids # {} /\ i = nextID - 1 THEN [loop[i] EXCEPT !.cancelled = TRUE]
                 ELSE loop[i]]

\* The cancel functions of ids are called.
CancelAll(ids) ==
    [i \in Id |-> IF i \in ids THEN [loop[i] EXCEPT !.cancelled = TRUE] ELSE loop[i]]

Listed == {cancelledCh[i] : i \in DOMAIN cancelledCh}

\* A request is handled after drainCancelled; its response is sent by Respond.
HandleCreate ==
    /\ main.pc = "loop" /\ reqCh # <<>> /\ Head(reqCh).type = "create"
    /\ loop' = CancelAll(Listed \cap watches)
    /\ watches' = (watches \ Listed) \cup {nextID}
    /\ main' = [pc |-> "created", id |-> nextID]
    /\ nextID' = nextID + 1
    /\ reqCh' = <<>> /\ cancelledCh' = <<>>
    /\ UNCHANGED <<ctxDone, respCh, sender, sendErr, got, told, asked>>

HandleCancel ==
    /\ main.pc = "loop" /\ reqCh # <<>> /\ Head(reqCh).type = "cancel"
    /\ LET id == Head(reqCh).id IN
       /\ loop' = CancelAll((Listed \cup {id}) \cap watches)
       /\ watches' = watches \ (Listed \cup {id})
       /\ main' = [pc |-> "canceled", id |-> id]
    /\ reqCh' = <<>> /\ cancelledCh' = <<>>
    /\ UNCHANGED <<ctxDone, nextID, respCh, sender, sendErr, got, told, asked>>

\* Variant: watchLoop is started before the response to the request is sent.
RespondStarted ==
    /\ main.pc \in {"created", "canceled"}
    /\ IF main.pc = "created" /\ loop[main.id].pc = "off"
       THEN /\ loop' = [loop EXCEPT ![main.id].pc = "start"]
            /\ UNCHANGED <<main, respCh>>
       ELSE /\ Len(respCh) < RespDepth
            /\ respCh' = Append(respCh, [id |-> main.id, kind |-> main.pc, n |-> 0])
            /\ main' = [main EXCEPT !.pc = "loop"]
            /\ UNCHANGED loop
    /\ UNCHANGED <<ctxDone, watches, nextID, cancelledCh, sender, sendErr, reqCh, got,
                   told, asked>>

\* Sends block while respCh is full.  A new watch starts after its Created.
Respond ==
    /\ main.pc \in {"created", "canceled"} /\ Len(respCh) < RespDepth
    /\ respCh' = Append(respCh, [id |-> main.id, kind |-> main.pc, n |-> 0])
    /\ main' = [main EXCEPT !.pc = "loop"]
    /\ loop' = IF main.pc = "created" THEN [loop EXCEPT ![main.id].pc = "start"] ELSE loop
    /\ UNCHANGED <<ctxDone, watches, nextID, cancelledCh, sender, sendErr, reqCh, got,
                   told, asked>>

\* A watch the store has ended leaves the map.
TakeCancelled ==
    /\ main.pc = "loop" /\ cancelledCh # <<>>
    /\ loop' = CancelAll({Head(cancelledCh)} \cap watches)
    /\ watches' = watches \ {Head(cancelledCh)}
    /\ cancelledCh' = Tail(cancelledCh)
    /\ UNCHANGED <<main, ctxDone, nextID, respCh, sender, sendErr, reqCh, got, told, asked>>

Return ==
    /\ main' = [main EXCEPT !.pc = "returned"]
    /\ UNCHANGED <<ctxDone, nextID, respCh, cancelledCh, sender, reqCh, got, told, asked>>

\* Variant: a blocked response does not look at sendErrCh.
BreakLoopIdle ==
    /\ \/ main.pc \in RunningMain /\ ctxDone
       \/ main.pc = "loop" /\ sendErr
       \/ main.pc = "loop" /\ reqCh # <<>> /\ Head(reqCh).type = "eof"
    /\ loop' = CancelAll(watches) /\ watches' = {} /\ sendErr' = FALSE
    /\ Return

\* The loop breaks on the context, a send error or the end of the requests, also
\* while a response is blocked, and all watches are cancelled.
BreakLoop ==
    /\ \/ main.pc \in RunningMain /\ (ctxDone \/ sendErr)
       \/ main.pc = "loop" /\ reqCh # <<>> /\ Head(reqCh).type = "eof"
    /\ loop' = CancelAll(watches) /\ watches' = {} /\ sendErr' = FALSE
    /\ Return

\* An error of Recv returns at once.
RecvError ==
    /\ main.pc = "loop" /\ reqCh # <<>> /\ Head(reqCh).type = "error"
    /\ Return
    /\ UNCHANGED <<loop, watches, sendErr>>

\* gRPC cancels the context of a stream whose handler has returned.
HandlerDone ==
    /\ main.pc = "returned" /\ ~ctxDone
    /\ ctxDone' = TRUE
    /\ UNCHANGED <<main, watches, nextID, respCh, cancelledCh, sender, sendErr, reqCh,
                   loop, got, told, asked>>

-----------------------------------------------------------------------------
(* The send goroutine. *)

SendNext ==
    /\ sender /\ respCh # <<>> /\ ~ctxDone
    /\ LET r == Head(respCh) IN
       /\ got' = IF r.kind = "canceled" THEN got
                 ELSE [got EXCEPT ![r.id] = Append(@, r.n)]
       /\ told' = IF r.kind = "canceled" THEN told \cup {r.id} ELSE told
    /\ respCh' = Tail(respCh)
    /\ UNCHANGED <<main, ctxDone, watches, nextID, cancelledCh, sender, sendErr, reqCh,
                   loop, asked>>

SendFails ==
    /\ sender /\ respCh # <<>>
    /\ sender' = FALSE /\ sendErr' = TRUE
    /\ respCh' = Tail(respCh)
    /\ UNCHANGED <<main, ctxDone, watches, nextID, cancelledCh, reqCh, loop, got, told, asked>>

SenderStops ==
    /\ sender /\ ctxDone
    /\ sender' = FALSE
    /\ UNCHANGED <<main, ctxDone, watches, nextID, respCh, cancelledCh, sendErr, reqCh,
                   loop, got, told, asked>>

-----------------------------------------------------------------------------
(* watchLoop. *)

LoopStep(id, new) ==
    /\ loop' = [loop EXCEPT ![id] = new]
    /\ UNCHANGED <<main, ctxDone, watches, nextID, cancelledCh, sender, sendErr, reqCh,
                   got, told, asked>>

\* The goroutines of contextWithCancel and streamContextWithCancel pass the end
\* of a context on.
ContextEnds(id) ==
    /\ loop[id].pc # "off" /\ ~loop[id].done
    /\ ctxDone \/ loop[id].cancelled
    /\ LoopStep(id, [loop[id] EXCEPT !.done = TRUE])
    /\ UNCHANGED respCh

Subscribe(id) ==
    /\ loop[id].pc = "start"
    /\ LoopStep(id, [loop[id] EXCEPT !.pc = "run", !.sub = "open"])
    /\ UNCHANGED respCh

\* A batch of events, or the progress ticker.  A batch sent just before the
\* store ended the subscription may be taken after that.
TakeBatch(id) ==
    /\ loop[id].pc = "run" /\ loop[id].n < MaxBatches
    /\ LoopStep(id, [loop[id] EXCEPT !.pc = "push"])
    /\ UNCHANGED respCh

TakeSentinel(id) ==
    /\ loop[id].pc = "run" /\ loop[id].sub = "closed"
    /\ LoopStep(id, [loop[id] EXCEPT !.pc = "sentinel"])
    /\ UNCHANGED respCh

PushBatch(id) ==
    /\ loop[id].pc = "push" /\ Len(respCh) < RespDepth
    /\ respCh' = Append(respCh, [id |-> id, kind |-> "events", n |-> loop[id].n + 1])
    /\ LoopStep(id, [loop[id] EXCEPT !.pc = "run", !.n = @ + 1])

\* Variant: a full respCh loses the Canceled response.
PushCanceledOrDrop(id) ==
    /\ loop[id].pc = "sentinel"
    /\ respCh' = IF Len(respCh) < RespDepth
                 THEN Append(respCh, [id |-> id, kind |-> "canceled", n |-> 0]) ELSE respCh
    /\ LoopStep(id, [loop[id] EXCEPT !.pc = "notify"])

PushCanceled(id) ==
    /\ loop[id].pc = "sentinel" /\ Len(respCh) < RespDepth
    /\ respCh' = Append(respCh, [id |-> id, kind |-> "canceled", n |-> 0])
    /\ LoopStep(id, [loop[id] EXCEPT !.pc = "notify"])

\* Every wait also ends with stdCtx.
LoopDone(id) ==
    /\ loop[id].pc \in {"run", "push", "sentinel"} /\ loop[id].done
    /\ LoopStep(id, [loop[id] EXCEPT !.pc = IF @ = "sentinel" THEN "notify" ELSE "gone"])
    /\ UNCHANGED respCh

\* A full cancelledCh loses the id; the map keeps it until the stream ends.
Notify(id) ==
    /\ loop[id].pc = "notify"
    /\ loop' = [loop EXCEPT ![id].pc = "gone", ![id].done = TRUE]
    /\ cancelledCh' = IF Len(cancelledCh) < CancelDepth THEN Append(cancelledCh, id)
                      ELSE cancelledCh
    /\ UNCHANGED <<main, ctxDone, watches, nextID, respCh, sender, sendErr, reqCh, got,
                   told, asked>>

\* The store ends the subscription: compaction, a full channel, an error ...
SubEnds(id) ==
    /\ loop[id].sub = "open"
    /\ LoopStep(id, [loop[id] EXCEPT !.sub = "closed"])
    /\ UNCHANGED respCh

\* ... or its context.
SubCancelled(id) == loop[id].done /\ SubEnds(id)

-----------------------------------------------------------------------------
StreamInit ==
    /\ main = [pc |-> "off", id |-> 0]
    /\ ctxDone = FALSE /\ watches = {} /\ nextID = 0
    /\ respCh = <<>> /\ cancelledCh = <<>> /\ reqCh = <<>>
    /\ sender = TRUE /\ sendErr = FALSE
    /\ loop = [i \in Id |-> NoLoop]
    /\ got = [i \in Id |-> <<>>]
    /\ told = {} /\ asked = {}

\* The interceptors let the call through to the handler.
OpenStream ==
    /\ main.pc = "off"
    /\ main' = [main EXCEPT !.pc = "loop"]
    /\ UNCHANGED <<ctxDone, watches, nextID, respCh, cancelledCh, sender, sendErr, reqCh,
                   loop, got, told, asked>>

MainStep == HandleCreate \/ HandleCancel \/ Respond \/ TakeCancelled \/ BreakLoop \/ RecvError

SenderStep == SendNext \/ SenderStops

WatchLoopStep(id) ==
    \/ Subscribe(id) \/ TakeSentinel(id) \/ PushBatch(id) \/ PushCanceled(id)
    \/ LoopDone(id) \/ Notify(id)

StreamNext ==
    \/ \E req \in Request : Recv(req)
    \/ Disconnect \/ HandlerDone
    \/ MainStep \/ SenderStep \/ SendFails
    \/ \E id \in Id : WatchLoopStep(id) \/ TakeBatch(id) \/ ContextEnds(id) \/ SubEnds(id)

\* Goroutines run and the client reads its responses.
StreamFairness ==
    /\ WF_streamVars(MainStep) /\ WF_streamVars(SenderStep) /\ WF_streamVars(HandlerDone)
    /\ \A id \in Id :
          /\ WF_streamVars(WatchLoopStep(id)) /\ WF_streamVars(ContextEnds(id))
          /\ WF_streamVars(SubCancelled(id))

-----------------------------------------------------------------------------
(* Properties. *)

\* The client gets the responses of a watch in the order they were made: first
\* Created, then every batch, none lost and none twice, although the main loop
\* and all watchLoops share a channel that may be full.
ResponsesInOrder ==
    \A id \in Id : \A i \in DOMAIN got[id] : got[id][i] = i - 1

\* A watch is cancelled only when its client asked, the store ended it, or the
\* stream is over: an id that comes through cancelledCh late, after its watch was
\* cancelled and another created, does not take that one down.
CancelsOwnWatch ==
    \A id \in Id :
        loop[id].cancelled =>
            id \in asked \/ loop[id].sub = "closed" \/ main.pc = "returned"

\* A watch that the store ended is reported to its client, unless the client
\* had cancelled it or the stream ends.
StoreEndIsTold ==
    \A id \in Id :
        loop[id].sub = "closed" ~> id \in told \cup asked \/ main.pc = "returned" \/ ctxDone

\* When the client is gone or cannot be written to, the handler returns and
\* every watchLoop and subscription of the stream ends, whatever they wait for.
StreamWindsDown ==
    ctxDone \/ sendErr \/ ~sender ~>
        /\ main.pc \in {"off", "returned"}
        /\ \A id \in Id : loop[id].pc \in {"off", "gone"} /\ loop[id].sub # "open"

=============================================================================
