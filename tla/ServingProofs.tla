--------------------------- MODULE ServingProofs ---------------------------
(***************************************************************************)
(* Proofs about the server process, its Watch stream and the migration     *)
(* tool, for any number of watches, any capacities of the channels, any    *)
(* tokens and lifetimes, any number of keys and any page size.             *)
(***************************************************************************)
EXTENDS Migration, TLAPS

\* SMT is the prover of a step that does not name another; it has a minute.
USE SMTT(60)

-----------------------------------------------------------------------------
(* The Watch stream. *)

LoopType == [pc : {"off", "start", "run", "push", "sentinel", "notify", "gone"}, n : Nat,
             cancelled : BOOLEAN, done : BOOLEAN, sub : {"none", "open", "closed"}]

StreamTypes ==
    /\ main \in [pc : {"off", "loop", "created", "canceled", "returned"}, id : Id]
    /\ loop \in [Id -> LoopType]
    /\ nextID \in Nat
    /\ cancelledCh \in Seq(Id)
    /\ reqCh \in Seq(Request)

SubFollowsLoop ==
    \A id \in Id : /\ loop[id].pc \in {"off", "start"} => loop[id].sub = "none"
                   /\ loop[id].pc \in {"sentinel", "notify"} => loop[id].sub = "closed"

ListedHaveEnded == \A i \in DOMAIN cancelledCh : loop[cancelledCh[i]].sub = "closed"

RequestsKnown ==
    \A i \in DOMAIN reqCh : /\ reqCh[i].type = "cancel" => reqCh[i].id \in asked
                            /\ reqCh[i].type = "create" => nextID \in Id

NewIsOff ==
    /\ main.pc = "created" => main.id < nextID /\ loop[main.id].pc = "off"
    /\ \A id \in Id : nextID <= id => loop[id].pc = "off"

\* Where a subscription is follows watchLoop; ids come through cancelledCh and
\* requests through reqCh only after what they tell has happened.
StreamInv ==
    /\ StreamTypes /\ SubFollowsLoop /\ ListedHaveEnded /\ RequestsKnown /\ NewIsOff
    /\ CancelsOwnWatch

\* The stream of a process that has just started.
LEMMA StreamInitially == StreamInit => StreamInv
  BY StreamAssumption DEF StreamInit, StreamInv, StreamTypes, LoopType, Id, NoLoop, CancelsOwnWatch,
       SubFollowsLoop, ListedHaveEnded, RequestsKnown, NewIsOff

\* CancelAll changes nothing but the cancelled flags of the ids.
LEMMA CancelAllType ==
  ASSUME loop \in [Id -> LoopType], NEW ids
  PROVE  /\ CancelAll(ids) \in [Id -> LoopType]
         /\ \A i \in Id : /\ CancelAll(ids)[i].pc = loop[i].pc
                          /\ CancelAll(ids)[i].sub = loop[i].sub
                          /\ CancelAll(ids)[i].n = loop[i].n
                          /\ CancelAll(ids)[i].cancelled => loop[i].cancelled \/ i \in ids
  BY ZenonT(60) DEF CancelAll, LoopType

\* A step of watchLoop id keeps the invariant when it keeps id's part of it.
LEMMA LoopStepInv ==
  ASSUME StreamInv, NEW id \in Id, NEW new \in LoopType, LoopStep(id, new),
         loop[id].pc # "off", new.pc # "off",
         new.pc = "start" => new.sub = "none",
         new.pc \in {"sentinel", "notify"} => new.sub = "closed",
         loop[id].sub = "closed" => new.sub = "closed",
         new.cancelled = loop[id].cancelled
  PROVE  StreamInv'
<1> USE DEF StreamInv, StreamTypes, LoopStep
<1>1. loop' = [loop EXCEPT ![id] = new] /\ loop' \in [Id -> LoopType]
  OBVIOUS
<1>2. StreamTypes'
  BY <1>1
<1>3. \A i \in DOMAIN cancelledCh : cancelledCh[i] \in Id
  OBVIOUS
<1>4. CancelsOwnWatch'
  BY <1>1 DEF CancelsOwnWatch
<1>5. SubFollowsLoop' /\ NewIsOff'
  BY <1>1 DEF SubFollowsLoop, NewIsOff
<1>6. ListedHaveEnded'
  BY <1>1, <1>3 DEF ListedHaveEnded
<1>7. RequestsKnown'
  BY DEF RequestsKnown
<1> QED BY <1>2, <1>4, <1>5, <1>6, <1>7

\* A step that leaves pc and sub of all watchLoops alone and adds nothing to the
\* channels keeps the invariant when it keeps these parts.
LEMMA StreamFrame ==
  ASSUME StreamInv, StreamTypes', CancelsOwnWatch', NewIsOff',
         \A i \in Id : loop'[i].pc = loop[i].pc /\ loop'[i].sub = loop[i].sub,
         cancelledCh' \in {cancelledCh, <<>>}, reqCh' \in {reqCh, <<>>},
         reqCh' = reqCh => UNCHANGED <<asked, nextID>>
  PROVE  StreamInv'
<1>1. SubFollowsLoop'
  BY DEF StreamInv, SubFollowsLoop
<1>2. \A i \in DOMAIN cancelledCh : cancelledCh[i] \in Id
  BY DEF StreamInv, StreamTypes
<1>3. ListedHaveEnded'
  <2>1. CASE cancelledCh' = <<>>
    BY <2>1 DEF ListedHaveEnded
  <2>2. CASE cancelledCh' = cancelledCh
    BY <1>2, <2>2 DEF StreamInv, ListedHaveEnded
  <2> QED BY <2>1, <2>2
<1>4. RequestsKnown'
  <2>1. CASE reqCh' = <<>>
    BY <2>1 DEF RequestsKnown
  <2>2. CASE reqCh' = reqCh
    BY <2>2 DEF StreamInv, RequestsKnown
  <2> QED BY <2>1, <2>2
<1> QED BY <1>1, <1>3, <1>4 DEF StreamInv

\* Every step of the stream keeps the invariant.
LEMMA StreamStep ==
  ASSUME StreamInv, StreamNext
  PROVE  StreamInv'
<1>0. StreamTypes /\ loop \in [Id -> LoopType] /\ main.id \in Id
  BY DEF StreamInv, StreamTypes
<1>1. ASSUME NEW req \in Request, Recv(req)
      PROVE  StreamInv'
  <2>1. /\ UNCHANGED <<main, nextID, cancelledCh, loop>>
        /\ reqCh' = <<req>> /\ asked \subseteq asked'
        /\ req.type = "cancel" => req.id \in asked'
        /\ req.type = "create" => nextID < MaxWatches
    BY <1>1 DEF Recv
  <2>2. StreamTypes' /\ CancelsOwnWatch' /\ SubFollowsLoop' /\ ListedHaveEnded' /\ NewIsOff'
    BY <2>1 DEF StreamInv, StreamTypes, CancelsOwnWatch, SubFollowsLoop, ListedHaveEnded, NewIsOff
  <2>3. \A i \in DOMAIN reqCh' : reqCh'[i] = req
    BY <2>1
  <2>4. RequestsKnown'
    BY <2>1, <2>3, <1>0, StreamAssumption DEF RequestsKnown, StreamTypes, Id
  <2> QED BY <2>2, <2>4 DEF StreamInv
<1>2. CASE Disconnect \/ HandlerDone \/ SenderStep \/ SendFails
  <2>1. UNCHANGED <<main, nextID, cancelledCh, loop, reqCh, asked>>
    BY <1>2, ZenonT(60) DEF Disconnect, HandlerDone, SenderStep, SendNext, SenderStops, SendFails
  <2> QED BY <2>1 DEF StreamInv, StreamTypes, CancelsOwnWatch, SubFollowsLoop, ListedHaveEnded,
                      RequestsKnown, NewIsOff
<1>4. CASE HandleCreate
  <2> DEFINE ids == Listed \cap watches
  <2>1. /\ reqCh \in Seq(Request) /\ reqCh # <<>> /\ Head(reqCh).type = "create"
        /\ loop' = CancelAll(ids) /\ main' = [pc |-> "created", id |-> nextID]
        /\ nextID' = nextID + 1 /\ reqCh' = <<>> /\ cancelledCh' = <<>> /\ asked' = asked
        /\ main.pc = "loop"
    BY <1>4 DEF HandleCreate, StreamInv, StreamTypes
  <2>2. nextID \in Id /\ loop[nextID].pc = "off"
    BY <2>1 DEF StreamInv, StreamTypes, RequestsKnown, NewIsOff, Id
  <2>3. \A i \in ids : loop[i].sub = "closed"
    BY DEF StreamInv, ListedHaveEnded, Listed
  <2> HIDE DEF ids
  <2>5. CancelsOwnWatch'
    BY <1>0, <2>1, <2>3, CancelAllType DEF StreamInv, CancelsOwnWatch
  <2>6. StreamTypes'
    BY <1>0, <2>1, <2>2, CancelAllType DEF StreamTypes
  <2>7. \A i \in Id : loop'[i].pc = loop[i].pc /\ loop'[i].sub = loop[i].sub
    BY <1>0, <2>1, CancelAllType
  <2>8. NewIsOff'
    BY <1>0, <2>1, <2>2, <2>7 DEF StreamInv, StreamTypes, NewIsOff, Id
  <2> QED BY <2>1, <2>5, <2>6, <2>7, <2>8, StreamFrame, ZenonT(60)
<1>5. CASE HandleCancel
  <2> DEFINE id  == Head(reqCh).id
             ids == (Listed \cup {id}) \cap watches
  <2>1. /\ reqCh \in Seq(Request) /\ reqCh # <<>> /\ Head(reqCh).type = "cancel"
        /\ loop' = CancelAll(ids) /\ main' = [pc |-> "canceled", id |-> id]
        /\ nextID' = nextID /\ reqCh' = <<>> /\ cancelledCh' = <<>> /\ asked' = asked
        /\ main.pc = "loop"
    BY <1>5, ZenonT(60) DEF HandleCancel, StreamInv, StreamTypes
  <2>2. Head(reqCh) \in Request /\ Head(reqCh) = reqCh[1] /\ 1 \in DOMAIN reqCh
    BY <2>1
  <2>3. id \in Id /\ id \in asked
    BY <2>1, <2>2 DEF StreamInv, RequestsKnown, Request
  <2>4. \A i \in ids : loop[i].sub = "closed" \/ i \in asked
    BY <2>3 DEF StreamInv, ListedHaveEnded, Listed
  <2> HIDE DEF ids, id
  <2>5. CancelsOwnWatch'
    BY <1>0, <2>1, <2>4, CancelAllType DEF StreamInv, CancelsOwnWatch
  <2>7. /\ loop' \in [Id -> LoopType]
        /\ \A i \in Id : loop'[i].pc = loop[i].pc /\ loop'[i].sub = loop[i].sub
    BY <1>0, <2>1, CancelAllType
  <2>8. StreamTypes'
    BY <2>1, <2>3, <2>7 DEF StreamInv, StreamTypes
  <2>6. StreamTypes' /\ NewIsOff'
    BY <2>1, <2>7, <2>8 DEF StreamInv, NewIsOff
  <2> QED BY <2>1, <2>5, <2>6, <2>7, StreamFrame
<1>6. CASE Respond
  <2>1. /\ UNCHANGED <<nextID, cancelledCh, reqCh, asked>>
        /\ main' = [main EXCEPT !.pc = "loop"] /\ main.pc \in {"created", "canceled"}
    BY <1>6 DEF Respond
  <2>2. CASE main.pc = "canceled"
    <3>1. loop' = loop
      BY <1>6, <2>2 DEF Respond
    <3> QED BY <2>1, <2>2, <3>1 DEF StreamInv, StreamTypes, CancelsOwnWatch, SubFollowsLoop,
                                    ListedHaveEnded, RequestsKnown, NewIsOff
  <2>3. CASE main.pc = "created"
    <3>1. loop' = [loop EXCEPT ![main.id].pc = "start"]
      BY <1>6, <2>3 DEF Respond
    <3>2. loop[main.id].pc = "off" /\ loop[main.id].sub = "none" /\ main.id < nextID
      BY <1>0, <2>3 DEF StreamInv, NewIsOff, SubFollowsLoop
    <3>3. /\ loop' \in [Id -> LoopType]
          /\ \A i \in Id : /\ loop'[i].sub = loop[i].sub /\ loop'[i].cancelled = loop[i].cancelled
                           /\ loop'[i].pc = IF i = main.id THEN "start" ELSE loop[i].pc
      BY <1>0, <3>1 DEF LoopType
    <3>4. StreamTypes' /\ CancelsOwnWatch'
      BY <2>1, <2>3, <3>3, ZenonT(60) DEF StreamInv, StreamTypes, CancelsOwnWatch
    <3>5. main'.pc = "loop" /\ nextID \in Nat /\ Id \subseteq Nat
      BY <1>0, <2>1 DEF StreamTypes, Id
    <3>8. NewIsOff' /\ SubFollowsLoop'
      BY <1>0, <2>1, <3>2, <3>3, <3>5 DEF StreamInv, NewIsOff, SubFollowsLoop
    <3>6. \A i \in DOMAIN cancelledCh : cancelledCh[i] \in Id
      BY <1>0 DEF StreamTypes
    <3>7. ListedHaveEnded' /\ RequestsKnown'
      BY <2>1, <3>3, <3>6 DEF StreamInv, ListedHaveEnded, RequestsKnown
    <3> QED BY <3>4, <3>7, <3>8 DEF StreamInv
  <2> QED BY <2>1, <2>2, <2>3
<1>7. CASE TakeCancelled
  <2> DEFINE ids == {Head(cancelledCh)} \cap watches
  <2>1. /\ cancelledCh \in Seq(Id) /\ cancelledCh # <<>> /\ cancelledCh' = Tail(cancelledCh)
        /\ loop' = CancelAll(ids)
        /\ UNCHANGED <<main, nextID, reqCh, asked>>
    BY <1>7 DEF TakeCancelled, StreamInv, StreamTypes
  <2>2. \A i \in ids : loop[i].sub = "closed"
    BY <2>1 DEF StreamInv, ListedHaveEnded
  <2> HIDE DEF ids
  <2>3. /\ loop' \in [Id -> LoopType]
        /\ \A i \in Id : loop'[i].pc = loop[i].pc /\ loop'[i].sub = loop[i].sub
    BY <1>0, <2>1, CancelAllType
  <2>4. CancelsOwnWatch'
    BY <1>0, <2>1, <2>2, CancelAllType DEF StreamInv, CancelsOwnWatch
  <2>5. cancelledCh' \in Seq(Id) /\ \A i \in DOMAIN cancelledCh' : \E j \in DOMAIN cancelledCh :
            cancelledCh'[i] = cancelledCh[j] /\ cancelledCh[j] \in Id
    BY <2>1
  <2>6. StreamTypes'
    BY <2>1, <2>3, <2>5 DEF StreamInv, StreamTypes
  <2>7. ListedHaveEnded'
    BY <2>3, <2>5 DEF StreamInv, ListedHaveEnded
  <2>8. SubFollowsLoop' /\ RequestsKnown' /\ NewIsOff'
    BY <1>0, <2>1, <2>3, ZenonT(60) DEF StreamInv, SubFollowsLoop, RequestsKnown, NewIsOff
  <2> QED BY <2>4, <2>6, <2>7, <2>8 DEF StreamInv
<1>8. CASE BreakLoop \/ RecvError
  <2>1. /\ loop' = CancelAll(watches) \/ loop' = loop
        /\ main' = [main EXCEPT !.pc = "returned"]
        /\ UNCHANGED <<nextID, cancelledCh, reqCh, asked>>
    BY <1>8 DEF BreakLoop, RecvError, Return
  <2>2. /\ loop' \in [Id -> LoopType]
        /\ \A i \in Id : loop'[i].pc = loop[i].pc /\ loop'[i].sub = loop[i].sub
    BY <1>0, <2>1, CancelAllType
  <2>3. main'.pc = "returned"
    BY <2>1 DEF StreamInv, StreamTypes
  <2>4. StreamTypes' /\ CancelsOwnWatch' /\ NewIsOff'
    BY <2>1, <2>2, <2>3, ZenonT(60) DEF StreamInv, StreamTypes, CancelsOwnWatch, NewIsOff
  <2> QED BY <2>1, <2>2, <2>4, StreamFrame
<1>9. ASSUME NEW id \in Id, WatchLoopStep(id) \/ TakeBatch(id) \/ ContextEnds(id) \/ SubEnds(id)
      PROVE  StreamInv'
  <2>1. loop[id] \in LoopType
    BY DEF StreamInv, StreamTypes
  <2>2. CASE Subscribe(id)
    <3>1. loop[id].sub = "none" /\ loop[id].pc = "start"
      BY <2>2 DEF Subscribe, StreamInv, SubFollowsLoop
    <3> QED BY <2>1, <2>2, <3>1, LoopStepInv, ZenonT(60) DEF Subscribe, LoopType
  <2>3. CASE TakeSentinel(id)
    BY <2>1, <2>3, LoopStepInv DEF TakeSentinel, LoopType
  <2>4. CASE PushBatch(id)
    <3> DEFINE new == [loop[id] EXCEPT !.pc = "run", !.n = @ + 1]
    <3>1. loop[id].n + 1 \in Nat
      BY <2>1 DEF LoopType
    <3>2. new \in LoopType /\ new.pc = "run" /\ new.sub = loop[id].sub
          /\ new.cancelled = loop[id].cancelled
      BY <2>1, <3>1, ZenonT(60) DEF LoopType
    <3>3. LoopStep(id, new) /\ loop[id].pc = "push"
      BY <2>4 DEF PushBatch
    <3> HIDE DEF new
    <3> QED BY <3>2, <3>3, LoopStepInv
  <2>5. CASE PushCanceled(id)
    BY <2>1, <2>5, LoopStepInv DEF PushCanceled, LoopType, StreamInv, SubFollowsLoop
  <2>6. CASE LoopDone(id)
    BY <2>1, <2>6, LoopStepInv DEF LoopDone, LoopType, StreamInv, SubFollowsLoop
  <2>7. CASE Notify(id)
    <3>1. loop[id].sub = "closed" /\ loop[id].pc = "notify"
      BY <2>7 DEF Notify, StreamInv, SubFollowsLoop
    <3>2. loop' = [loop EXCEPT ![id] = [loop[id] EXCEPT !.pc = "gone", !.done = TRUE]]
      BY <2>1, <2>7, ZenonT(60) DEF Notify, StreamInv, StreamTypes, LoopType
    <3>3. /\ loop' \in [Id -> LoopType]
          /\ \A i \in Id : /\ loop'[i].sub = loop[i].sub /\ loop'[i].cancelled = loop[i].cancelled
                           /\ loop'[i].pc = IF i = id THEN "gone" ELSE loop[i].pc
      BY <2>1, <3>2, ZenonT(60) DEF StreamInv, StreamTypes, LoopType
    <3>4. cancelledCh' \in Seq(Id) /\ \A i \in DOMAIN cancelledCh' :
              cancelledCh'[i] = id \/ \E j \in DOMAIN cancelledCh : cancelledCh'[i] = cancelledCh[j]
      BY <2>7 DEF Notify, StreamInv, StreamTypes
    <3>5. UNCHANGED <<main, nextID, reqCh, asked>>
      BY <2>7 DEF Notify
    <3>6. CancelsOwnWatch'
      BY <3>3, <3>5 DEF StreamInv, CancelsOwnWatch
    <3>7. \A i \in DOMAIN cancelledCh : cancelledCh[i] \in Id
      BY DEF StreamInv, StreamTypes
    <3>8. StreamTypes'
      BY <3>3, <3>4, <3>5, ZenonT(60) DEF StreamInv, StreamTypes
    <3>9. ListedHaveEnded'
      BY <3>1, <3>3, <3>4, <3>7, ZenonT(60) DEF StreamInv, ListedHaveEnded
    <3>10. SubFollowsLoop'
      BY <1>0, <3>1, <3>3, <3>5, ZenonT(60) DEF StreamInv, SubFollowsLoop
    <3>11. RequestsKnown'
      BY <3>5, ZenonT(60) DEF StreamInv, RequestsKnown
    <3>12. NewIsOff'
      BY <1>0, <3>1, <3>3, <3>5, ZenonT(60) DEF StreamInv, NewIsOff
    <3> QED BY <3>6, <3>8, <3>9, <3>10, <3>11, <3>12 DEF StreamInv
  <2>8. CASE TakeBatch(id)
    BY <2>1, <2>8, LoopStepInv DEF TakeBatch, LoopType
  <2>9. CASE ContextEnds(id)
    BY <2>1, <2>9, LoopStepInv, ZenonT(60) DEF ContextEnds, LoopType, StreamInv, SubFollowsLoop
  <2>10. CASE SubEnds(id)
    <3>1. loop[id].pc \notin {"off", "start"}
      BY <2>10 DEF SubEnds, StreamInv, SubFollowsLoop
    <3> QED BY <2>1, <2>10, <3>1, LoopStepInv DEF SubEnds, LoopType
  <2> QED BY <1>9, <2>2, <2>3, <2>4, <2>5, <2>6, <2>7, <2>8, <2>9, <2>10 DEF WatchLoopStep
<1> QED BY <1>1, <1>2, <1>4, <1>5, <1>6, <1>7, <1>8, <1>9 DEF StreamNext, MainStep

\* The interceptors let a stream in, its context ends, or the process does.
LEMMA StreamOutside ==
  ASSUME StreamInv,
         \/ OpenStream
         \/ UNCHANGED streamVars
         \/ GraceTimeout
         \/ Exit
  PROVE  StreamInv'
<1>1. CASE OpenStream \/ UNCHANGED streamVars \/ GraceTimeout
  <2>1. /\ UNCHANGED <<loop, nextID, cancelledCh, reqCh, asked>>
        /\ main' = main \/ (main.pc = "off" /\ main' = [main EXCEPT !.pc = "loop"])
    <3>1. CASE OpenStream
      BY <3>1 DEF OpenStream
    <3>2. CASE UNCHANGED streamVars
      BY <3>2 DEF streamVars
    <3>3. CASE GraceTimeout
      BY <3>3 DEF GraceTimeout
    <3> QED BY <1>1, <3>1, <3>2, <3>3
  <2>2. StreamTypes' /\ CancelsOwnWatch' /\ NewIsOff'
    BY <2>1 DEF StreamInv, StreamTypes, CancelsOwnWatch, NewIsOff
  <2> QED BY <2>1, <2>2, StreamFrame
<1>2. CASE Exit
  <2>1. /\ UNCHANGED <<nextID, cancelledCh, reqCh, asked>>
        /\ main' = [main EXCEPT !.pc = IF @ = "off" THEN "off" ELSE "returned"]
        /\ loop' = [id \in Id |-> IF loop[id].pc = "off" THEN loop[id]
                    ELSE [loop[id] EXCEPT !.pc = "gone", !.done = TRUE, !.sub = "closed"]]
    BY <1>2, ZenonT(60) DEF Exit
  <2>2. loop \in [Id -> LoopType]
    BY DEF StreamInv, StreamTypes
  <2>3. \A id \in Id : /\ loop'[id] \in LoopType
                       /\ loop[id].pc = "off" => loop'[id] = loop[id]
                       /\ loop[id].pc # "off" => loop'[id].pc = "gone" /\ loop'[id].sub = "closed"
    BY <2>1, <2>2, ZenonT(60) DEF LoopType
  <2>4. StreamTypes'
    BY <2>1, <2>3, ZenonT(60) DEF StreamInv, StreamTypes
  <2>5. SubFollowsLoop' /\ RequestsKnown' /\ CancelsOwnWatch'
    <3>1. SubFollowsLoop'
      BY <2>3, ZenonT(60) DEF StreamInv, SubFollowsLoop
    <3>2. RequestsKnown'
      BY <2>1, ZenonT(60) DEF StreamInv, RequestsKnown
    <3>3. main.pc = "returned" => main'.pc = "returned"
      BY <2>1, ZenonT(60) DEF StreamInv, StreamTypes
    <3>4. CancelsOwnWatch'
      BY <2>1, <2>3, <3>3, ZenonT(60) DEF StreamInv, CancelsOwnWatch
    <3> QED BY <3>1, <3>2, <3>4
  <2>6. NewIsOff'
    BY <2>1, <2>3, ZenonT(60) DEF StreamInv, StreamTypes, NewIsOff
  <2>7. \A i \in DOMAIN cancelledCh : cancelledCh[i] \in Id
    BY DEF StreamInv, StreamTypes
  <2>8. ListedHaveEnded'
    BY <2>1, <2>3, <2>7, ZenonT(60) DEF StreamInv, ListedHaveEnded, SubFollowsLoop
  <2> QED BY <2>4, <2>5, <2>6, <2>8 DEF StreamInv
<1> QED BY <1>1, <1>2

-----------------------------------------------------------------------------
(* The responses of a watch. *)

RespType == [id : Id, kind : {"created", "canceled", "events"}, n : Nat]

\* r is one of the numbered responses of watch id.
Mine(r, id) == r.id = id /\ r.kind # "canceled"

\* What watch id has in the channel: its numbered responses go up, from the one
\* the client gets next to the last one made, and none is left out.
InChannel(id) ==
    /\ \A i, j \in DOMAIN respCh :
          i < j /\ Mine(respCh[i], id) /\ Mine(respCh[j], id) => respCh[i].n < respCh[j].n
    /\ \A i \in DOMAIN respCh :
          Mine(respCh[i], id) => loop[id].pc # "off" /\ Len(got[id]) <= respCh[i].n
                                                     /\ respCh[i].n <= loop[id].n
    /\ loop[id].pc = "off" => got[id] = <<>>
    /\ loop[id].pc # "off" =>
          /\ Len(got[id]) <= loop[id].n + 1
          /\ \A m \in Nat : Len(got[id]) <= m /\ m <= loop[id].n =>
                \E i \in DOMAIN respCh : Mine(respCh[i], id) /\ respCh[i].n = m

\* A send that failed loses a response, but no other is sent after it.
OrderInv ==
    /\ respCh \in Seq(RespType) /\ got \in [Id -> Seq(Nat)] /\ sender \in BOOLEAN
    /\ ResponsesInOrder
    /\ \A id \in Id : loop[id].pc = "off" => loop[id].n = 0
    /\ sender => \A id \in Id : InChannel(id)

\* Nothing is in the channel when the process starts.
LEMMA OrderInitially == StreamInit => OrderInv
<1> SUFFICES ASSUME StreamInit PROVE OrderInv
  OBVIOUS
<1>1. /\ respCh = <<>> /\ sender = TRUE /\ got = [i \in Id |-> <<>>] /\ loop = [i \in Id |-> NoLoop]
  BY ZenonT(60) DEF StreamInit
<1>2. \A id \in Id : got[id] = <<>> /\ loop[id].pc = "off" /\ loop[id].n = 0
  BY <1>1 DEF NoLoop
<1>3. respCh \in Seq(RespType) /\ got \in [Id -> Seq(Nat)] /\ DOMAIN respCh = {}
  BY <1>1
<1>4. sender \in BOOLEAN
  BY <1>1, ZenonT(60)
<1>5. ResponsesInOrder
  BY <1>2 DEF ResponsesInOrder
<1>6. \A id \in Id : InChannel(id)
  BY <1>2, <1>3, ZenonT(60) DEF InChannel
<1> QED BY <1>2, <1>3, <1>4, <1>5, <1>6, ZenonT(60) DEF OrderInv

\* A step that makes and sends no response.
LEMMA OrderQuiet ==
  ASSUME OrderInv, respCh' = respCh, got' = got, sender' \in BOOLEAN, sender' => sender,
         \A i \in Id : /\ loop'[i].n = loop[i].n
                       /\ loop'[i].pc = "off" <=> loop[i].pc = "off"
  PROVE  OrderInv'
<1>1. \A id \in Id : InChannel(id) => InChannel(id)'
  BY ZenonT(60) DEF InChannel, Mine
<1>2. ResponsesInOrder'
  BY ZenonT(60) DEF OrderInv, ResponsesInOrder
<1> QED BY <1>1, <1>2, ZenonT(60) DEF OrderInv

\* A response is put into the channel: a Canceled, or the next one of its watch.
LEMMA OrderPush ==
  ASSUME OrderInv, loop \in [Id -> LoopType], NEW r \in RespType,
         respCh' = Append(respCh, r), got' = got, sender' = sender,
         \A i \in Id : i # r.id => /\ loop'[i].n = loop[i].n
                                   /\ loop'[i].pc = "off" <=> loop[i].pc = "off",
         \/ /\ r.kind = "canceled" /\ loop'[r.id].n = loop[r.id].n
            /\ loop'[r.id].pc = "off" <=> loop[r.id].pc = "off"
         \/ /\ r.kind # "canceled" /\ loop'[r.id].pc # "off" /\ loop'[r.id].n = r.n
            /\ r.n = IF loop[r.id].pc = "off" THEN 0 ELSE loop[r.id].n + 1
  PROVE  OrderInv'
<1> DEFINE L == Len(respCh)
<1>1. /\ respCh \in Seq(RespType) /\ L \in Nat /\ DOMAIN respCh = 1..L /\ respCh' \in Seq(RespType)
      /\ DOMAIN respCh' = 1..(L + 1) /\ respCh'[L + 1] = r
      /\ \A i \in 1..L : respCh'[i] = respCh[i] /\ respCh[i] \in RespType
  BY DEF OrderInv
<1> HIDE DEF L
<1>2. \A i \in DOMAIN respCh' : i = L + 1 \/ i \in DOMAIN respCh
  BY <1>1
<1>3. DOMAIN respCh \subseteq DOMAIN respCh' /\ L + 1 \in DOMAIN respCh' /\ L + 1 \notin DOMAIN respCh
  BY <1>1
<1>4. \A i \in DOMAIN respCh : i < L + 1 /\ ~(L + 1 < i)
  BY <1>1
<1>5. r.id \in Id /\ r.n \in Nat /\ ~(L + 1 < L + 1)
  BY <1>1 DEF RespType
<1>6. ASSUME NEW id \in Id, InChannel(id), sender, ~Mine(r, id) PROVE InChannel(id)'
  <2>1. loop'[id].n = loop[id].n /\ (loop'[id].pc = "off" <=> loop[id].pc = "off")
    BY <1>6, ZenonT(60) DEF Mine
  <2>2. \A i \in DOMAIN respCh' : Mine(respCh'[i], id) => i \in DOMAIN respCh
    BY <1>1, <1>2, <1>6, ZenonT(60)
  <2>3. \A i \in DOMAIN respCh : respCh'[i] = respCh[i]
    BY <1>1, ZenonT(60)
  <2>4. \A i, j \in DOMAIN respCh' :
          i < j /\ Mine(respCh'[i], id) /\ Mine(respCh'[j], id) => respCh'[i].n < respCh'[j].n
    <3>1. ASSUME NEW i \in DOMAIN respCh', NEW j \in DOMAIN respCh', i < j,
                 Mine(respCh'[i], id), Mine(respCh'[j], id)
          PROVE  respCh'[i].n < respCh'[j].n
      <4>1. /\ i \in DOMAIN respCh /\ j \in DOMAIN respCh
            /\ respCh'[i] = respCh[i] /\ respCh'[j] = respCh[j]
        BY <2>2, <2>3, <3>1, ZenonT(60)
      <4> QED BY <1>6, <3>1, <4>1, ZenonT(60) DEF InChannel
    <3> QED BY <3>1, ZenonT(60)
  <2>5. \A i \in DOMAIN respCh' :
          Mine(respCh'[i], id) => loop'[id].pc # "off" /\ Len(got'[id]) <= respCh'[i].n
                                                       /\ respCh'[i].n <= loop'[id].n
    BY <1>6, <2>1, <2>2, <2>3, ZenonT(60) DEF InChannel
  <2>6. \A m \in Nat : loop'[id].pc # "off" /\ Len(got'[id]) <= m /\ m <= loop'[id].n =>
            \E i \in DOMAIN respCh' : Mine(respCh'[i], id) /\ respCh'[i].n = m
    <3>1. ASSUME NEW m \in Nat, loop'[id].pc # "off", Len(got'[id]) <= m, m <= loop'[id].n
          PROVE  \E i \in DOMAIN respCh' : Mine(respCh'[i], id) /\ respCh'[i].n = m
      <4>1. PICK i \in DOMAIN respCh : Mine(respCh[i], id) /\ respCh[i].n = m
        BY <1>6, <2>1, <3>1, ZenonT(60) DEF InChannel
      <4> QED BY <1>3, <2>3, <4>1, ZenonT(60)
    <3> QED BY <3>1, ZenonT(60)
  <2>7. /\ loop'[id].pc = "off" => got'[id] = <<>>
        /\ loop'[id].pc # "off" => Len(got'[id]) <= loop'[id].n + 1
    BY <1>6, <2>1, ZenonT(60) DEF InChannel
  <2> QED BY <2>4, <2>5, <2>6, <2>7, ZenonT(60) DEF InChannel, Mine
<1>7. ASSUME InChannel(r.id), sender, Mine(r, r.id) PROVE InChannel(r.id)'
  <2> DEFINE id == r.id
  <2>0. got \in [Id -> Seq(Nat)] /\ Len(got[id]) \in Nat /\ loop[id].n \in Nat
    BY <1>5 DEF OrderInv, LoopType
  <2>1. /\ loop'[id].pc # "off" /\ loop'[id].n = r.n
        /\ r.n = IF loop[id].pc = "off" THEN 0 ELSE loop[id].n + 1
    BY <1>7, ZenonT(60) DEF Mine
  <2> HIDE DEF id
  <2>2. \A i \in DOMAIN respCh : respCh'[i] = respCh[i] /\ respCh[i].n \in Nat
    BY <1>1 DEF RespType
  <2>3. \A i \in DOMAIN respCh : Mine(respCh[i], id) => respCh[i].n < r.n
    BY <1>5, <1>7, <2>0, <2>1, <2>2 DEF InChannel, id
  <2>4. Len(got[id]) <= r.n
    <3>1. CASE loop[id].pc = "off"
      <4>1. got[id] = <<>>
        BY <1>7, <3>1, ZenonT(60) DEF InChannel, id
      <4> QED BY <2>1, <3>1, <4>1
    <3>2. CASE loop[id].pc # "off"
      <4>1. Len(got[id]) <= loop[id].n + 1
        BY <1>7, <3>2, ZenonT(60) DEF InChannel, id
      <4> QED BY <2>1, <3>2, <4>1
    <3> QED BY <3>1, <3>2
  <2>5. Mine(r, id)
    BY <1>7 DEF id
  <2>6. \A i, j \in DOMAIN respCh' :
          i < j /\ Mine(respCh'[i], id) /\ Mine(respCh'[j], id) => respCh'[i].n < respCh'[j].n
    <3>1. ASSUME NEW i \in DOMAIN respCh', NEW j \in DOMAIN respCh', i < j,
                 Mine(respCh'[i], id), Mine(respCh'[j], id)
          PROVE  respCh'[i].n < respCh'[j].n
      <4>1. i \in DOMAIN respCh
        BY <1>2, <1>4, <1>5, <3>1, ZenonT(60)
      <4>2. CASE j \in DOMAIN respCh
        BY <1>7, <2>2, <3>1, <4>1, <4>2, ZenonT(60) DEF InChannel, id
      <4>3. CASE j = L + 1
        BY <1>1, <2>2, <2>3, <3>1, <4>1, <4>3, ZenonT(60)
      <4> QED BY <1>2, <4>2, <4>3, ZenonT(60)
    <3> QED BY <3>1, ZenonT(60)
  <2>7. \A i \in DOMAIN respCh' :
          Mine(respCh'[i], id) => Len(got[id]) <= respCh'[i].n /\ respCh'[i].n <= r.n
    <3>1. ASSUME NEW i \in DOMAIN respCh, Mine(respCh[i], id)
          PROVE  Len(got[id]) <= respCh[i].n /\ respCh[i].n <= r.n
      <4>1. Len(got[id]) <= respCh[i].n
        BY <1>7, <3>1, ZenonT(60) DEF InChannel, id
      <4>2. respCh[i].n < r.n /\ respCh[i].n \in Nat
        BY <2>2, <2>3, <3>1, ZenonT(60)
      <4> QED BY <1>5, <4>1, <4>2
    <3>2. r.n <= r.n
      BY <1>5
    <3> QED BY <1>1, <1>2, <2>2, <2>4, <3>1, <3>2, ZenonT(60)
  <2>8. ASSUME NEW m \in Nat, Len(got[id]) <= m, m <= r.n
        PROVE  \E i \in DOMAIN respCh' : Mine(respCh'[i], id) /\ respCh'[i].n = m
    <3>1. CASE m = r.n
      BY <1>1, <1>3, <2>5, <3>1, ZenonT(60)
    <3>2. CASE m # r.n
      <4>1. loop[id].pc # "off" /\ m <= loop[id].n
        BY <2>0, <2>1, <2>8, <3>2
      <4>2. PICK i \in DOMAIN respCh : Mine(respCh[i], id) /\ respCh[i].n = m
        BY <1>7, <2>8, <4>1, ZenonT(60) DEF InChannel, id
      <4> QED BY <1>3, <2>2, <4>2, ZenonT(60)
    <3> QED BY <3>1, <3>2
  <2>9. r.n <= r.n + 1 /\ Len(got[id]) <= r.n + 1
    BY <1>5, <2>0, <2>4
  <2>10. InChannel(id)'
    BY <2>1, <2>6, <2>7, <2>8, <2>9, ZenonT(60) DEF InChannel, Mine
  <2> QED BY <2>10 DEF id
<1>8. ResponsesInOrder'
  BY ZenonT(60) DEF OrderInv, ResponsesInOrder
<1>9. sender' => \A id \in Id : InChannel(id)'
  <2>1. ASSUME NEW id \in Id, sender PROVE InChannel(id)'
    <3>0. InChannel(id)
      BY <2>1, ZenonT(60) DEF OrderInv
    <3>1. CASE Mine(r, id)
      <4>1. id = r.id
        BY <3>1, ZenonT(60) DEF Mine
      <4> QED BY <1>7, <2>1, <3>0, <3>1, <4>1, ZenonT(60)
    <3> QED BY <1>6, <2>1, <3>0, <3>1, ZenonT(60)
  <2> QED BY <2>1, ZenonT(60)
<1>10. sender' \in BOOLEAN /\ got' \in [Id -> Seq(Nat)]
  BY ZenonT(60) DEF OrderInv
<1>11. \A id \in Id : loop'[id].pc = "off" => loop'[id].n = 0
  BY ZenonT(60) DEF OrderInv
<1> QED BY <1>1, <1>8, <1>9, <1>10, <1>11, ZenonT(60) DEF OrderInv

\* The send goroutine sends the response at the head of the channel: if it is a
\* numbered one it is the one its client expects.
LEMMA OrderSend ==
  ASSUME OrderInv, loop \in [Id -> LoopType], SendNext
  PROVE  OrderInv'
<1> DEFINE r == Head(respCh)
           L == Len(respCh)
<1>1. /\ sender /\ respCh # <<>> /\ respCh' = Tail(respCh) /\ sender' = sender /\ loop' = loop
      /\ got' = IF r.kind = "canceled" THEN got ELSE [got EXCEPT ![r.id] = Append(@, r.n)]
  BY ZenonT(60) DEF SendNext
<1>2. respCh \in Seq(RespType) /\ got \in [Id -> Seq(Nat)] /\ sender \in BOOLEAN
  BY ZenonT(60) DEF OrderInv
<1>3. /\ L \in Nat /\ L >= 1 /\ DOMAIN respCh = 1..L /\ respCh' \in Seq(RespType)
      /\ DOMAIN respCh' = 1..(L - 1) /\ respCh[1] = r /\ r \in RespType
      /\ \A i \in 1..(L - 1) : respCh'[i] = respCh[i + 1]
  BY <1>1, <1>2
<1> HIDE DEF r, L
<1>4. /\ \A i \in DOMAIN respCh' : i + 1 \in DOMAIN respCh /\ respCh'[i] = respCh[i + 1] /\ 1 < i + 1
      /\ \A i \in DOMAIN respCh : i = 1 \/ (i - 1 \in DOMAIN respCh' /\ respCh'[i - 1] = respCh[i])
      /\ \A i, j \in DOMAIN respCh' : i < j => i + 1 < j + 1
      /\ 1 \in DOMAIN respCh
  BY <1>3
<1>5. r.id \in Id /\ r.n \in Nat /\ \A i \in DOMAIN respCh : respCh[i].n \in Nat
  <2>1. r.id \in Id /\ r.n \in Nat
    BY <1>3 DEF RespType
  <2>2. \A i \in DOMAIN respCh : respCh[i] \in RespType
    BY <1>2
  <2>3. \A i \in DOMAIN respCh : respCh[i].n \in Nat
    BY <2>2 DEF RespType
  <2> QED BY <2>1, <2>3
<1>6. \A id \in Id : InChannel(id)
  BY <1>1, ZenonT(60) DEF OrderInv
<1>7. ASSUME NEW id \in Id, Mine(r, id) PROVE r.n = Len(got[id]) /\ loop[id].pc # "off"
  <2>1. loop[id].n \in Nat /\ Len(got[id]) \in Nat
    BY <1>2 DEF LoopType
  <2>2. loop[id].pc # "off" /\ Len(got[id]) <= r.n /\ r.n <= loop[id].n
    BY <1>3, <1>4, <1>6, <1>7, ZenonT(60) DEF InChannel
  <2>3. Len(got[id]) <= Len(got[id]) /\ Len(got[id]) <= loop[id].n
    BY <1>5, <2>1, <2>2
  <2>4. PICK i \in DOMAIN respCh : Mine(respCh[i], id) /\ respCh[i].n = Len(got[id])
    BY <1>6, <2>1, <2>2, <2>3, ZenonT(60) DEF InChannel
  <2>5. CASE i = 1
    BY <1>3, <2>2, <2>4, <2>5, ZenonT(60)
  <2>6. CASE i # 1
    <3>1. 1 < i
      BY <1>3, <2>4, <2>6
    <3>2. r.n < respCh[i].n
      BY <1>3, <1>4, <1>6, <1>7, <2>4, <3>1, ZenonT(60) DEF InChannel
    <3> QED BY <1>5, <2>1, <2>2, <2>4, <3>2
  <2> QED BY <2>2, <2>5, <2>6, ZenonT(60)
<1>8. ASSUME NEW id \in Id, ~Mine(r, id) PROVE got'[id] = got[id]
  <2>1. CASE r.kind = "canceled"
    BY <1>1, <2>1, ZenonT(60)
  <2>2. CASE r.kind # "canceled"
    BY <1>1, <1>2, <1>8, <2>2 DEF Mine
  <2> QED BY <2>1, <2>2, ZenonT(60)
<1>9. ASSUME NEW id \in Id, Mine(r, id)
      PROVE  /\ got'[id] = Append(got[id], r.n) /\ Len(got'[id]) = Len(got[id]) + 1
             /\ Len(got[id]) \in Nat
  <2>1. r.id = id /\ r.kind # "canceled"
    BY <1>9, ZenonT(60) DEF Mine
  <2> QED BY <1>1, <1>2, <1>5, <2>1
<1>10. got' \in [Id -> Seq(Nat)]
  BY <1>1, <1>2, <1>5
<1>11. ResponsesInOrder'
  <2>1. ASSUME NEW id \in Id, NEW i \in DOMAIN got'[id] PROVE got'[id][i] = i - 1
    <3>1. \A k \in DOMAIN got[id] : got[id][k] = k - 1
      BY ZenonT(60) DEF OrderInv, ResponsesInOrder
    <3>2. CASE Mine(r, id)
      <4> DEFINE s == got[id]
      <4>1. /\ s \in Seq(Nat) /\ r.n \in Nat /\ r.n = Len(s) /\ got'[id] = Append(s, r.n)
            /\ \A k \in DOMAIN s : s[k] = k - 1
        BY <1>2, <1>5, <1>7, <1>9, <3>1, <3>2, ZenonT(60)
      <4> HIDE DEF s
      <4>2. i \in DOMAIN Append(s, r.n)
        BY <2>1, <4>1, ZenonT(60)
      <4>3. Append(s, r.n)[i] = i - 1
        BY ONLY <4>1, <4>2, SMTT(60)
      <4> QED BY <4>1, <4>3, ZenonT(60)
    <3>3. CASE ~Mine(r, id)
      BY <1>8, <2>1, <3>1, <3>3, ZenonT(60)
    <3> QED BY <3>2, <3>3, ZenonT(60)
  <2> QED BY <2>1, ZenonT(60) DEF ResponsesInOrder
<1>12. ASSUME NEW id \in Id PROVE InChannel(id)'
  <2>1. \A i, j \in DOMAIN respCh' :
          i < j /\ Mine(respCh'[i], id) /\ Mine(respCh'[j], id) => respCh'[i].n < respCh'[j].n
    <3>1. ASSUME NEW i \in DOMAIN respCh', NEW j \in DOMAIN respCh', i < j,
                 Mine(respCh'[i], id), Mine(respCh'[j], id)
          PROVE  respCh'[i].n < respCh'[j].n
      <4>1. /\ i + 1 \in DOMAIN respCh /\ j + 1 \in DOMAIN respCh /\ i + 1 < j + 1
            /\ respCh'[i] = respCh[i + 1] /\ respCh'[j] = respCh[j + 1]
        BY <1>4, <3>1, ZenonT(60)
      <4> QED BY <1>6, <3>1, <4>1, ZenonT(60) DEF InChannel
    <3> QED BY <3>1, ZenonT(60)
  <2>2. \A i \in DOMAIN respCh' :
          Mine(respCh'[i], id) => loop[id].pc # "off" /\ Len(got'[id]) <= respCh'[i].n
                                                      /\ respCh'[i].n <= loop[id].n
    <3>1. ASSUME NEW i \in DOMAIN respCh', Mine(respCh'[i], id)
          PROVE  loop[id].pc # "off" /\ Len(got'[id]) <= respCh'[i].n /\ respCh'[i].n <= loop[id].n
      <4>1. i + 1 \in DOMAIN respCh /\ respCh'[i] = respCh[i + 1] /\ 1 < i + 1
        BY <1>4, <3>1, ZenonT(60)
      <4>2. loop[id].pc # "off" /\ Len(got[id]) <= respCh'[i].n /\ respCh'[i].n <= loop[id].n
        BY <1>6, <3>1, <4>1, ZenonT(60) DEF InChannel
      <4>3. CASE Mine(r, id)
        <5>1. r.n < respCh'[i].n
          BY <1>3, <1>4, <1>6, <3>1, <4>1, <4>3, ZenonT(60) DEF InChannel
        <5>2. respCh'[i].n \in Nat
          BY <1>5, <4>1, ZenonT(60)
        <5>3. r.n = Len(got[id]) /\ Len(got'[id]) = Len(got[id]) + 1 /\ Len(got[id]) \in Nat
          BY <1>7, <1>9, <4>3, ZenonT(60)
        <5> QED BY <4>2, <5>1, <5>2, <5>3
      <4>4. CASE ~Mine(r, id)
        BY <1>8, <4>2, <4>4, ZenonT(60)
      <4> QED BY <4>3, <4>4, ZenonT(60)
    <3> QED BY <3>1, ZenonT(60)
  <2>3. loop[id].pc = "off" => got'[id] = <<>>
    BY <1>6, <1>7, <1>8, ZenonT(60) DEF InChannel
  <2>4. loop[id].pc # "off" => Len(got'[id]) <= loop[id].n + 1
    <3>1. CASE Mine(r, id)
      <4>1. r.n <= loop[id].n /\ r.n = Len(got[id]) /\ Len(got'[id]) = Len(got[id]) + 1
        BY <1>3, <1>4, <1>6, <1>7, <1>9, <3>1, ZenonT(60) DEF InChannel
      <4>2. loop[id].n \in Nat
        BY DEF LoopType
      <4> QED BY <1>5, <4>1, <4>2
    <3>2. CASE ~Mine(r, id)
      BY <1>6, <1>8, <3>2, ZenonT(60) DEF InChannel
    <3> QED BY <3>1, <3>2, ZenonT(60)
  <2>5. ASSUME NEW m \in Nat, loop[id].pc # "off", Len(got'[id]) <= m, m <= loop[id].n
        PROVE  \E i \in DOMAIN respCh' : Mine(respCh'[i], id) /\ respCh'[i].n = m
    <3>1. Len(got[id]) <= m /\ (Mine(r, id) => r.n # m)
      <4>1. CASE Mine(r, id)
        <5>1. r.n = Len(got[id]) /\ Len(got'[id]) = Len(got[id]) + 1 /\ Len(got[id]) \in Nat
          BY <1>7, <1>9, <4>1, ZenonT(60)
        <5> QED BY <2>5, <5>1
      <4>2. CASE ~Mine(r, id)
        BY <1>8, <2>5, <4>2, ZenonT(60)
      <4> QED BY <4>1, <4>2, ZenonT(60)
    <3>2. PICK i \in DOMAIN respCh : Mine(respCh[i], id) /\ respCh[i].n = m
      BY <1>6, <2>5, <3>1, ZenonT(60) DEF InChannel
    <3>3. i # 1
      BY <1>3, <3>1, <3>2, ZenonT(60)
    <3> QED BY <1>4, <3>2, <3>3, ZenonT(60)
  <2> QED BY <1>1, <2>1, <2>2, <2>3, <2>4, <2>5, ZenonT(60) DEF InChannel, Mine
<1> QED BY <1>1, <1>2, <1>3, <1>10, <1>11, <1>12, ZenonT(60) DEF OrderInv

\* A send fails: what is left in the channel is never sent.
LEMMA OrderSendFails ==
  ASSUME OrderInv, SendFails
  PROVE  OrderInv'
<1>1. respCh # <<>> /\ respCh' = Tail(respCh) /\ sender' = FALSE /\ got' = got /\ loop' = loop
  BY ZenonT(60) DEF SendFails
<1>2. respCh \in Seq(RespType) /\ got \in [Id -> Seq(Nat)] /\ ResponsesInOrder
  BY ZenonT(60) DEF OrderInv
<1>3. respCh' \in Seq(RespType)
  BY <1>1, <1>2
<1>4. ResponsesInOrder'
  BY <1>1, <1>2, ZenonT(60) DEF ResponsesInOrder
<1> QED BY <1>1, <1>2, <1>3, <1>4, ZenonT(60) DEF OrderInv

\* A watchLoop step that makes no response.
LEMMA OrderLoopStep ==
  ASSUME OrderInv, loop \in [Id -> LoopType], NEW id \in Id, NEW new, LoopStep(id, new),
         respCh' = respCh, new.n = loop[id].n, loop[id].pc # "off", new.pc # "off"
  PROVE  OrderInv'
<1>1. loop' = [loop EXCEPT ![id] = new] /\ got' = got /\ sender' = sender
  BY ZenonT(60) DEF LoopStep
<1>2. \A i \in Id : loop'[i].n = loop[i].n /\ (loop'[i].pc = "off" <=> loop[i].pc = "off")
  BY <1>1
<1>3. sender' \in BOOLEAN /\ (sender' => sender)
  BY <1>1, ZenonT(60) DEF OrderInv
<1> QED BY <1>1, <1>2, <1>3, OrderQuiet, ZenonT(60)

\* No step of the stream loses a response, sends one twice or lets one overtake
\* another of its watch.
LEMMA OrderStep ==
  ASSUME StreamInv, OrderInv, StreamNext
  PROVE  OrderInv'
<1>0. loop \in [Id -> LoopType] /\ main.id \in Id /\ sender \in BOOLEAN
  BY ZenonT(60) DEF StreamInv, StreamTypes, OrderInv
<1>1. CASE (\E req \in Request : Recv(req)) \/ Disconnect \/ HandlerDone \/ RecvError \/ SenderStops
  <2>1. /\ respCh' = respCh /\ got' = got /\ loop' = loop
        /\ sender' \in BOOLEAN /\ (sender' => sender)
    <3>1. respCh' = respCh /\ got' = got /\ loop' = loop
      BY <1>1, ZenonT(60) DEF Recv, Disconnect, HandlerDone, RecvError, Return, SenderStops
    <3>2. sender' = sender \/ sender' = FALSE
      BY <1>1, ZenonT(60) DEF Recv, Disconnect, HandlerDone, RecvError, Return, SenderStops
    <3>3. sender' \in BOOLEAN /\ (sender' => sender)
      <4>1. CASE sender' = sender
        BY <1>0, <4>1, ZenonT(60)
      <4>2. CASE sender' = FALSE
        BY <4>2, ZenonT(60)
      <4> QED BY <3>2, <4>1, <4>2, ZenonT(60)
    <3> QED BY <3>1, <3>3, ZenonT(60)
  <2>2. \A i \in Id : loop'[i].n = loop[i].n /\ (loop'[i].pc = "off" <=> loop[i].pc = "off")
    BY <2>1, ZenonT(60)
  <2> QED BY <2>1, <2>2, OrderQuiet, ZenonT(60)
<1>2. CASE HandleCreate \/ HandleCancel \/ TakeCancelled \/ BreakLoop
  <2>1. PICK ids : loop' = CancelAll(ids)
    BY <1>2, ZenonT(60) DEF HandleCreate, HandleCancel, TakeCancelled, BreakLoop
  <2>2. respCh' = respCh /\ got' = got /\ sender' = sender
    BY <1>2, ZenonT(60) DEF HandleCreate, HandleCancel, TakeCancelled, BreakLoop, Return
  <2>3. \A i \in Id : loop'[i].n = loop[i].n /\ (loop'[i].pc = "off" <=> loop[i].pc = "off")
    BY <1>0, <2>1, CancelAllType, ZenonT(60)
  <2> QED BY <1>0, <2>2, <2>3, OrderQuiet, ZenonT(60)
<1>3. CASE SendNext
  BY <1>0, <1>3, OrderSend, ZenonT(60)
<1>4. CASE SendFails
  BY <1>4, OrderSendFails, ZenonT(60)
<1>5. CASE Respond
  <2> DEFINE r == [id |-> main.id, kind |-> main.pc, n |-> 0]
  <2>1. /\ main.pc \in {"created", "canceled"} /\ respCh' = Append(respCh, r)
        /\ got' = got /\ sender' = sender
        /\ loop' = IF main.pc = "created" THEN [loop EXCEPT ![main.id].pc = "start"] ELSE loop
    BY <1>5, ZenonT(60) DEF Respond
  <2>2. r \in RespType /\ r.id = main.id /\ r.kind = main.pc /\ r.n = 0
    BY <1>0, <2>1 DEF RespType
  <2> HIDE DEF r
  <2>3. CASE main.pc = "canceled"
    <3>1. loop' = loop
      BY <2>1, <2>3
    <3> QED BY <1>0, <2>1, <2>2, <2>3, <3>1, OrderPush, ZenonT(60)
  <2>4. CASE main.pc = "created"
    <3>1. loop[r.id].pc = "off" /\ loop[r.id].n = 0
      <4>1. loop[r.id].pc = "off"
        BY <1>0, <2>2, <2>4 DEF StreamInv, NewIsOff
      <4> QED BY <1>0, <2>2, <4>1, ZenonT(60) DEF OrderInv
    <3>2. /\ loop'[r.id].pc # "off" /\ loop'[r.id].n = loop[r.id].n
          /\ \A i \in Id : i # r.id => loop'[i] = loop[i]
      BY <1>0, <2>1, <2>2, <2>4 DEF LoopType
    <3> QED BY <1>0, <2>1, <2>2, <2>4, <3>1, <3>2, OrderPush, ZenonT(60)
  <2> QED BY <2>1, <2>3, <2>4, ZenonT(60)
<1>6. ASSUME NEW id \in Id, WatchLoopStep(id) \/ TakeBatch(id) \/ ContextEnds(id) \/ SubEnds(id)
      PROVE  OrderInv'
  <2>1. loop[id] \in LoopType /\ loop[id].n \in Nat
    BY <1>0 DEF LoopType
  <2>2. ASSUME NEW kind \in {"events", "canceled"}, NEW n \in Nat, NEW new,
               loop' = [loop EXCEPT ![id] = new], got' = got, sender' = sender,
               respCh' = Append(respCh, [id |-> id, kind |-> kind, n |-> n]),
               loop[id].pc # "off", new.pc # "off",
               IF kind = "canceled" THEN new.n = loop[id].n
               ELSE new.n = n /\ n = loop[id].n + 1
        PROVE  OrderInv'
    <3> DEFINE r == [id |-> id, kind |-> kind, n |-> n]
    <3>1. r \in RespType /\ r.id = id /\ r.kind = kind /\ r.n = n
      BY <2>2 DEF RespType
    <3>2. loop'[id] = new /\ \A i \in Id : i # id => loop'[i] = loop[i]
      BY <1>0, <2>2, ZenonT(60)
    <3>3. respCh' = Append(respCh, r)
      BY <2>2
    <3> HIDE DEF r
    <3> QED BY <1>0, <2>2, <3>1, <3>2, <3>3, OrderPush, ZenonT(60)
  <2>3. CASE PushBatch(id)
    <3> DEFINE new == [loop[id] EXCEPT !.pc = "run", !.n = @ + 1]
    <3>1. new.pc = "run" /\ new.n = loop[id].n + 1 /\ new.n \in Nat
      BY <2>1 DEF LoopType
    <3>2. /\ loop' = [loop EXCEPT ![id] = new] /\ got' = got /\ sender' = sender
          /\ respCh' = Append(respCh, [id |-> id, kind |-> "events", n |-> new.n])
          /\ loop[id].pc = "push"
      BY <2>3, <3>1, ZenonT(60) DEF PushBatch, LoopStep
    <3> HIDE DEF new
    <3> QED BY <2>2, <3>1, <3>2, ZenonT(60)
  <2>4. CASE PushCanceled(id)
    <3> DEFINE new == [loop[id] EXCEPT !.pc = "notify"]
    <3>1. new.pc = "notify" /\ new.n = loop[id].n /\ 0 \in Nat
      BY <2>1 DEF LoopType
    <3>2. /\ loop' = [loop EXCEPT ![id] = new] /\ got' = got /\ sender' = sender
          /\ respCh' = Append(respCh, [id |-> id, kind |-> "canceled", n |-> 0])
          /\ loop[id].pc = "sentinel"
      BY <2>4, ZenonT(60) DEF PushCanceled, LoopStep
    <3> HIDE DEF new
    <3> QED BY <2>2, <3>1, <3>2, ZenonT(60)
  <2>5. CASE Notify(id)
    <3>1. /\ loop' = [loop EXCEPT ![id].pc = "gone", ![id].done = TRUE]
          /\ got' = got /\ sender' = sender /\ respCh' = respCh /\ loop[id].pc = "notify"
      BY <2>5, ZenonT(60) DEF Notify
    <3>2. \A i \in Id : loop'[i].n = loop[i].n /\ (loop'[i].pc = "off" <=> loop[i].pc = "off")
      BY <1>0, <3>1 DEF LoopType
    <3> QED BY <1>0, <3>1, <3>2, OrderQuiet, ZenonT(60)
  <2>6. CASE Subscribe(id)
    <3> DEFINE new == [loop[id] EXCEPT !.pc = "run", !.sub = "open"]
    <3>1. new.pc = "run" /\ new.n = loop[id].n
      BY <2>1 DEF LoopType
    <3>2. LoopStep(id, new) /\ respCh' = respCh /\ loop[id].pc = "start"
      BY <2>6, ZenonT(60) DEF Subscribe
    <3> HIDE DEF new
    <3> QED BY <1>0, <3>1, <3>2, OrderLoopStep, ZenonT(60)
  <2>7. CASE TakeSentinel(id) \/ TakeBatch(id) \/ LoopDone(id)
    <3>1. PICK pc \in {"sentinel", "push", "notify", "gone"} :
             LoopStep(id, [loop[id] EXCEPT !.pc = pc])
      BY <2>7 DEF TakeSentinel, TakeBatch, LoopDone
    <3> DEFINE new == [loop[id] EXCEPT !.pc = pc]
    <3>2. new.pc = pc /\ new.n = loop[id].n
      BY <2>1 DEF LoopType
    <3>3. respCh' = respCh /\ loop[id].pc # "off"
      BY <2>7 DEF TakeSentinel, TakeBatch, LoopDone
    <3>4. LoopStep(id, new) /\ new.pc # "off"
      BY <3>1, <3>2
    <3> HIDE DEF new
    <3> QED BY <1>0, <3>2, <3>3, <3>4, OrderLoopStep, ZenonT(60)
  <2>8. CASE ContextEnds(id)
    <3> DEFINE new == [loop[id] EXCEPT !.done = TRUE]
    <3>1. new.pc = loop[id].pc /\ new.n = loop[id].n
      BY <2>1 DEF LoopType
    <3>2. LoopStep(id, new) /\ respCh' = respCh /\ loop[id].pc # "off"
      BY <2>8, ZenonT(60) DEF ContextEnds
    <3> HIDE DEF new
    <3> QED BY <1>0, <3>1, <3>2, OrderLoopStep, ZenonT(60)
  <2>9. CASE SubEnds(id)
    <3> DEFINE new == [loop[id] EXCEPT !.sub = "closed"]
    <3>1. new.pc = loop[id].pc /\ new.n = loop[id].n
      BY <2>1 DEF LoopType
    <3>2. LoopStep(id, new) /\ respCh' = respCh /\ loop[id].sub = "open"
      BY <2>9, ZenonT(60) DEF SubEnds
    <3>3. loop[id].pc # "off"
      BY <3>2 DEF StreamInv, SubFollowsLoop
    <3> HIDE DEF new
    <3> QED BY <1>0, <3>1, <3>2, <3>3, OrderLoopStep, ZenonT(60)
  <2> QED BY <1>6, <2>3, <2>4, <2>5, <2>6, <2>7, <2>8, <2>9, ZenonT(60) DEF WatchLoopStep
<1> QED BY <1>1, <1>2, <1>3, <1>4, <1>5, <1>6, ZenonT(60) DEF StreamNext, MainStep, SenderStep

\* The rest of the process makes no response: when it exits every watchLoop that
\* runs is gone.
LEMMA OrderOutside ==
  ASSUME StreamInv, OrderInv,
         \/ OpenStream
         \/ UNCHANGED streamVars
         \/ GraceTimeout
         \/ Exit
  PROVE  OrderInv'
<1>0. loop \in [Id -> LoopType] /\ sender \in BOOLEAN
  BY ZenonT(60) DEF StreamInv, StreamTypes, OrderInv
<1>1. CASE OpenStream \/ UNCHANGED streamVars \/ GraceTimeout
  <2>1. respCh' = respCh /\ got' = got /\ loop' = loop /\ sender' = sender
    BY <1>1, ZenonT(60) DEF OpenStream, streamVars, GraceTimeout
  <2>2. \A i \in Id : loop'[i].n = loop[i].n /\ (loop'[i].pc = "off" <=> loop[i].pc = "off")
    BY <2>1, ZenonT(60)
  <2> QED BY <1>0, <2>1, <2>2, OrderQuiet, ZenonT(60)
<1>2. CASE Exit
  <2>1. /\ respCh' = respCh /\ got' = got /\ sender' = FALSE
        /\ loop' = [id \in Id |-> IF loop[id].pc = "off" THEN loop[id]
                    ELSE [loop[id] EXCEPT !.pc = "gone", !.done = TRUE, !.sub = "closed"]]
    BY <1>2, ZenonT(60) DEF Exit
  <2>2. \A i \in Id : loop'[i].n = loop[i].n /\ (loop'[i].pc = "off" <=> loop[i].pc = "off")
    BY <1>0, <2>1, ZenonT(60) DEF LoopType
  <2>3. sender' \in BOOLEAN /\ (sender' => sender)
    BY <2>1, ZenonT(60)
  <2> QED BY <2>1, <2>2, <2>3, OrderQuiet, ZenonT(60)
<1> QED BY <1>1, <1>2, ZenonT(60)

-----------------------------------------------------------------------------
(* Tokens and shutdown. *)

\* A token that has not expired is in the map.
ServingInv ==
    /\ age \in [Token -> 0..Expired]
    /\ \A t \in Token : age[t] <= TTL => t \in tokens
    /\ TokenHonoured

\* A process that has just started.
LEMMA ServingInitially == ServingInit => ServingInv
  BY ServingAssumption DEF ServingInit, ServingInv, TokenHonoured, Expired

\* Every step of the process keeps the invariant.
LEMMA ServingStep ==
  ASSUME ServingInv, ServingNext
  PROVE  ServingInv'
<1> USE ServingAssumption
<1>1. ASSUME NEW t \in Token, Authenticate(t)
      PROVE  ServingInv'
  BY <1>1 DEF Authenticate, ServingInv, TokenHonoured, Expired
<1>2. ASSUME NEW t \in Token, Intercept(t), unary' = "running" => unary = "running" \/ proc = "serving"
      PROVE  ServingInv'
  <2>1. UNCHANGED <<proc, enabled, tokens, age>> /\ proc = "serving"
    BY <1>2 DEF Intercept
  <2>2. TokenHonoured'
    <3>1. CASE enabled
      <4>1. verdict' = [token |-> t, age |-> age[t], admitted |-> validate(t)]
        BY <1>2, <3>1 DEF Intercept
      <4>2. validate(t) <=> age[t] <= TTL
        BY <3>1 DEF validate, ServingInv
      <4> QED BY <4>1, <4>2 DEF TokenHonoured
    <3>2. CASE ~enabled
      BY <1>2, <3>2 DEF Intercept, ServingInv, TokenHonoured
    <3> QED BY <3>1, <3>2
  <2> QED BY <1>2, <2>1, <2>2 DEF ServingInv
<1>3. ASSUME NEW t \in Token, CallUnary(t) \/ CallWatch(t)
      PROVE  ServingInv'
  BY <1>2, <1>3, ZenonT(60) DEF CallUnary, CallWatch, Intercept
<1>4. CASE Tick
  BY <1>4 DEF Tick, ServingInv, TokenHonoured, Expired
<1>5. CASE gcLoop
  BY <1>5 DEF gcLoop, Collectable, ServingInv, TokenHonoured, Expired
<1>6. CASE UnaryReturns
  BY <1>6 DEF UnaryReturns, ServingInv, TokenHonoured
<1>7. CASE Signal \/ GraceDone \/ GraceTimeout \/ ServeFails \/ Exit
  BY <1>7, ZenonT(60) DEF Signal, GraceDone, GraceTimeout, ServeFails, Exit, Drained, ProcStep, ServingInv,
              TokenHonoured
<1>8. CASE UNCHANGED servingVars
  BY <1>8 DEF servingVars, ServingInv, TokenHonoured
<1> QED BY <1>1, <1>3, <1>4, <1>5, <1>6, <1>7, <1>8 DEF ServingNext

-----------------------------------------------------------------------------
(* The migration tool. *)

KeyValue == [key : MigKey, value : Nat]

ToolState == [pc : {"off", "page", "put", "verify", "compare", "ok", "error"},
              dryRun : BOOLEAN, verify : BOOLEAN, from : Nat, kvs : SUBSET KeyValue,
              full : BOOLEAN, failed : BOOLEAN, bad : BOOLEAN, read : SUBSET KeyValue]

ToolTypes ==
    src \in [MigKey -> Nat] /\ dst \in [MigKey -> Nat] /\ srcWrites \in Nat /\ mig \in ToolState

\* A key of the source is in the destination.
There(k) == src[k] # 0 => dst[k] = src[k]

\* Of a source that is not written: what was copied, what is still to be put,
\* and that a page that was not full is the last.
CopyInv ==
    /\ mig.pc \in {"off", "page", "put"} /\ ~mig.failed =>
          \A k \in MigKey : k < mig.from =>
              There(k) \/ (mig.pc = "put" /\ [key |-> k, value |-> src[k]] \in mig.kvs)
    /\ mig.pc = "put" =>
          /\ \A kv \in mig.kvs : kv.value = src[kv.key]
          /\ ~mig.full => \A k \in MigKey : mig.from <= k => src[k] = 0
    /\ mig.pc \in {"verify", "compare"} \/ (mig.pc = "ok" /\ ~mig.dryRun) => \A k \in MigKey : There(k)

\* What verify has compared, or counted, and what it has still to compare.
CompareInv ==
    /\ mig.pc \notin {"compare", "ok", "error"} => mig.read = {}
    /\ mig.pc = "compare" =>
          \A kv \in mig.read : kv \in mig.kvs \/ mig.bad \/ dst[kv.key] = kv.value
    /\ VerifiedIsThere

ToolInv == ToolTypes /\ CompareInv /\ (srcWrites = 0 => CopyInv)

\* A tool that has not started.
LEMMA ToolInitially == MigrationInit => ToolInv
<1> SUFFICES ASSUME MigrationInit PROVE ToolInv
  OBVIOUS
<1>1. src \in [MigKey -> Nat] /\ dst \in [MigKey -> Nat] /\ srcWrites \in Nat
  BY DEF MigrationInit
<1>2. mig \in ToolState /\ mig.pc = "off" /\ mig.read = {} /\ mig.from = 1
  BY DEF MigrationInit, NoMigration, ToolState
<1>3. \A k \in MigKey : ~(k < 1)
  BY DEF MigKey
<1>4. CopyInv
  BY <1>2, <1>3, ZenonT(60) DEF CopyInv
<1> QED BY <1>1, <1>2, <1>4 DEF ToolInv, ToolTypes, CompareInv, VerifiedIsThere

\* Facts about keys and values, stated without the rest of the state.
LEMMA BelowOrNot == \A k \in MigKey, n \in Nat : k < n \/ n <= k
  BY MigrationAssumption DEF MigKey

\* The key field of a key-value pair.
LEMMA KeyOfPair == \A k, v : [key |-> k, value |-> v].key = k
  OBVIOUS

\* The answer to a Get of the source.
LEMMA SrcGetFacts ==
  ASSUME src \in [MigKey -> Nat], NEW first \in Nat
  PROVE  /\ SrcGet(first) \subseteq KeyValue
         /\ \A kv \in SrcGet(first) : kv.value = src[kv.key] /\ first <= kv.key
         /\ \A k \in MigKey : first <= k /\ src[k] # 0 => [key |-> k, value |-> src[k]] \in SrcGet(first)
  BY DEF SrcGet, KeyValue, MigKey

\* The end of copying: success, verification or an error.
LEMMA CopiedFacts ==
  ASSUME NEW m \in ToolState
  PROVE  /\ Copied(m) \in ToolState
         /\ Copied(m).pc \in {"error", "verify", "ok"}
         /\ Copied(m).pc # "error" => ~m.failed
         /\ Copied(m).read = m.read /\ Copied(m).dryRun = m.dryRun /\ Copied(m).from = m.from
         /\ Copied(m).kvs = m.kvs /\ Copied(m).full = m.full /\ Copied(m).failed = m.failed
  BY DEF Copied, ToolState

\* The tool has reached the end of the pages of a source that is not written.
LEMMA CopyDone ==
  ASSUME ToolTypes, CopyInv, mig.pc = "page", SrcGet(mig.from) = {}, Become(Copied(mig)), dst' = dst
  PROVE  CopyInv'
<1>1. mig \in ToolState /\ mig.from \in Nat /\ src \in [MigKey -> Nat] /\ dst \in [MigKey -> Nat]
  BY DEF ToolTypes, ToolState
<1>2. src' = src /\ mig' = Copied(mig)
  BY DEF Become
<1>3. \A k \in MigKey : mig.from <= k => src[k] = 0
  BY <1>1, SrcGetFacts, ZenonT(60)
<1>4. mig'.pc # "error" => \A k \in MigKey : There(k)
  <2>1. mig'.pc # "error" => ~mig.failed
    BY <1>1, <1>2, CopiedFacts, ZenonT(60)
  <2>2. ~mig.failed => \A k \in MigKey : k < mig.from => There(k)
    BY ZenonT(60) DEF CopyInv
  <2>3. \A k \in MigKey : mig.from <= k => There(k)
    BY <1>3, ZenonT(60) DEF There
  <2> QED BY <1>1, <2>1, <2>2, <2>3, BelowOrNot, ZenonT(60)
<1>5. \A k \in MigKey : There(k) => There(k)'
  BY <1>2, ZenonT(60) DEF There
<1> QED BY <1>1, <1>2, <1>4, <1>5, CopiedFacts, ZenonT(60) DEF CopyInv

\* A page is read from a source that is not written.
LEMMA CopyPage ==
  ASSUME ToolTypes, CopyInv, mig.pc = "page",
         NEW page \in SUBSET SrcGet(mig.from), IsPage(page, mig.from),
         NEW last \in page, \A kv \in page : kv.key <= last.key,
         Become([mig EXCEPT !.pc = "put", !.kvs = page, !.from = last.key + 1,
                            !.full = IsFull(Cardinality(page))]),
         dst' = dst
  PROVE  CopyInv'
<1>1. mig \in ToolState /\ mig.from \in Nat /\ src \in [MigKey -> Nat] /\ dst \in [MigKey -> Nat]
  BY DEF ToolTypes, ToolState
<1>2. /\ src' = src /\ mig'.pc = "put" /\ mig'.kvs = page /\ mig'.from = last.key + 1
      /\ mig'.full = IsFull(Cardinality(page)) /\ mig'.failed = mig.failed
  BY <1>1 DEF Become, ToolState
<1>3. \A kv \in SrcGet(mig.from) : kv.key \in MigKey /\ kv.value = src[kv.key] /\ mig.from <= kv.key
  BY <1>1, SrcGetFacts DEF KeyValue
<1>4. \A kv \in mig'.kvs : kv.value = src'[kv.key]
  BY <1>2, <1>3
<1>5. ASSUME NEW k \in MigKey, k < mig'.from, ~There(k), ~mig.failed
      PROVE  [key |-> k, value |-> src[k]] \in page
  <2>1. src[k] # 0
    BY <1>5 DEF There
  <2>2. mig.from <= k
    BY <1>1, <1>5 DEF CopyInv, MigKey
  <2>3. [key |-> k, value |-> src[k]] \in SrcGet(mig.from)
    BY <1>1, <2>1, <2>2, SrcGetFacts
  <2>4. k <= last.key
    BY <1>2, <1>3, <1>5 DEF MigKey
  <2>5. CASE k < last.key
    BY <2>3, <2>5 DEF IsPage
  <2>6. CASE k = last.key
    <3>1. last \in SrcGet(mig.from) /\ last.key = k /\ last.value = src[k]
      BY <1>3, <2>6
    <3>2. last = [key |-> k, value |-> src[k]]
      BY <3>1 DEF SrcGet
    <3> QED BY <3>2
  <2> QED BY <1>3, <2>4, <2>5, <2>6 DEF MigKey
<1>6. ASSUME ~mig'.full, NEW k \in MigKey, mig'.from <= k
      PROVE  src[k] = 0
  <2>1. page = SrcGet(mig.from)
    BY <1>2, <1>6, MigrationAssumption, ZenonT(60) DEF IsPage, IsFull
  <2>2. mig.from <= k /\ last.key < k
    BY <1>1, <1>2, <1>3, <1>6 DEF MigKey
  <2>3. src[k] # 0 => [key |-> k, value |-> src[k]] \in page
    BY <1>1, <2>1, <2>2, SrcGetFacts
  <2> QED BY <1>3, <2>2, <2>3 DEF MigKey
<1>7. \A k \in MigKey : There(k) => There(k)'
  BY <1>2, ZenonT(60) DEF There
<1> QED BY <1>2, <1>4, <1>5, <1>6, <1>7, ZenonT(60) DEF CopyInv

\* m is the tool after a Put of kv: it goes on with the page, or with the next
\* one, or is done.
PutDone(m, kv, ok) ==
  /\ m \in ToolState /\ m.read = mig.read /\ m.from = mig.from /\ m.dryRun = mig.dryRun
  /\ m.kvs = mig.kvs \ {kv} /\ m.full = mig.full /\ m.failed = (mig.failed \/ ~ok)
  /\ m.pc \in {"put", "page", "error", "verify", "ok"}
  /\ m.pc # "put" => m.kvs = {}
  /\ m.pc \in {"verify", "ok"} => ~m.full /\ ~m.failed

\* The tool's state after a Put, whether it succeeded or failed, is such an m.
LEMMA AfterPutFacts ==
  ASSUME mig \in ToolState, NEW kv, NEW ok \in BOOLEAN, mig.pc = "put",
         NEW m, m = AfterPut(kv, ok)
  PROVE  PutDone(m, kv, ok)
<1> DEFINE put == [mig EXCEPT !.kvs = @ \ {kv}, !.failed = @ \/ ~ok]
<1>1. /\ put \in ToolState /\ put.pc = "put" /\ put.read = mig.read /\ put.from = mig.from
      /\ put.dryRun = mig.dryRun /\ put.kvs = mig.kvs \ {kv} /\ put.full = mig.full
      /\ put.failed = (mig.failed \/ ~ok)
  BY ZenonT(60) DEF ToolState
<1>2. m = IF put.kvs # {} THEN put ELSE IF put.full THEN [put EXCEPT !.pc = "page"] ELSE Copied(put)
  BY ZenonT(60) DEF AfterPut
<1> HIDE DEF put
<1>3. CASE put.kvs # {}
  BY <1>1, <1>2, <1>3, ZenonT(60) DEF PutDone
<1>4. CASE put.kvs = {} /\ put.full
  <2>1. m = [put EXCEPT !.pc = "page"]
    BY <1>2, <1>4
  <2>2. m \in ToolState /\ m.pc = "page" /\ m.read = put.read /\ m.from = put.from
        /\ m.dryRun = put.dryRun /\ m.kvs = put.kvs /\ m.full = put.full /\ m.failed = put.failed
    BY <1>1, <2>1, ZenonT(60) DEF ToolState
  <2> QED BY <1>1, <1>4, <2>2, ZenonT(60) DEF PutDone
<1>5. CASE put.kvs = {} /\ ~put.full
  <2>1. m = Copied(put)
    BY <1>2, <1>5
  <2>2. /\ m \in ToolState /\ m.pc \in {"error", "verify", "ok"} /\ (m.pc # "error" => ~put.failed)
        /\ m.read = put.read /\ m.from = put.from /\ m.dryRun = put.dryRun
        /\ m.kvs = put.kvs /\ m.full = put.full /\ m.failed = put.failed
    BY <1>1, <2>1, CopiedFacts
  <2> QED BY <1>1, <1>5, <2>2, ZenonT(60) DEF PutDone
<1> QED BY <1>3, <1>4, <1>5

\* A Put of the destination, while the source is not written: it succeeds, or
\* it is counted as failed and may have been applied.
LEMMA CopyPut ==
  ASSUME ToolTypes, CopyInv, mig.pc = "put", NEW kv \in mig.kvs, NEW ok \in BOOLEAN,
         Become(AfterPut(kv, ok)),
         \/ dst' = [dst EXCEPT ![kv.key] = kv.value]
         \/ ~ok /\ dst' = dst
  PROVE  CopyInv'
<1>1. mig \in ToolState /\ mig.from \in Nat /\ src \in [MigKey -> Nat] /\ dst \in [MigKey -> Nat]
      /\ kv \in KeyValue
  BY DEF ToolTypes, ToolState
<1>2. src' = src /\ mig' = AfterPut(kv, ok)
  BY DEF Become
<1>3. /\ mig'.from = mig.from /\ mig'.dryRun = mig.dryRun
      /\ mig'.kvs = mig.kvs \ {kv} /\ mig'.full = mig.full /\ mig'.failed = (mig.failed \/ ~ok)
      /\ mig'.pc \in {"put", "page", "error", "verify", "ok"}
      /\ mig'.pc # "put" => mig'.kvs = {}
      /\ mig'.pc \in {"verify", "ok"} => ~mig'.full /\ ~mig'.failed
  <2>1. PutDone(mig', kv, ok)
    BY <1>1, <1>2, AfterPutFacts, ZenonT(60)
  <2> QED BY <2>1, ZenonT(60) DEF PutDone
<1>4. kv.key \in MigKey /\ kv.value = src[kv.key]
  BY <1>1, ZenonT(60) DEF KeyValue, CopyInv
<1>5. \A k \in MigKey : (There(k) => There(k)') /\ (ok /\ k = kv.key => There(k)')
  <2>1. CASE dst' = [dst EXCEPT ![kv.key] = src[kv.key]]
    BY <1>1, <1>2, <1>4, <2>1, ZenonT(60) DEF There
  <2>2. CASE ~ok /\ dst' = dst
    BY <1>2, <2>2, ZenonT(60) DEF There
  <2> QED BY <1>4, <2>1, <2>2
<1>6. ASSUME ~mig'.failed, NEW k \in MigKey, k < mig.from
      PROVE  There(k)' \/ [key |-> k, value |-> src[k]] \in mig'.kvs
  <2>1. ok /\ ~mig.failed
    BY <1>1, <1>3, <1>6, ZenonT(60) DEF ToolState
  <2>2. There(k) \/ [key |-> k, value |-> src[k]] \in mig.kvs
    BY <1>6, <2>1, ZenonT(60) DEF CopyInv
  <2>3. [key |-> k, value |-> src[k]] = kv => k = kv.key
    BY KeyOfPair, ZenonT(60)
  <2> QED BY <1>3, <1>5, <2>1, <2>2, <2>3, ZenonT(60)
<1>7. ASSUME mig'.pc \in {"verify", "ok"}, NEW k \in MigKey
      PROVE  There(k)'
  <2>1. CASE k < mig.from
    BY <1>3, <1>6, <1>7, <2>1, ZenonT(60)
  <2>2. CASE mig.from <= k
    <3>1. src[k] = 0
      BY <1>3, <1>7, <2>2, ZenonT(60) DEF CopyInv
    <3> QED BY <1>2, <3>1, ZenonT(60) DEF There
  <2> QED BY <1>1, <2>1, <2>2, BelowOrNot, ZenonT(60)
<1>8. mig'.pc = "put" => /\ \A other \in mig'.kvs : other.value = src[other.key]
                         /\ ~mig'.full => \A k \in MigKey : mig'.from <= k => src[k] = 0
  BY <1>3, ZenonT(60) DEF CopyInv
<1>9. ~mig'.failed => \A k \in MigKey : k < mig'.from =>
          There(k)' \/ (mig'.pc = "put" /\ [key |-> k, value |-> src[k]] \in mig'.kvs)
  BY <1>3, <1>6, ZenonT(60)
<1>10. mig'.pc \in {"verify", "compare"} \/ (mig'.pc = "ok" /\ ~mig'.dryRun) =>
          \A k \in MigKey : There(k)'
  BY <1>3, <1>7, ZenonT(60)
<1> QED BY <1>2, <1>8, <1>9, <1>10, ZenonT(60) DEF CopyInv

\* Every step of the tool and of the source's clients keeps the invariant.
LEMMA ToolStep ==
  ASSUME ToolInv, MigrationNext
  PROVE  ToolInv'
<1>0. mig \in ToolState /\ mig.from \in Nat /\ src \in [MigKey -> Nat] /\ dst \in [MigKey -> Nat]
  BY DEF ToolInv, ToolTypes, ToolState
<1>1. CASE Start
  <2>1. PICK dryRun, verify \in BOOLEAN :
          Become([mig EXCEPT !.pc = "page", !.dryRun = dryRun, !.verify = verify])
    BY <1>1, ZenonT(60) DEF Start
  <2>2. mig.pc = "off" /\ dst' = dst
    BY <1>1 DEF Start
  <2>3. /\ mig' \in ToolState /\ mig'.pc = "page" /\ mig'.read = mig.read
        /\ mig'.from = mig.from /\ mig'.failed = mig.failed
    BY <1>0, <2>1, ZenonT(60) DEF Become, ToolState
  <2>4. UNCHANGED <<src, srcWrites>>
    BY <2>1 DEF Become
  <2> QED BY <2>2, <2>3, <2>4, ZenonT(60) DEF ToolInv, ToolTypes, CompareInv, CopyInv, There, VerifiedIsThere
<1>2. CASE ReadPage
  <2>1. PICK page \in SUBSET SrcGet(mig.from) :
          /\ IsPage(page, mig.from)
          /\ IF page = {} THEN Become(Copied(mig))
             ELSE IF mig.dryRun THEN Become([mig EXCEPT !.pc = "ok"])
             ELSE \E last \in page :
                    /\ \A kv \in page : kv.key <= last.key
                    /\ Become([mig EXCEPT !.pc = "put", !.kvs = page, !.from = last.key + 1,
                                          !.full = IsFull(Cardinality(page))])
    BY <1>2, ZenonT(60) DEF ReadPage
  <2>2. mig.pc = "page" /\ dst' = dst
    BY <1>2, ZenonT(60) DEF ReadPage
  <2>3. page \subseteq KeyValue
    BY <1>0, SrcGetFacts
  <2>4. CASE page = {}
    <3>1. SrcGet(mig.from) = {}
      BY <2>1, <2>4, ZenonT(60) DEF IsPage
    <3>2. srcWrites = 0 => CopyInv'
      BY <2>1, <2>2, <2>4, <3>1, CopyDone DEF ToolInv
    <3> QED BY <1>0, <2>1, <2>2, <2>4, <3>2, CopiedFacts
            DEF ToolInv, ToolTypes, CompareInv, VerifiedIsThere, Become
  <2>5. CASE page # {} /\ mig.dryRun
    BY <1>0, <2>1, <2>2, <2>5
    DEF Become, ToolInv, ToolTypes, ToolState, CompareInv, CopyInv, There, VerifiedIsThere
  <2>6. CASE page # {} /\ ~mig.dryRun
    <3>1. PICK last \in page :
            /\ \A kv \in page : kv.key <= last.key
            /\ Become([mig EXCEPT !.pc = "put", !.kvs = page, !.from = last.key + 1,
                                  !.full = IsFull(Cardinality(page))])
      BY <2>1, <2>6, ZenonT(60)
    <3>2. srcWrites = 0 => CopyInv'
      BY <2>1, <2>2, <3>1, CopyPage, ZenonT(60) DEF ToolInv
    <3>3. last.key + 1 \in Nat /\ IsFull(Cardinality(page)) \in BOOLEAN
      BY <2>3, <3>1 DEF KeyValue, MigKey, IsFull
    <3>4. mig' \in ToolState /\ mig'.pc = "put" /\ mig'.read = mig.read
      BY <1>0, <2>3, <3>1, <3>3, ZenonT(60) DEF ToolState, Become
    <3> QED BY <1>0, <2>2, <3>1, <3>2, <3>4 DEF ToolInv, ToolTypes, CompareInv, VerifiedIsThere, Become
  <2> QED BY <2>4, <2>5, <2>6
<1>3. CASE SourceFails
  BY <1>0, <1>3 DEF SourceFails, Become, ToolInv, ToolTypes, ToolState, CompareInv, CopyInv, There, VerifiedIsThere
<1>4. ASSUME NEW kv \in mig.kvs, DstPut(kv) \/ DstPutFails(kv)
      PROVE  ToolInv'
  <2>1. PICK ok \in BOOLEAN :
          /\ Become(AfterPut(kv, ok))
          /\ dst' = [dst EXCEPT ![kv.key] = kv.value] \/ (~ok /\ dst' = dst)
    BY <1>4, ZenonT(60) DEF DstPut, DstPutFails
  <2>2. mig.pc = "put"
    BY <1>4, ZenonT(60) DEF DstPut, DstPutFails
  <2>3. kv.key \in MigKey /\ kv.value \in Nat
    BY <1>0 DEF ToolState, KeyValue
  <2>4. dst' \in [MigKey -> Nat] /\ src' = src /\ srcWrites' = srcWrites
    BY <1>0, <2>1, <2>3, ZenonT(60) DEF Become
  <2>5. /\ mig' \in ToolState /\ mig'.read = mig.read
        /\ mig'.pc \in {"put", "page", "error", "verify", "ok"}
    <3>1. mig' = AfterPut(kv, ok)
      BY <2>1 DEF Become
    <3>2. PutDone(mig', kv, ok)
      BY <1>0, <2>1, <2>2, <3>1, AfterPutFacts, ZenonT(60)
    <3> QED BY <3>2, ZenonT(60) DEF PutDone
  <2>6. srcWrites = 0 => CopyInv'
    BY <2>1, <2>2, CopyPut, ZenonT(60) DEF ToolInv
  <2>7. ToolTypes' /\ CompareInv'
    BY <2>2, <2>4, <2>5, ZenonT(60) DEF ToolInv, ToolTypes, CompareInv, VerifiedIsThere
  <2> QED BY <2>4, <2>6, <2>7, ZenonT(60) DEF ToolInv
<1>5. CASE Verify
  <2>1. SrcGet(1) \subseteq KeyValue
    BY <1>0, SrcGetFacts
  <2> QED BY <1>0, <1>5, <2>1, ZenonT(60)
          DEF Verify, Become, ToolInv, ToolTypes, ToolState, CompareInv, CopyInv, There, VerifiedIsThere
<1>6. ASSUME NEW kv \in mig.kvs, DstGet(kv) \/ DstGetFails(kv)
      PROVE  ToolInv'
  <2>1. mig.pc = "compare" /\ UNCHANGED <<src, dst, srcWrites>>
    BY <1>6 DEF DstGet, DstGetFails, Become
  <2>2. /\ mig' \in ToolState /\ mig'.pc = "compare" /\ mig'.read = mig.read
        /\ mig'.kvs = mig.kvs \ {kv} /\ mig'.dryRun = mig.dryRun
        /\ mig.bad \/ dst[kv.key] # kv.value => mig'.bad
    <3>1. CASE DstGet(kv)
      BY <1>0, <3>1, ZenonT(60) DEF DstGet, Become, ToolState
    <3>2. CASE DstGetFails(kv)
      BY <1>0, <3>2, ZenonT(60) DEF DstGetFails, Become, ToolState
    <3> QED BY <1>6, <3>1, <3>2, ZenonT(60)
  <2>3. ToolTypes' /\ CompareInv'
    BY <2>1, <2>2, ZenonT(60) DEF ToolInv, ToolTypes, CompareInv, VerifiedIsThere
  <2>4. srcWrites = 0 => CopyInv'
    BY <2>1, <2>2, ZenonT(60) DEF ToolInv, CopyInv, There
  <2> QED BY <2>1, <2>3, <2>4, ZenonT(60) DEF ToolInv
<1>7. CASE Verified
  BY <1>0, <1>7 DEF Verified, Become, ToolInv, ToolTypes, ToolState, CompareInv, CopyInv, There, VerifiedIsThere
<1>8. ASSUME NEW k \in MigKey, NEW v \in {0, 2}, SrcWrite(k, v)
      PROVE  ToolInv'
  BY <1>0, <1>8 DEF SrcWrite, ToolInv, ToolTypes, CompareInv, VerifiedIsThere
<1>9. CASE UNCHANGED migrationVars
  BY <1>9, ZenonT(60) DEF migrationVars, ToolInv, ToolTypes, CompareInv, CopyInv, There, VerifiedIsThere
<1> QED BY <1>1, <1>2, <1>3, <1>4, <1>5, <1>6, <1>7, <1>8, <1>9, ZenonT(60) DEF MigrationNext

-----------------------------------------------------------------------------
(* The theorems. *)

IInv == StreamInv /\ OrderInv /\ ServingInv /\ ToolInv

\* The inductive invariant holds in every state of the process and the tool,
\* for every number of watches, tokens and keys, page size and token lifetime.
THEOREM ServingInvariance == MigrationSpec => []IInv
<1>1. MigrationInit => IInv
  BY StreamInitially, OrderInitially, ServingInitially, ToolInitially, ZenonT(60) DEF MigrationInit, ServingInit, IInv
<1>2. IInv /\ [MigrationNext]_allVars => IInv'
  <2> SUFFICES ASSUME IInv, [MigrationNext]_allVars
               PROVE  IInv'
    OBVIOUS
  <2>1. ASSUME ServingNext
        PROVE  StreamInv' /\ OrderInv' /\ ServingInv'
    <3>1. StreamNext \/ OpenStream \/ UNCHANGED streamVars \/ GraceTimeout \/ Exit
      BY <2>1, ZenonT(60) DEF ServingNext, Authenticate, CallUnary, CallWatch, Tick, gcLoop, UnaryReturns, Signal,
                  GraceDone, ServeFails
    <3> QED BY <2>1, <3>1, StreamStep, StreamOutside, OrderStep, OrderOutside, ServingStep DEF IInv
  <2>2. ASSUME UNCHANGED processVars
        PROVE  StreamInv' /\ OrderInv' /\ ServingInv'
    <3>1. StreamInv' /\ OrderInv'
      BY <2>2, StreamOutside, OrderOutside DEF processVars, IInv
    <3>2. ServingInv'
      BY <2>2, ZenonT(60) DEF processVars, servingVars, IInv, ServingInv, TokenHonoured
    <3> QED BY <3>1, <3>2
  <2>3. CASE MigrationNext
    <3>1. ServingNext \/ UNCHANGED processVars
      BY <2>3, ZenonT(60) DEF MigrationNext, Start, ReadPage, SourceFails, Verify, Verified, DstPut, DstPutFails,
                  DstGet, DstGetFails, SrcWrite, Become
    <3>2. ToolInv'
      BY <2>3, ToolStep DEF IInv
    <3> QED BY <2>1, <2>2, <3>1, <3>2 DEF IInv
  <2>4. CASE UNCHANGED allVars
    <3>1. ToolInv'
      BY <2>4, ZenonT(60) DEF allVars, migrationVars, IInv, ToolInv, ToolTypes, CompareInv, CopyInv, There, VerifiedIsThere
    <3> QED BY <2>2, <2>4, <3>1 DEF allVars, IInv
  <2> QED BY <2>3, <2>4
<1> QED BY <1>1, <1>2, PTL DEF MigrationSpec

\* A watch is cancelled only when its client asked, the store ended it or the
\* stream is over, whatever number of watches a stream has.
THEOREM CancelsOwn == MigrationSpec => []CancelsOwnWatch
<1>1. IInv => CancelsOwnWatch
  BY DEF IInv, StreamInv
<1> QED BY <1>1, ServingInvariance, PTL

\* The client of a watch gets its responses in the order they were made, none
\* lost and none twice, for every number of watches and every channel capacity.
THEOREM ResponsesAreInOrder == MigrationSpec => []ResponsesInOrder
<1>1. IInv => ResponsesInOrder
  BY ZenonT(60) DEF IInv, OrderInv
<1> QED BY <1>1, ServingInvariance, PTL

\* A token is admitted exactly during its lifetime, whatever its length and
\* whenever the garbage collector runs.
THEOREM TokensAreHonoured == MigrationSpec => []TokenHonoured
<1>1. IInv => TokenHonoured
  BY DEF IInv, ServingInv
<1> QED BY <1>1, ServingInvariance, PTL

\* A migration that reports success is complete, for every number of keys and
\* every page size, if the source was not written meanwhile.
THEOREM MigrationIsComplete == MigrationSpec => []MigrationComplete
<1>1. IInv => MigrationComplete
  BY ZenonT(60) DEF IInv, ToolInv, CopyInv, There, MigrationComplete
<1> QED BY <1>1, ServingInvariance, PTL

\* What verify has read is in the destination when the tool reports success,
\* also when the source was written meanwhile.
THEOREM VerifiedKeysAreThere == MigrationSpec => []VerifiedIsThere
<1>1. IInv => VerifiedIsThere
  BY ZenonT(60) DEF IInv, ToolInv, CompareInv
<1> QED BY <1>1, ServingInvariance, PTL

=============================================================================
