----------------------------- MODULE MCServing -----------------------------
(* Instances of Migration, and through it of Serving and WatchStream. *)
EXTENDS Migration

\* Calls, the Watch stream and the tool meet the shutdown of the server, and
\* each other only through it: they are explored one at a time.
ToolRuns == mig.pc # "off" \/ \E k \in MigKey : src[k] # 0 \/ dst[k] # 0

StreamRuns == main.pc # "off"

CallsRun == unary # "idle" \/ verdict.token # "none" \/ tokens # {} \/ gcTicker # 0

OneAtATime ==
    /\ ~(ToolRuns /\ (StreamRuns \/ CallsRun))
    /\ StreamRuns => ~enabled /\ unary = "idle" /\ tokens = {} /\ gcTicker = 0

\* A second watch comes when the first has been cancelled or has ended, and has
\* no events ...
SecondWatchLater ==
    nextID = 2 => (0 \in asked \/ loop[0].sub = "closed") /\ loop[1].pc # "push"

\* ... and a stream that breaks has had one watch.
BrokenStreamHasOne ==
    (ctxDone \/ ~sender \/ proc # "serving") /\ main.pc # "off" => nextID < 2

Explored == OneAtATime /\ SecondWatchLater /\ BrokenStreamHasOne

=============================================================================
