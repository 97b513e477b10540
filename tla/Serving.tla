------------------------------ MODULE Serving ------------------------------
(***************************************************************************)
(* The server process (cmd/server/main.go, pkg/server/server.go) and its   *)
(* authentication (pkg/server/auth.go), around a Watch stream and a unary  *)
(* call: which calls the interceptors let in, how tokens age and are       *)
(* collected, and what happens to the calls in progress when the process   *)
(* is told to stop.                                                        *)
(*                                                                         *)
(* Time is counted in ticks and kept as the age of the tokens and the      *)
(* time since the GC ticker last fired.                                    *)
(***************************************************************************)
EXTENDS WatchStream

CONSTANTS
    Token,   \* tokens
    TTL      \* lifetime of a token, and the period of the GC ticker

ASSUME ServingAssumption == TTL \in Nat \ {0}

VARIABLES
    proc,      \* what run is doing
    enabled,   \* users are configured
    tokens,    \* the tokens map
    age,       \* age[t]: ticks since t was issued, TTL + 1 once it has expired
    gcTicker,  \* ticks since the GC ticker fired, at most TTL
    unary,     \* a unary call: idle or running
    verdict    \* history: the last token looked up, with its age and the answer

servingVars == <<proc, enabled, tokens, age, gcTicker, unary, verdict>>

processVars == <<servingVars, streamVars>>

Expired == TTL + 1

-----------------------------------------------------------------------------
(* Tokens. *)

Authenticate(t) ==
    /\ proc = "serving" /\ enabled
    /\ t \notin tokens /\ age[t] = Expired
    /\ tokens' = tokens \cup {t}
    /\ age' = [age EXCEPT ![t] = 0]
    /\ UNCHANGED <<proc, enabled, gcTicker, unary, verdict, streamVars>>

Tick ==
    /\ proc # "exited"
    /\ age' = [t \in Token |-> IF age[t] < Expired THEN age[t] + 1 ELSE Expired]
    /\ gcTicker' = IF gcTicker < TTL THEN gcTicker + 1 ELSE gcTicker
    /\ UNCHANGED <<proc, enabled, tokens, unary, verdict, streamVars>>

\* Variant: a token goes at the end of its lifetime, not after it.
CollectableAtTTL == {t \in tokens : age[t] >= TTL}

\* now.After(expiresAt).
Collectable == {t \in tokens : age[t] > TTL}

\* Variant: a timer, which fires once, in place of the ticker.
gcLoopOnce ==
    /\ proc \in {"serving", "draining"} /\ gcTicker = TTL
    /\ tokens' = tokens \ Collectable
    /\ gcTicker' = Expired
    /\ UNCHANGED <<proc, enabled, age, unary, verdict, streamVars>>

\* The GC goroutine; it ends when Serve returns.
gcLoop ==
    /\ proc \in {"serving", "draining"} /\ gcTicker = TTL
    /\ tokens' = tokens \ Collectable
    /\ gcTicker' = 0
    /\ UNCHANGED <<proc, enabled, age, unary, verdict, streamVars>>

validate(t) == ~enabled \/ (t \in tokens /\ age[t] <= TTL)

\* The interceptors validate the token of a call once, when it starts.
Intercept(t) ==
    /\ proc = "serving"
    /\ verdict' = IF enabled THEN [token |-> t, age |-> age[t], admitted |-> validate(t)]
                  ELSE verdict
    /\ UNCHANGED <<proc, enabled, tokens, age, gcTicker>>

CallUnary(t) ==
    /\ unary = "idle"
    /\ Intercept(t)
    /\ unary' = IF validate(t) THEN "running" ELSE "idle"
    /\ UNCHANGED streamVars

CallWatch(t) ==
    /\ main.pc = "off"
    /\ Intercept(t)
    /\ IF validate(t) THEN OpenStream ELSE UNCHANGED streamVars
    /\ UNCHANGED unary

UnaryReturns ==
    /\ unary = "running" /\ proc # "exited"
    /\ unary' = "idle"
    /\ UNCHANGED <<proc, enabled, tokens, age, gcTicker, verdict, streamVars>>

-----------------------------------------------------------------------------
(* Stopping. *)

ProcStep(new) ==
    /\ proc' = new
    /\ UNCHANGED <<enabled, tokens, age, gcTicker, unary, verdict>>

\* SIGINT or SIGTERM: GracefulStop takes no new calls and waits for the old.
Signal ==
    /\ proc = "serving"
    /\ ProcStep("draining")
    /\ UNCHANGED streamVars

\* No call is left for GracefulStop to wait for.
Drained == main.pc \in {"off", "returned"} /\ unary = "idle"

GraceDone ==
    /\ proc = "draining" /\ Drained
    /\ ProcStep("served")
    /\ UNCHANGED streamVars

\* Variant: GracefulStop is given all the time it needs.
GraceTimeoutNever == FALSE /\ UNCHANGED processVars

\* After 10 seconds Stop closes the connections, which ends the contexts of
\* all calls.
GraceTimeout ==
    /\ proc = "draining"
    /\ ProcStep("served")
    /\ ctxDone' = TRUE
    /\ UNCHANGED <<main, watches, nextID, respCh, cancelledCh, sender, sendErr, reqCh,
                   loop, got, told, asked>>

\* The listener fails.
ServeFails ==
    /\ proc = "serving"
    /\ ProcStep("served")
    /\ UNCHANGED streamVars

\* Serve has returned: run closes the store and the Spanner client, and main
\* returns, which ends all goroutines.
Exit ==
    /\ proc = "served"
    /\ ProcStep("exited")
    /\ main' = [main EXCEPT !.pc = IF @ = "off" THEN "off" ELSE "returned"]
    /\ ctxDone' = TRUE /\ sender' = FALSE
    /\ loop' = [id \in Id |-> IF loop[id].pc = "off" THEN loop[id]
                             ELSE [loop[id] EXCEPT !.pc = "gone", !.done = TRUE, !.sub = "closed"]]
    /\ UNCHANGED <<watches, nextID, respCh, cancelledCh, sendErr, reqCh, got, told, asked>>

-----------------------------------------------------------------------------
ServingInit ==
    /\ StreamInit
    /\ proc = "serving"
    /\ enabled \in BOOLEAN
    /\ tokens = {} /\ age = [t \in Token |-> Expired] /\ gcTicker = 0
    /\ unary = "idle"
    /\ verdict = [token |-> "none", age |-> 0, admitted |-> TRUE]

ServingNext ==
    \/ \E t \in Token : Authenticate(t) \/ CallUnary(t) \/ CallWatch(t)
    \/ Tick \/ gcLoop \/ UnaryReturns
    \/ Signal \/ GraceDone \/ GraceTimeout \/ ServeFails \/ Exit
    \/ StreamNext /\ UNCHANGED servingVars

\* Time passes, as far as there are tokens, tickers and timers fire, and
\* goroutines run.  A unary call may take for ever, and a client may keep its
\* stream.
ServingFairness ==
    /\ WF_servingVars(tokens # {} /\ Tick) /\ WF_servingVars(tokens # {} /\ gcLoop)
    /\ WF_servingVars(GraceDone) /\ WF_servingVars(GraceTimeout) /\ WF_servingVars(Exit)
    /\ StreamFairness

-----------------------------------------------------------------------------
(* Properties. *)

\* A token is good from Authenticate until its lifetime is over, to the last
\* instant and not after it, whenever the garbage collector runs in between.
TokenHonoured ==
    verdict.token # "none" => (verdict.admitted <=> verdict.age <= TTL)

\* The map does not keep a token that has expired: it goes with a later sweep,
\* or with the process.
ExpiredTokenCollected ==
    \A t \in Token : t \in Collectable ~> t \notin Collectable \/ proc \in {"served", "exited"}

\* A process told to stop does exit, also when calls never return and clients
\* keep their streams open (GracefulStop alone would wait for them for ever).
ShutdownEnds ==
    proc = "draining" ~> proc = "exited"

=============================================================================
