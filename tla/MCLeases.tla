------------------------------ MODULE MCLeases ------------------------------
(* Instances of Leases for TLC. *)
EXTENDS Leases

CONSTANTS r1, r2, k1

\* Bound: the grant comes first.
GrantFirst == issued = {} => now = 1

\* The lease is kept alive past its first expiry.
KeptAlive == \E l \in LeaseID : promised[l] > 1 + TTL

\* Bound: the behaviours in which the lease is kept alive, those in which a
\* goroutine runs out of attempts, those with a restart and those with a revoke
\* are explored apart.
OneTrouble ==
    /\ KeptAlive => errors = 0
    /\ KeptAlive \/ errors >= Attempts => restarts = 0
    /\ KeptAlive \/ errors >= Attempts \/ restarts > 0 =>
          \A x \in Process : x[3] = "client" => proc[x].pc = "none"

\* Bound: no key is written with a lease that is gone; NoOrphanedKey is not about
\* such a key.
Leased == unleased = {}

\* Bound: after the time a lease that is not kept alive expires, errors,
\* restarts and clients' calls have been, and what is in progress goes on.
LateSteps ==
    now > 1 + TTL /\ ~KeptAlive =>
        Tick \/ (\E x \in Process : ProcessStep(x)) \/ (\E r \in Replica : LoadStep(r))
=============================================================================
