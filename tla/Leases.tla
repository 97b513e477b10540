------------------------------- MODULE Leases -------------------------------
(***************************************************************************)
(* The lease manager (pkg/store/lease.go) of every replica, over the       *)
(* tables the replicas share.  A lease is a row of kv_lease and, in the    *)
(* memory of each replica that granted or loaded it, a Lease object with   *)
(* an expiry time; only the row survives a restart, and a keepalive        *)
(* changes only the object.  Each replica runs a goroutine per lease it    *)
(* knows, which sleeps until the lease expires and then deletes its keys,  *)
(* its row and its object, in steps that errors and restarts interrupt.    *)
(*                                                                         *)
(* Of the kv table the module keeps, per key, the lease of the current row *)
(* and the leases of all rows compaction has left.  Time is counted in     *)
(* seconds.                                                                *)
(***************************************************************************)
EXTENDS Integers, FiniteSets

CONSTANTS
    Replica, LeaseID, Key,
    RevokeAt,     \* the replicas that clients send LeaseRevoke to
    Absent,       \* the current row of the key is missing or a tombstone
    TTL,          \* seconds a lease is granted for
    Attempts,     \* times an expiry goroutine tries to revoke (5)
    MaxTime,      \* bound: seconds modelled
    MaxErrors,    \* bound: Spanner errors
    MaxRestarts   \* bound: replica restarts

ASSUME LeaseAssumption ==
    /\ TTL \in Nat \ {0} /\ Attempts \in Nat \ {0}
    /\ MaxTime \in Nat \ {0} /\ MaxErrors \in Nat /\ MaxRestarts \in Nat
    /\ LeaseID \subseteq Nat \ {0}
    /\ Absent \notin Nat
    /\ RevokeAt \subseteq Replica

VARIABLES
    now,
    kvLease,    \* kvLease[l]: when the row of l says it was granted; 0: no row
    held,       \* held[k]: lease of the current row of k (0: none), or Absent
    carried,    \* carried[k]: leases of the rows of k still in the table
    known,      \* known[r]: leases in the map of replica r
    expiresAt,  \* expiresAt[r][l]: ExpiresAt of the Lease object
    loading,    \* loading[r]: rows gcLoop has read and not yet put in the map
    loaded,     \* loaded[r]: gcLoop of r has read kv_lease
    proc,       \* proc[x]: the goroutines that grant, expire or revoke
    errors, restarts,
    issued,     \* lease ids taken from nextID
    granted,    \* history: leases whose grant was answered
    promised,   \* history: the expiry the last keepalive answered promised
    raced,      \* history: keys a revocation missed, written after its scan
    unleased    \* history: keys written with a lease that had no row

shared == <<kvLease, held, carried>>

local == <<known, expiresAt, loading, loaded>>

history == <<issued, granted, promised, raced, unleased>>

leaseVars == <<now, shared, local, proc, errors, restarts, history>>

\* The goroutines loadLeases starts.  A second may run beside the first, when
\* kv_lease is read again and the lease left the map in between; bound: a third
\* one waits for the others to end.
Loader == {"loaded", "reloaded"}

\* The goroutine Grant starts, those loadLeases starts, a client's Revoke.
Process == Replica \X LeaseID \X ({"granted", "client"} \cup Loader)

ProcState == [pc : {"none", "grant", "sleep", "decide", "scan", "delete", "forget",
                    "backoff", "stuck"},
              wake : Nat, attempt : 1..Attempts, todo : SUBSET Key,
              failed : BOOLEAN, missed : SUBSET Key]

IdleProc == [pc |-> "none", wake |-> 0, attempt |-> 1, todo |-> {},
             failed |-> FALSE, missed |-> {}]

Record(l) == kvLease[l] # 0

Become(x, new) == proc' = [proc EXCEPT ![x] = new]

-----------------------------------------------------------------------------
(* Grant and keepalive. *)

\* The row is inserted, with its own commit timestamp ...
Grant(r, l) ==
    /\ l \notin issued /\ issued' = issued \cup {l}
    /\ now + TTL <= MaxTime
    /\ kvLease' = [kvLease EXCEPT ![l] = now]
    /\ Become(<<r, l, "granted">>, [IdleProc EXCEPT !.pc = "grant", !.wake = now + TTL])
    /\ UNCHANGED <<now, held, carried, local, errors, restarts, granted, promised, raced, unleased>>

\* ... then the map is filled in and the expiry goroutine started.
GrantDone(r, l) ==
    LET x == <<r, l, "granted">> IN
    /\ proc[x].pc = "grant"
    /\ known' = [known EXCEPT ![r] = @ \cup {l}]
    /\ expiresAt' = [expiresAt EXCEPT ![r][l] = proc[x].wake]
    /\ Become(x, [proc[x] EXCEPT !.pc = "sleep"])
    /\ granted' = granted \cup {l}
    /\ promised' = [promised EXCEPT ![l] = proc[x].wake]
    /\ UNCHANGED <<now, shared, loading, loaded, errors, restarts, issued, raced, unleased>>

\* A replica that does not know the lease answers TTL 0 and changes nothing.
Keepalive(r, l) ==
    /\ l \in granted /\ l \in known[r]
    /\ now + TTL <= MaxTime
    /\ expiresAt' = [expiresAt EXCEPT ![r][l] = now + TTL]
    /\ promised' = [promised EXCEPT ![l] = now + TTL]
    /\ UNCHANGED <<now, shared, known, loading, loaded, proc, errors, restarts, issued, granted, raced, unleased>>

-----------------------------------------------------------------------------
(* scheduleExpiry. *)

\* The timer fires.  A lease gone from the map needs nothing more.
TimerFires(x) ==
    /\ proc[x].pc = "sleep" /\ now >= proc[x].wake
    /\ Become(x, IF x[2] \in known[x[1]] THEN [proc[x] EXCEPT !.pc = "decide"]
                 ELSE IdleProc)
    /\ UNCHANGED <<now, shared, local, errors, restarts, history>>

\* A lease kept alive for more than another second is waited for again.
Decide(x) ==
    /\ proc[x].pc = "decide"
    /\ Become(x, IF expiresAt[x[1]][x[2]] - now > 1
                 THEN [proc[x] EXCEPT !.pc = "sleep", !.wake = expiresAt[x[1]][x[2]]]
                 ELSE [proc[x] EXCEPT !.pc = "scan"])
    /\ UNCHANGED <<now, shared, local, errors, restarts, history>>

-----------------------------------------------------------------------------
(* Revoke and expireLeaseKeys, by a client's call or a goroutine. *)

Revoke(r, l) ==
    /\ r \in RevokeAt /\ l \in granted
    /\ proc[<<r, l, "client">>].pc = "none"
    /\ Become(<<r, l, "client">>, [IdleProc EXCEPT !.pc = "scan"])
    /\ UNCHANGED <<now, shared, local, errors, restarts, history>>

\* The keys with a row of the lease, though a later row may have another.
Scan(x) ==
    /\ proc[x].pc = "scan"
    /\ Become(x, [proc[x] EXCEPT !.pc = "delete", !.failed = FALSE, !.missed = {},
                                 !.todo = {k \in Key : x[2] \in carried[k]}])
    /\ UNCHANGED <<now, shared, local, errors, restarts, history>>

\* Variant: the key is deleted whatever lease its current row has.
DeleteWhateverLease(h, l) == Absent

\* What DeleteIfLease leaves of a key that holds lease h.
AfterDeleteIfLease(h, l) == IF h = l THEN Absent ELSE h

DeleteOne(x, k) ==
    /\ proc[x].pc = "delete" /\ k \in proc[x].todo
    /\ held' = [held EXCEPT ![k] = AfterDeleteIfLease(@, x[2])]
    /\ Become(x, [proc[x] EXCEPT !.todo = @ \ {k}])
    /\ UNCHANGED <<now, kvLease, carried, local, errors, restarts, history>>

\* A delete fails: the others are still tried, the row is kept.
DeleteFails(x, k) ==
    /\ proc[x].pc = "delete" /\ k \in proc[x].todo
    /\ errors < MaxErrors /\ errors' = errors + 1
    /\ Become(x, [proc[x] EXCEPT !.todo = @ \ {k}, !.failed = TRUE])
    /\ UNCHANGED <<now, shared, local, restarts, history>>

\* Variant: failed deletes are not counted.
DropRecordAnyway(x) ==
    /\ proc[x].pc = "delete" /\ proc[x].todo = {}
    /\ kvLease' = [kvLease EXCEPT ![x[2]] = 0]
    /\ raced' = raced \cup proc[x].missed
    /\ Become(x, [proc[x] EXCEPT !.pc = "forget"])
    /\ UNCHANGED <<now, held, carried, local, errors, restarts, issued, granted, promised, unleased>>

\* All keys are done: the row of the lease goes.
DropRecord(x) ==
    /\ proc[x].pc = "delete" /\ proc[x].todo = {} /\ ~proc[x].failed
    /\ kvLease' = [kvLease EXCEPT ![x[2]] = 0]
    /\ raced' = raced \cup proc[x].missed
    /\ Become(x, [proc[x] EXCEPT !.pc = "forget"])
    /\ UNCHANGED <<now, held, carried, local, errors, restarts, issued, granted, promised, unleased>>

\* Last, the lease leaves the map.
Forget(x) ==
    /\ proc[x].pc = "forget"
    /\ known' = [known EXCEPT ![x[1]] = @ \ {x[2]}]
    /\ Become(x, IdleProc)
    /\ UNCHANGED <<now, shared, expiresAt, loading, loaded, errors, restarts, history>>

\* Variant: no second attempt.
AfterFailureGiveUp(x) ==
    IF x[3] = "client" THEN IdleProc
    ELSE [proc[x] EXCEPT !.pc = "stuck", !.todo = {}, !.failed = FALSE, !.missed = {}]

\* Revoke returns an error.  A client gets it; a goroutine waits and tries
\* again, Attempts times in all, and then gives up.
AfterFailure(x) ==
    IF x[3] = "client" THEN IdleProc
    ELSE [proc[x] EXCEPT !.pc = IF proc[x].attempt = Attempts THEN "stuck" ELSE "backoff",
                         !.todo = {}, !.failed = FALSE, !.missed = {}]

RevokeFails(x) ==
    /\ proc[x].pc \in {"scan", "delete"}
    /\ \/ errors < MaxErrors /\ errors' = errors + 1
       \/ proc[x].pc = "delete" /\ proc[x].failed /\ proc[x].todo = {} /\ UNCHANGED errors
    /\ Become(x, AfterFailure(x))
    /\ UNCHANGED <<now, shared, local, restarts, history>>

Retry(x) ==
    /\ proc[x].pc = "backoff"
    /\ Become(x, [proc[x] EXCEPT !.pc = "scan", !.attempt = @ + 1])
    /\ UNCHANGED <<now, shared, local, errors, restarts, history>>

-----------------------------------------------------------------------------
(* Restart and gcLoop. *)

Restart(r) ==
    /\ restarts < MaxRestarts /\ restarts' = restarts + 1
    /\ known' = [known EXCEPT ![r] = {}]
    /\ loading' = [loading EXCEPT ![r] = {}]
    /\ loaded' = [loaded EXCEPT ![r] = FALSE]
    /\ expiresAt' = [expiresAt EXCEPT ![r] = [l \in LeaseID |-> 0]]
    /\ proc' = [x \in Process |-> IF x[1] = r THEN IdleProc ELSE proc[x]]
    /\ UNCHANGED <<now, shared, errors, history>>

\* loadLeases reads kv_lease.
LoadScan(r) ==
    /\ ~loaded[r]
    /\ loading' = [loading EXCEPT ![r] = {<<l, kvLease[l]>> : l \in {j \in LeaseID : Record(j)}}]
    /\ loaded' = [loaded EXCEPT ![r] = TRUE]
    /\ UNCHANGED <<now, shared, known, expiresAt, proc, errors, restarts, history>>

\* Each row read is put in the map, unless the lease is there already.
LoadLease(r, row) ==
    LET l == row[1] IN
    /\ row \in loading[r]
    /\ loading' = [loading EXCEPT ![r] = @ \ {row}]
    /\ \/ l \in known[r] /\ UNCHANGED <<known, expiresAt, proc>>
       \/ /\ l \notin known[r]
          /\ known' = [known EXCEPT ![r] = @ \cup {l}]
          /\ expiresAt' = [expiresAt EXCEPT ![r][l] = row[2] + TTL]
          /\ \E loader \in Loader :
                /\ proc[<<r, l, loader>>].pc = "none"
                /\ loader = "reloaded" => proc[<<r, l, "loaded">>].pc # "none"
                /\ Become(<<r, l, loader>>,
                          [IdleProc EXCEPT !.pc = "sleep", !.wake = row[2] + TTL])
    /\ UNCHANGED <<now, shared, loaded, errors, restarts, history>>

\* An error in the middle of the rows: gcLoop reads kv_lease again.
LoadFails(r) ==
    /\ loading[r] # {}
    /\ errors < MaxErrors /\ errors' = errors + 1
    /\ loading' = [loading EXCEPT ![r] = {}]
    /\ loaded' = [loaded EXCEPT ![r] = FALSE]
    /\ UNCHANGED <<now, shared, known, expiresAt, proc, restarts, history>>

-----------------------------------------------------------------------------
(* Clients' writes, compaction, time. *)

\* Variant: a row without a lease counts as one of lease 0.
AttachAny(k, l) ==
    /\ held' = [held EXCEPT ![k] = l]
    /\ carried' = [carried EXCEPT ![k] = @ \cup {l}]
    /\ UNCHANGED <<now, kvLease, local, proc, errors, restarts, history>>

\* Put, CAS or Txn writes a row of k with lease l (0: none).  Whether the
\* lease exists is not checked.
Attach(k, l) ==
    /\ held' = [held EXCEPT ![k] = l]
    /\ carried' = [carried EXCEPT ![k] = @ \cup ({l} \ {0})]
    /\ proc' = [x \in Process |->
                  IF x[2] = l /\ proc[x].pc = "delete"
                  THEN [proc[x] EXCEPT !.missed = @ \cup {k}] ELSE proc[x]]
    /\ raced' = raced \ {k}
    /\ unleased' = IF l # 0 /\ ~Record(l) THEN unleased \cup {k} ELSE unleased \ {k}
    /\ UNCHANGED <<now, kvLease, local, errors, restarts, issued, granted, promised>>

\* Compaction deletes superseded rows.
CompactKey(k) ==
    /\ carried' = [carried EXCEPT ![k] = @ \cap {held[k]}]
    /\ UNCHANGED <<now, kvLease, held, local, proc, errors, restarts, history>>

\* A second passes.  The insert of a grant takes less than its TTL.
Tick ==
    /\ \A x \in Process : proc[x].pc = "grant" => now + 1 < proc[x].wake
    /\ now < MaxTime /\ now' = now + 1
    /\ UNCHANGED <<shared, local, proc, errors, restarts, history>>

-----------------------------------------------------------------------------
LeaseInit ==
    /\ now = 1
    /\ kvLease = [l \in LeaseID |-> 0]
    /\ held = [k \in Key |-> Absent]
    /\ carried = [k \in Key |-> {}]
    /\ known = [r \in Replica |-> {}]
    /\ expiresAt = [r \in Replica |-> [l \in LeaseID |-> 0]]
    /\ loading = [r \in Replica |-> {}]
    /\ loaded = [r \in Replica |-> FALSE]
    /\ proc = [x \in Process |-> IdleProc]
    /\ errors = 0 /\ restarts = 0
    /\ issued = {} /\ granted = {} /\ promised = [l \in LeaseID |-> 0] /\ raced = {} /\ unleased = {}

\* Steps the replicas' goroutines take by themselves.
ProcessStep(x) ==
    \/ GrantDone(x[1], x[2])
    \/ TimerFires(x) \/ Decide(x) \/ Scan(x) \/ DropRecord(x) \/ Forget(x)
    \/ \E k \in Key : DeleteOne(x, k)
    \/ proc[x].failed /\ RevokeFails(x)
    \/ Retry(x)

LoadStep(r) == LoadScan(r) \/ \E row \in loading[r] : LoadLease(r, row)

LeaseNext ==
    \/ \E x \in Process : ProcessStep(x) \/ RevokeFails(x) \/ \E k \in Key : DeleteFails(x, k)
    \/ \E r \in Replica : LoadStep(r) \/ LoadFails(r) \/ Restart(r)
    \/ \E r \in Replica, l \in LeaseID : Grant(r, l) \/ Keepalive(r, l) \/ Revoke(r, l)
    \/ \E k \in Key, l \in granted \cup {0} : Attach(k, l)
    \/ \E k \in Key : CompactKey(k)
    \/ Tick

LeaseSpec == LeaseInit /\ [][LeaseNext]_leaseVars

\* Time passes, and a replica that is up runs its goroutines.
LeaseFairness ==
    /\ WF_leaseVars(Tick)
    /\ \A x \in Process : WF_leaseVars(ProcessStep(x))
    /\ \A r \in Replica : WF_leaseVars(LoadStep(r))

FairLeaseSpec == LeaseSpec /\ LeaseFairness

-----------------------------------------------------------------------------
(* Properties. *)

\* Every variable holds what the code can put there.
LeaseTypeOK ==
    /\ now \in 1..MaxTime
    /\ kvLease \in [LeaseID -> 0..MaxTime]
    /\ held \in [Key -> LeaseID \cup {0, Absent}]
    /\ carried \in [Key -> SUBSET LeaseID]
    /\ known \in [Replica -> SUBSET LeaseID]
    /\ expiresAt \in [Replica -> [LeaseID -> Nat]]
    /\ loading \in [Replica -> SUBSET (LeaseID \X Nat)] /\ loaded \in [Replica -> BOOLEAN]
    /\ proc \in [Process -> ProcState]
    /\ errors \in 0..MaxErrors /\ restarts \in 0..MaxRestarts
    /\ issued \subseteq LeaseID /\ granted \subseteq LeaseID
    /\ promised \in [LeaseID -> Nat] /\ raced \subseteq Key /\ unleased \subseteq Key

\* "Deleting kv_lease on a partial scan would orphan keys": whatever fails or
\* restarts, and however many replicas expire or revoke a lease at once, its
\* row goes only when no key written before the keys were listed is left.  A
\* key written with the lease after that does outlive it.
NoOrphanedKey ==
    \A k \in Key : held[k] \in LeaseID /\ ~Record(held[k]) => k \in raced \cup unleased

\* Expiry deletes no key whose current row has another lease or none, though
\* the row was rewritten after the keys of the lease were listed.
KeyOutlivesOtherLease ==
    [][\A k \in Key : held[k] # Absent /\ held'[k] = Absent =>
          \E x \in Process : x[2] = held[k] /\ proc[x].pc = "delete"]_leaseVars

\* A lease is not expired more than a second before the time the last
\* keepalive the service answered has promised, unless it was revoked.
KeepaliveHonoured ==
    [][\A x \in Process : proc[x].pc = "decide" /\ proc'[x].pc = "scan" =>
          now + 1 >= promised[x[2]] \/ ~Record(x[2])]_leaseVars

\* A lease nobody keeps alive any longer is eventually gone, row and object,
\* on every replica, across restarts and errors: only when as many calls have
\* failed as a goroutine makes attempts may one have given up and left it.
LeaseExpires ==
    \A l \in LeaseID :
        l \in issued ~>
            [](\/ ~Record(l) /\ \A r \in Replica : l \notin known[r]
               \/ errors >= Attempts /\ \E x \in Process : x[2] = l /\ proc[x].pc = "stuck")

=============================================================================
