---------------------------- MODULE LeasesProofs ----------------------------
(***************************************************************************)
(* Proofs about Leases, for any number of replicas, leases and keys, any   *)
(* TTL and number of attempts, and any number of errors and restarts.      *)
(*                                                                         *)
(* NoOrphanedKey is not inductive: what it needs of a revocation in        *)
(* progress is ListedOrMissed, and that the scan finds a key by its rows   *)
(* needs CarriesLease.                                                     *)
(***************************************************************************)
EXTENDS Leases, TLAPS

\* SMT is the prover of a step that does not name another; it has a minute.
USE SMTT(60)

(* A key that holds a lease has a row of that lease for Scan to find. *)
CarriesLease == \A k \in Key : held[k] \in LeaseID => held[k] \in carried[k]

(* As long as no delete of a revocation has failed, a key that holds its     *)
(* lease is still to be deleted or was written after the keys were listed.   *)
ListedOrMissed ==
    \A x \in Process : proc[x].pc = "delete" /\ ~proc[x].failed =>
        \A k \in Key : held[k] = x[2] => k \in proc[x].todo \cup proc[x].missed

(* A goroutine that waits to try again has an attempt left. *)
AttemptLeft == \A x \in Process : proc[x].pc = "backoff" => proc[x].attempt < Attempts

LeaseIInv == LeaseTypeOK /\ CarriesLease /\ ListedOrMissed /\ AttemptLeft /\ NoOrphanedKey

(* A process that goes to sleep until w is one. *)
LEMMA Sleeps ==
    ASSUME NEW p \in ProcState, NEW w \in Nat, NEW c \in {"grant", "sleep"}
    PROVE  /\ [p EXCEPT !.pc = c, !.wake = w] \in ProcState
           /\ [p EXCEPT !.pc = c, !.wake = w].pc = c
BY ZenonT(60) DEF ProcState

\* A process that does nothing has its type.
LEMMA IdleType == IdleProc \in ProcState
BY LeaseAssumption DEF IdleProc, ProcState

\* No lease and no key.
LEMMA LeaseInitIInv == LeaseInit => LeaseIInv
<1> SUFFICES ASSUME LeaseInit PROVE LeaseIInv
  OBVIOUS
<1> USE LeaseAssumption
<1>2. LeaseTypeOK
  BY IdleType DEF LeaseInit, LeaseTypeOK
<1>3. CarriesLease /\ NoOrphanedKey
  BY ZenonT(60) DEF LeaseInit, CarriesLease, NoOrphanedKey
<1>4. ListedOrMissed /\ AttemptLeft
  BY DEF LeaseInit, ListedOrMissed, AttemptLeft, IdleProc
<1> QED BY <1>2, <1>3, <1>4 DEF LeaseIInv

(* What every step of a process that leaves the keys alone keeps: the process *)
(* becomes one that still has the keys of its lease listed or missed.         *)
LEMMA ProcessMoves ==
    ASSUME LeaseIInv, NEW x \in Process, NEW new \in ProcState, Become(x, new),
           UNCHANGED <<held, carried>>,
           new.pc = "backoff" => new.attempt < Attempts,
           new.pc = "delete" /\ ~new.failed =>
               \A k \in Key : held[k] = x[2] => k \in new.todo \cup new.missed
    PROVE  /\ proc' \in [Process -> ProcState]
           /\ CarriesLease' /\ ListedOrMissed' /\ AttemptLeft'
<1> USE DEF LeaseIInv
<1>1. proc \in [Process -> ProcState]
  BY DEF LeaseTypeOK
<1>2. proc' \in [Process -> ProcState]
  BY <1>1 DEF Become
<1>3. proc'[x] = new /\ \A y \in Process : y # x => proc'[y] = proc[y]
  BY <1>1 DEF Become
<1>4. CarriesLease'
  BY DEF CarriesLease
<1>5. ListedOrMissed'
  BY <1>3 DEF ListedOrMissed
<1>6. AttemptLeft'
  BY <1>3 DEF AttemptLeft
<1> QED BY <1>2, <1>4, <1>5, <1>6

(* Steps that touch neither keys nor processes. *)
LEMMA ProcessesStay ==
    ASSUME LeaseIInv, UNCHANGED <<held, carried, proc>>
    PROVE  CarriesLease' /\ ListedOrMissed' /\ AttemptLeft'
BY DEF LeaseIInv, CarriesLease, ListedOrMissed, AttemptLeft

(* No key is orphaned by a step that leaves the keys and all lease rows. *)
LEMMA NoneOrphaned ==
    ASSUME LeaseIInv, UNCHANGED held, UNCHANGED <<raced, unleased>>,
           \A l \in LeaseID : Record(l) => Record(l)'
    PROVE  NoOrphanedKey'
BY DEF LeaseIInv, NoOrphanedKey

\* A lease is granted, or kept alive.
LEMMA GrantPreserves ==
    ASSUME LeaseIInv, NEW r \in Replica, NEW l \in LeaseID,
           Grant(r, l) \/ GrantDone(r, l) \/ Keepalive(r, l)
    PROVE  LeaseIInv'
<1> USE LeaseAssumption
<1> DEFINE x == <<r, l, "granted">>
<1>0. x \in Process
  BY DEF Process
<1>1. CASE Grant(r, l)
  <2> DEFINE new == [IdleProc EXCEPT !.pc = "grant", !.wake = now + TTL]
  <2>0. now + TTL \in Nat
    BY DEF LeaseIInv, LeaseTypeOK
  <2>1. new \in ProcState /\ new.pc = "grant"
    BY <2>0, IdleType, Sleeps, ZenonT(60)
  <2>3. Become(x, new) /\ UNCHANGED <<held, carried>>
    BY <1>1 DEF Grant
  <2> HIDE DEF new, x
  <2>4. proc' \in [Process -> ProcState] /\ CarriesLease' /\ ListedOrMissed' /\ AttemptLeft'
    BY <1>0, <2>1, <2>3, ProcessMoves
  <2>5. LeaseTypeOK'
    BY <1>1, <2>4 DEF Grant, LeaseIInv, LeaseTypeOK, local
  <2>6. \A j \in LeaseID : Record(j) => Record(j)'
    BY <1>1 DEF Grant, LeaseIInv, LeaseTypeOK, Record
  <2>7. NoOrphanedKey'
    BY <1>1, <2>6, NoneOrphaned DEF Grant
  <2> QED BY <2>4, <2>5, <2>7 DEF LeaseIInv
<1>2. CASE GrantDone(r, l)
  <2> DEFINE new == [proc[x] EXCEPT !.pc = "sleep"]
  <2>1. proc[x] \in ProcState
    BY <1>0 DEF LeaseIInv, LeaseTypeOK
  <2>2. new \in ProcState /\ new.pc = "sleep" /\ proc[x].wake \in Nat
    BY <2>1 DEF ProcState
  <2>3. Become(x, new) /\ UNCHANGED <<held, carried>>
    BY <1>2 DEF GrantDone, shared
  <2>4. /\ known' = [known EXCEPT ![r] = @ \cup {l}]
        /\ expiresAt' = [expiresAt EXCEPT ![r][l] = proc[x].wake]
        /\ promised' = [promised EXCEPT ![l] = proc[x].wake]
        /\ granted' = granted \cup {l}
        /\ UNCHANGED <<now, kvLease, held, carried, loading, loaded, errors, restarts, issued, raced, unleased>>
    BY <1>2 DEF GrantDone, shared
  <2> HIDE DEF new, x
  <2>5. proc' \in [Process -> ProcState] /\ CarriesLease' /\ ListedOrMissed' /\ AttemptLeft'
    BY <1>0, <2>2, <2>3, ProcessMoves
  <2>6. LeaseTypeOK'
    BY <2>2, <2>4, <2>5 DEF LeaseIInv, LeaseTypeOK
  <2>7. NoOrphanedKey'
    BY <2>4, NoneOrphaned DEF Record
  <2> QED BY <2>5, <2>6, <2>7 DEF LeaseIInv
<1>3. CASE Keepalive(r, l)
  <2>1. LeaseTypeOK'
    BY <1>3 DEF Keepalive, LeaseIInv, LeaseTypeOK, shared
  <2>2. NoOrphanedKey'
    BY <1>3, NoneOrphaned DEF Keepalive, shared, Record
  <2> QED BY <1>3, <2>1, <2>2, ProcessesStay DEF Keepalive, shared, LeaseIInv
<1> QED BY <1>1, <1>2, <1>3

(* The steps of a goroutine or of Revoke that change no table. *)
LEMMA WaitingPreserves ==
    ASSUME LeaseIInv, NEW x \in Process,
           TimerFires(x) \/ Decide(x) \/ Retry(x) \/ Forget(x)
    PROVE  LeaseIInv'
<1> USE LeaseAssumption
<1>0. proc[x] \in ProcState /\ IdleProc \in ProcState
  BY IdleType DEF LeaseIInv, LeaseTypeOK
<1>1. x[1] \in Replica /\ x[2] \in LeaseID
  BY DEF Process
<1>2. PICK new \in ProcState :
         /\ Become(x, new) /\ new.pc # "delete"
         /\ new.pc = "backoff" => new.attempt < Attempts
  <2>1. CASE TimerFires(x)
    <3>1. [proc[x] EXCEPT !.pc = "decide"] \in ProcState
      BY <1>0 DEF ProcState
    <3>2. [proc[x] EXCEPT !.pc = "decide"].pc = "decide" /\ IdleProc.pc = "none"
      BY <1>0 DEF ProcState, IdleProc
    <3> QED BY <2>1, <3>1, <3>2, <1>0, ZenonT(60) DEF TimerFires
  <2>2. CASE Decide(x)
    <3>0. expiresAt \in [Replica -> [LeaseID -> Nat]]
      BY DEF LeaseIInv, LeaseTypeOK
    <3>1. expiresAt[x[1]][x[2]] \in Nat
      BY <1>1, <3>0, ZenonT(60)
    <3>2. /\ [proc[x] EXCEPT !.pc = "sleep", !.wake = expiresAt[x[1]][x[2]]] \in ProcState
          /\ [proc[x] EXCEPT !.pc = "sleep", !.wake = expiresAt[x[1]][x[2]]].pc = "sleep"
      BY <1>0, <3>1, Sleeps, ZenonT(60)
    <3>3. /\ [proc[x] EXCEPT !.pc = "scan"] \in ProcState
          /\ [proc[x] EXCEPT !.pc = "scan"].pc = "scan"
      BY <1>0 DEF ProcState
    <3> QED BY <2>2, <3>2, <3>3, ZenonT(60) DEF Decide
  <2>3. CASE Retry(x)
    <3>1. proc[x].attempt \in 1..Attempts /\ proc[x].attempt < Attempts
      BY <1>0, <2>3 DEF Retry, LeaseIInv, AttemptLeft, ProcState
    <3>2. proc[x].attempt + 1 \in 1..Attempts
      BY <3>1
    <3>3. /\ [proc[x] EXCEPT !.pc = "scan", !.attempt = @ + 1] \in ProcState
          /\ [proc[x] EXCEPT !.pc = "scan", !.attempt = @ + 1].pc = "scan"
      BY <1>0, <3>2, ZenonT(60) DEF ProcState
    <3> QED BY <2>3, <3>3, ZenonT(60) DEF Retry
  <2>4. CASE Forget(x)
    BY <2>4, <1>0 DEF Forget, IdleProc
  <2> QED BY <2>1, <2>2, <2>3, <2>4
<1>3. /\ UNCHANGED <<now, kvLease, held, carried, expiresAt, loading, loaded, errors,
                     restarts, issued, granted, promised, raced, unleased>>
      /\ known' \in {known, [known EXCEPT ![x[1]] = @ \ {x[2]}]}
  BY DEF TimerFires, Decide, Retry, Forget, shared, local, history
<1>4. proc' \in [Process -> ProcState] /\ CarriesLease' /\ ListedOrMissed' /\ AttemptLeft'
  BY <1>2, <1>3, ProcessMoves
<1>5. LeaseTypeOK'
  BY <1>1, <1>3, <1>4 DEF LeaseIInv, LeaseTypeOK
<1>6. NoOrphanedKey'
  BY <1>3, NoneOrphaned DEF Record
<1> QED BY <1>4, <1>5, <1>6 DEF LeaseIInv

(* Scan lists every key that holds the lease, because of CarriesLease. *)
LEMMA ScanPreserves ==
    ASSUME LeaseIInv, NEW x \in Process, Scan(x)
    PROVE  LeaseIInv'
<1> DEFINE listed == {k \in Key : x[2] \in carried[k]}
           new == [proc[x] EXCEPT !.pc = "delete", !.failed = FALSE, !.missed = {},
                                  !.todo = listed]
<1>0. proc[x] \in ProcState /\ x[2] \in LeaseID
  BY DEF LeaseIInv, LeaseTypeOK, Process
<1>1. /\ new \in ProcState /\ new.pc = "delete"
      /\ new.todo = listed
  <2> HIDE DEF listed
  <2>1. listed \subseteq Key
    BY DEF listed
  <2> QED BY <1>0, <2>1, ZenonT(60) DEF ProcState
<1>2. \A k \in Key : held[k] = x[2] => k \in listed
  BY <1>0 DEF LeaseIInv, CarriesLease
<1>3. Become(x, new)
  BY DEF Scan
<1>4. UNCHANGED <<now, kvLease, held, carried, known, expiresAt, loading, loaded, errors,
                  restarts, issued, granted, promised, raced, unleased>>
  BY DEF Scan, shared, local, history
<1> HIDE DEF new, listed
<1>5. proc' \in [Process -> ProcState] /\ CarriesLease' /\ ListedOrMissed' /\ AttemptLeft'
  BY <1>1, <1>2, <1>3, <1>4, ProcessMoves
<1>6. LeaseTypeOK'
  BY <1>4, <1>5 DEF LeaseIInv, LeaseTypeOK
<1>7. NoOrphanedKey'
  BY <1>4, NoneOrphaned DEF Record
<1> QED BY <1>5, <1>6, <1>7 DEF LeaseIInv

(* A delete takes the key away from the lease or fails; either way the key    *)
(* need not be listed any longer, or the revocation counts as failed.         *)
LEMMA DeletePreserves ==
    ASSUME LeaseIInv, NEW x \in Process, NEW k \in Key, DeleteOne(x, k) \/ DeleteFails(x, k)
    PROVE  LeaseIInv'
<1> USE LeaseAssumption
<1>0. /\ proc[x] \in ProcState /\ x[2] \in LeaseID /\ proc[x].pc = "delete"
      /\ proc \in [Process -> ProcState] /\ held \in [Key -> LeaseID \cup {0, Absent}]
  BY DEF LeaseIInv, LeaseTypeOK, Process, DeleteOne, DeleteFails
<1>1. CASE DeleteOne(x, k)
  <2> DEFINE new == [proc[x] EXCEPT !.todo = @ \ {k}]
  <2>1. /\ new \in ProcState /\ new.pc = "delete" /\ new.todo = proc[x].todo \ {k}
        /\ new.failed = proc[x].failed /\ new.missed = proc[x].missed
    BY <1>0 DEF ProcState
  <2>2. Become(x, new)
    BY <1>1 DEF DeleteOne
  <2>3. /\ held' = [held EXCEPT ![k] = AfterDeleteIfLease(@, x[2])]
        /\ UNCHANGED <<now, kvLease, carried, known, expiresAt, loading, loaded, errors,
                       restarts, issued, granted, promised, raced, unleased>>
    BY <1>1 DEF DeleteOne, local, history
  <2> HIDE DEF new
  <2>4. proc'[x] = new /\ \A y \in Process : y # x => proc'[y] = proc[y]
    BY <1>0, <2>2 DEF Become
  <2>5. proc' \in [Process -> ProcState]
    BY <1>0, <2>1, <2>2 DEF Become
  <2>6. /\ held'[k] \in {held[k], Absent} /\ held'[k] # x[2]
        /\ \A j \in Key : j # k => held'[j] = held[j]
        /\ held' \in [Key -> LeaseID \cup {0, Absent}]
    BY <1>0, <2>3, ZenonT(60) DEF AfterDeleteIfLease
  <2>7. Absent \notin LeaseID
    BY ZenonT(60)
  <2>8. CarriesLease' /\ NoOrphanedKey'
    BY <2>3, <2>6, <2>7 DEF CarriesLease, NoOrphanedKey, LeaseIInv, Record
  <2>9. ListedOrMissed'
    <3> SUFFICES ASSUME NEW y \in Process, proc'[y].pc = "delete", ~proc'[y].failed,
                        NEW j \in Key, held'[j] = y[2]
                 PROVE  j \in proc'[y].todo \cup proc'[y].missed
      BY DEF ListedOrMissed
    <3>1. y[2] \in LeaseID
      BY DEF Process
    <3>2. held[j] = y[2] /\ (y = x => j # k)
      BY <2>6, <2>7, <3>1
    <3>3. CASE y = x
      BY <1>0, <2>1, <2>4, <3>2, <3>3 DEF LeaseIInv, ListedOrMissed
    <3>4. CASE y # x
      BY <2>4, <3>2, <3>4 DEF LeaseIInv, ListedOrMissed
    <3> QED BY <3>3, <3>4
  <2>10. AttemptLeft'
    BY <2>1, <2>4 DEF AttemptLeft, LeaseIInv
  <2>11. LeaseTypeOK'
    BY <2>3, <2>5, <2>6 DEF LeaseIInv, LeaseTypeOK
  <2> QED BY <2>8, <2>9, <2>10, <2>11 DEF LeaseIInv
<1>2. CASE DeleteFails(x, k)
  <2> DEFINE new == [proc[x] EXCEPT !.todo = @ \ {k}, !.failed = TRUE]
  <2>1. new \in ProcState /\ new.pc = "delete" /\ new.failed
    BY <1>0, ZenonT(60) DEF ProcState
  <2>2. Become(x, new)
    BY <1>2 DEF DeleteFails
  <2>3. /\ errors < MaxErrors /\ errors' = errors + 1
        /\ UNCHANGED <<now, kvLease, held, carried, known, expiresAt, loading, loaded,
                       restarts, issued, granted, promised, raced, unleased>>
    BY <1>2 DEF DeleteFails, shared, local, history
  <2> HIDE DEF new
  <2>4. proc' \in [Process -> ProcState] /\ CarriesLease' /\ ListedOrMissed' /\ AttemptLeft'
    BY <2>1, <2>2, <2>3, ProcessMoves, ZenonT(60)
  <2>5. LeaseTypeOK'
    BY <2>3, <2>4 DEF LeaseIInv, LeaseTypeOK
  <2>6. NoOrphanedKey'
    BY <2>3, NoneOrphaned DEF Record
  <2> QED BY <2>4, <2>5, <2>6 DEF LeaseIInv
<1> QED BY <1>1, <1>2

(* The row goes when nothing is left to delete: the keys that still hold the  *)
(* lease are those written after the keys were listed, which raced records.   *)
LEMMA DropPreserves ==
    ASSUME LeaseIInv, NEW x \in Process, DropRecord(x)
    PROVE  LeaseIInv'
<1> USE LeaseAssumption
<1>0. proc[x] \in ProcState /\ x[2] \in LeaseID /\ kvLease \in [LeaseID -> 0..MaxTime]
  BY DEF LeaseIInv, LeaseTypeOK, Process
<1>1. /\ proc[x].pc = "delete" /\ proc[x].todo = {} /\ ~proc[x].failed
      /\ kvLease' = [kvLease EXCEPT ![x[2]] = 0]
      /\ raced' = raced \cup proc[x].missed
      /\ UNCHANGED <<now, held, carried, known, expiresAt, loading, loaded, errors, restarts,
                     issued, granted, promised, unleased>>
  BY DEF DropRecord, local
<1> DEFINE new == [proc[x] EXCEPT !.pc = "forget"]
<1>2. new \in ProcState /\ new.pc = "forget" /\ Become(x, new) /\ proc[x].missed \subseteq Key
  BY <1>0 DEF ProcState, DropRecord
<1> HIDE DEF new
<1>3. proc' \in [Process -> ProcState] /\ CarriesLease' /\ ListedOrMissed' /\ AttemptLeft'
  BY <1>1, <1>2, ProcessMoves
<1>4. 0 \in 0..MaxTime
  OBVIOUS
<1>5. LeaseTypeOK'
  BY <1>0, <1>1, <1>2, <1>3, <1>4, ZenonT(60) DEF LeaseIInv, LeaseTypeOK
<1>6. NoOrphanedKey'
  <2> SUFFICES ASSUME NEW k \in Key, held[k] \in LeaseID, ~Record(held[k])'
               PROVE  k \in raced' \cup unleased'
    BY <1>1 DEF NoOrphanedKey
  <2>1. CASE held[k] = x[2]
    BY <1>1, <2>1, ZenonT(60) DEF LeaseIInv, ListedOrMissed
  <2>2. CASE held[k] # x[2]
    <3>1. ~Record(held[k])
      BY <1>0, <1>1, <2>2 DEF Record
    <3> QED BY <3>1, <1>1, ZenonT(60) DEF LeaseIInv, NoOrphanedKey
  <2> QED BY <2>1, <2>2
<1> QED BY <1>3, <1>5, <1>6 DEF LeaseIInv

(* Revocations that start or fail. *)
LEMMA RevokePreserves ==
    ASSUME LeaseIInv, NEW x \in Process,
           RevokeFails(x) \/ \E r \in Replica, l \in LeaseID : x = <<r, l, "client">> /\ Revoke(r, l)
    PROVE  LeaseIInv'
<1> USE LeaseAssumption
<1>0. proc[x] \in ProcState
  BY DEF LeaseIInv, LeaseTypeOK
<1>1. PICK new \in ProcState :
         /\ Become(x, new) /\ new.pc # "delete"
         /\ new.pc = "backoff" => new.attempt < Attempts
  <2>1. CASE RevokeFails(x)
    <3>1. Become(x, AfterFailure(x))
      BY <2>1 DEF RevokeFails
    <3>2. AfterFailure(x) \in ProcState /\ AfterFailure(x).pc \in {"none", "stuck", "backoff"}
      BY <1>0, IdleType, ZenonT(60) DEF AfterFailure, ProcState, IdleProc
    <3>3. AfterFailure(x).pc = "backoff" => AfterFailure(x).attempt = proc[x].attempt /\ proc[x].attempt # Attempts
      BY <1>0 DEF AfterFailure, ProcState, IdleProc
    <3>4. proc[x].attempt \in 1..Attempts
      BY <1>0 DEF ProcState
    <3>5. AfterFailure(x).pc = "backoff" => AfterFailure(x).attempt < Attempts
      BY <3>3, <3>4
    <3> QED BY <3>1, <3>2, <3>5
  <2>2. CASE \E r \in Replica, l \in LeaseID : x = <<r, l, "client">> /\ Revoke(r, l)
    <3>1. Become(x, [IdleProc EXCEPT !.pc = "scan"])
      BY <2>2 DEF Revoke
    <3>2. [IdleProc EXCEPT !.pc = "scan"] \in ProcState /\ [IdleProc EXCEPT !.pc = "scan"].pc = "scan"
      BY IdleType DEF ProcState
    <3> QED BY <3>1, <3>2, ZenonT(60)
  <2> QED BY <2>1, <2>2
<1>2. /\ errors' \in {errors, errors + 1} /\ (errors' = errors + 1 => errors < MaxErrors)
      /\ UNCHANGED <<now, kvLease, held, carried, known, expiresAt, loading, loaded,
                     restarts, issued, granted, promised, raced, unleased>>
  <2>1. errors \in Nat
    BY DEF LeaseIInv, LeaseTypeOK
  <2>2. CASE RevokeFails(x)
    <3>1. errors' = errors \/ (errors < MaxErrors /\ errors' = errors + 1)
      BY <2>2, ZenonT(60) DEF RevokeFails
    <3>2. UNCHANGED <<now, kvLease, held, carried, known, expiresAt, loading, loaded,
                      restarts, issued, granted, promised, raced, unleased>>
      BY <2>2, ZenonT(60) DEF RevokeFails, shared, local, history
    <3> QED BY <2>1, <3>1, <3>2
  <2>3. CASE \E r \in Replica, l \in LeaseID : x = <<r, l, "client">> /\ Revoke(r, l)
    BY <2>1, <2>3 DEF Revoke, shared, local, history
  <2> QED BY <2>2, <2>3
<1>3. proc' \in [Process -> ProcState] /\ CarriesLease' /\ ListedOrMissed' /\ AttemptLeft'
  BY <1>1, <1>2, ProcessMoves, ZenonT(60)
<1>4. LeaseTypeOK'
  BY <1>2, <1>3 DEF LeaseIInv, LeaseTypeOK
<1>5. NoOrphanedKey'
  BY <1>2, NoneOrphaned DEF Record
<1> QED BY <1>3, <1>4, <1>5 DEF LeaseIInv

(* A restart forgets the processes of the replica, and nothing of the tables. *)
LEMMA RestartPreserves ==
    ASSUME LeaseIInv, NEW r \in Replica, Restart(r)
    PROVE  LeaseIInv'
<1> USE LeaseAssumption
<1>1. /\ restarts < MaxRestarts /\ restarts' = restarts + 1
      /\ known' = [known EXCEPT ![r] = {}]
      /\ loading' = [loading EXCEPT ![r] = {}]
      /\ loaded' = [loaded EXCEPT ![r] = FALSE]
      /\ expiresAt' = [expiresAt EXCEPT ![r] = [l \in LeaseID |-> 0]]
      /\ proc' = [x \in Process |-> IF x[1] = r THEN IdleProc ELSE proc[x]]
      /\ UNCHANGED <<now, kvLease, held, carried, errors, issued, granted, promised, raced, unleased>>
  BY ZenonT(60) DEF Restart, shared, history
<1>2. proc' \in [Process -> ProcState]
  BY <1>1, IdleType DEF LeaseIInv, LeaseTypeOK
<1>3. \A x \in Process : proc'[x] = proc[x] \/ proc'[x].pc = "none"
  BY <1>1, ZenonT(60) DEF IdleProc
<1>4. CarriesLease' /\ NoOrphanedKey'
  BY <1>1, ZenonT(60) DEF LeaseIInv, CarriesLease, NoOrphanedKey, Record
<1>5. ListedOrMissed' /\ AttemptLeft'
  BY <1>1, <1>3, ZenonT(60) DEF LeaseIInv, ListedOrMissed, AttemptLeft
<1>6. expiresAt' \in [Replica -> [LeaseID -> Nat]]
  BY <1>1, ZenonT(60) DEF LeaseIInv, LeaseTypeOK
<1>7. LeaseTypeOK'
  BY <1>1, <1>2, <1>6 DEF LeaseIInv, LeaseTypeOK
<1> QED BY <1>4, <1>5, <1>7 DEF LeaseIInv

\* A replica loads the leases of the table.
LEMMA LoadPreserves ==
    ASSUME LeaseIInv, NEW r \in Replica, LoadStep(r) \/ LoadFails(r)
    PROVE  LeaseIInv'
<1> USE LeaseAssumption
<1>1. CASE LoadScan(r)
  <2>1. /\ loading' = [loading EXCEPT ![r] = {<<l, kvLease[l]>> : l \in {j \in LeaseID : Record(j)}}]
        /\ loaded' = [loaded EXCEPT ![r] = TRUE]
        /\ UNCHANGED <<now, kvLease, held, carried, known, expiresAt, proc, errors, restarts,
                       issued, granted, promised, raced, unleased>>
    BY <1>1, ZenonT(60) DEF LoadScan, shared, history
  <2>2. {<<l, kvLease[l]>> : l \in {j \in LeaseID : Record(j)}} \in SUBSET (LeaseID \X Nat)
    BY DEF LeaseIInv, LeaseTypeOK
  <2>3. LeaseTypeOK'
    BY <2>1, <2>2, ZenonT(60) DEF LeaseIInv, LeaseTypeOK
  <2>4. NoOrphanedKey'
    BY <2>1, NoneOrphaned, ZenonT(60) DEF Record
  <2> QED BY <2>1, <2>3, <2>4, ProcessesStay, ZenonT(60) DEF LeaseIInv
<1>2. CASE LoadFails(r)
  <2>1. /\ errors < MaxErrors /\ errors' = errors + 1
        /\ loading' = [loading EXCEPT ![r] = {}]
        /\ loaded' = [loaded EXCEPT ![r] = FALSE]
        /\ UNCHANGED <<now, kvLease, held, carried, known, expiresAt, proc, restarts,
                       issued, granted, promised, raced, unleased>>
    BY <1>2 DEF LoadFails, shared, history
  <2>3. LeaseTypeOK'
    BY <2>1 DEF LeaseIInv, LeaseTypeOK
  <2>4. NoOrphanedKey'
    BY <2>1, NoneOrphaned DEF Record
  <2> QED BY <2>1, <2>3, <2>4, ProcessesStay DEF LeaseIInv
<1>3. ASSUME NEW row \in loading[r], LoadLease(r, row) PROVE LeaseIInv'
  <2> DEFINE l == row[1]
             x(loader) == <<r, l, loader>>
             new == [IdleProc EXCEPT !.pc = "sleep", !.wake = row[2] + TTL]
  <2>0. loading \in [Replica -> SUBSET (LeaseID \X Nat)]
    BY DEF LeaseIInv, LeaseTypeOK
  <2>1. row \in LeaseID \X Nat
    BY <2>0
  <2>2. l \in LeaseID /\ row[2] + TTL \in Nat /\ \A loader \in Loader : x(loader) \in Process
    BY <2>1 DEF Process
  <2>3. new \in ProcState /\ new.pc = "sleep"
    BY <2>2, IdleType, Sleeps, ZenonT(60)
  <2>4. /\ loading' = [loading EXCEPT ![r] = @ \ {row}]
        /\ UNCHANGED <<now, kvLease, held, carried, loaded, errors, restarts,
                       issued, granted, promised, raced, unleased>>
        /\ \/ UNCHANGED <<known, expiresAt, proc>>
           \/ /\ known' = [known EXCEPT ![r] = @ \cup {l}]
              /\ expiresAt' = [expiresAt EXCEPT ![r][l] = row[2] + TTL]
              /\ \E loader \in Loader : Become(x(loader), new)
    BY <1>3 DEF LoadLease, shared, history
  <2> HIDE DEF l, x, new
  <2>5. proc' \in [Process -> ProcState] /\ CarriesLease' /\ ListedOrMissed' /\ AttemptLeft'
    <3>1. CASE UNCHANGED proc
      BY <2>4, <3>1, ProcessesStay, ZenonT(60) DEF LeaseIInv, LeaseTypeOK
    <3>2. ASSUME NEW loader \in Loader, Become(x(loader), new)
          PROVE  proc' \in [Process -> ProcState] /\ CarriesLease' /\ ListedOrMissed' /\ AttemptLeft'
      BY <2>2, <2>3, <2>4, <3>2, ProcessMoves, ZenonT(60)
    <3> QED BY <2>4, <3>1, <3>2
  <2>6. loading' \in [Replica -> SUBSET (LeaseID \X Nat)]
    BY <2>0, <2>4
  <2>7. known' \in [Replica -> SUBSET LeaseID] /\ expiresAt' \in [Replica -> [LeaseID -> Nat]]
    <3>1. known \in [Replica -> SUBSET LeaseID] /\ expiresAt \in [Replica -> [LeaseID -> Nat]]
      BY DEF LeaseIInv, LeaseTypeOK
    <3>2. known[r] \cup {l} \in SUBSET LeaseID
      BY <2>2, <3>1
    <3>3. [expiresAt[r] EXCEPT ![l] = row[2] + TTL] \in [LeaseID -> Nat]
      BY <2>2, <3>1
    <3> QED BY <2>4, <3>1, <3>2, <3>3
  <2>8. LeaseTypeOK'
    BY <2>4, <2>5, <2>6, <2>7, ZenonT(60) DEF LeaseIInv, LeaseTypeOK
  <2>9. NoOrphanedKey'
    BY <2>4, NoneOrphaned DEF Record
  <2> QED BY <2>5, <2>8, <2>9, ZenonT(60) DEF LeaseIInv
<1> QED BY <1>1, <1>2, <1>3 DEF LoadStep

(* A write gives a key a lease: every revocation that has listed its keys     *)
(* has missed it, and if the lease is gone already the key is unleased.       *)
LEMMA AttachPreserves ==
    ASSUME LeaseIInv, NEW k \in Key, NEW l \in granted \cup {0}, Attach(k, l)
    PROVE  LeaseIInv'
<1> USE LeaseAssumption
<1>0. /\ l \in LeaseID \cup {0} /\ proc \in [Process -> ProcState]
      /\ held \in [Key -> LeaseID \cup {0, Absent}] /\ carried \in [Key -> SUBSET LeaseID]
  BY DEF LeaseIInv, LeaseTypeOK
<1>1. /\ held' = [held EXCEPT ![k] = l]
      /\ carried' = [carried EXCEPT ![k] = @ \cup ({l} \ {0})]
      /\ proc' = [x \in Process |-> IF x[2] = l /\ proc[x].pc = "delete"
                                    THEN [proc[x] EXCEPT !.missed = @ \cup {k}] ELSE proc[x]]
      /\ raced' = raced \ {k}
      /\ unleased' = IF l # 0 /\ ~Record(l) THEN unleased \cup {k} ELSE unleased \ {k}
      /\ UNCHANGED <<now, kvLease, known, expiresAt, loading, loaded, errors, restarts,
                     issued, granted, promised>>
  BY DEF Attach, local
<1>2. ASSUME NEW x \in Process
      PROVE  /\ proc'[x] \in ProcState /\ proc'[x].pc = proc[x].pc
             /\ proc'[x].attempt = proc[x].attempt /\ proc'[x].failed = proc[x].failed
             /\ proc'[x].todo = proc[x].todo /\ proc[x].missed \subseteq proc'[x].missed
             /\ x[2] = l /\ proc[x].pc = "delete" => k \in proc'[x].missed
  <2>1. proc[x] \in ProcState
    BY <1>0
  <2>2. CASE x[2] = l /\ proc[x].pc = "delete"
    <3>1. proc'[x] = [proc[x] EXCEPT !.missed = @ \cup {k}]
      BY <1>1, <2>2
    <3> QED BY <2>1, <3>1 DEF ProcState
  <2>3. CASE ~(x[2] = l /\ proc[x].pc = "delete")
    BY <1>1, <2>1, <2>3
  <2> QED BY <2>2, <2>3, ZenonT(60)
<1>3. proc' \in [Process -> ProcState]
  BY <1>1, <1>2
<1>4. /\ held' \in [Key -> LeaseID \cup {0, Absent}] /\ carried' \in [Key -> SUBSET LeaseID]
      /\ held'[k] = l /\ \A j \in Key : j # k => held'[j] = held[j]
      /\ carried'[k] = carried[k] \cup ({l} \ {0}) /\ \A j \in Key : j # k => carried'[j] = carried[j]
  BY <1>0, <1>1
<1>5. CarriesLease'
  BY <1>4 DEF LeaseIInv, CarriesLease
<1>6. NoOrphanedKey'
  BY <1>1, <1>4 DEF LeaseIInv, NoOrphanedKey, Record
<1>7. AttemptLeft'
  BY <1>2, ZenonT(60) DEF LeaseIInv, AttemptLeft
<1>8. ListedOrMissed'
  <2> SUFFICES ASSUME NEW x \in Process, proc'[x].pc = "delete", ~proc'[x].failed,
                      NEW j \in Key, held'[j] = x[2]
               PROVE  j \in proc'[x].todo \cup proc'[x].missed
    BY DEF ListedOrMissed
  <2>1. proc[x].pc = "delete" /\ ~proc[x].failed
    BY <1>2, ZenonT(60)
  <2>2. CASE j = k
    BY <1>2, <1>4, <2>1, <2>2, ZenonT(60)
  <2>3. CASE j # k
    <3>1. j \in proc[x].todo \cup proc[x].missed
      BY <1>4, <2>1, <2>3, ZenonT(60) DEF LeaseIInv, ListedOrMissed
    <3> QED BY <3>1, <1>2, ZenonT(60)
  <2> QED BY <2>2, <2>3, ZenonT(60)
<1>9. LeaseTypeOK'
  BY <1>1, <1>3, <1>4 DEF LeaseIInv, LeaseTypeOK
<1> QED BY <1>5, <1>6, <1>7, <1>8, <1>9 DEF LeaseIInv

(* Compaction keeps the current row, and time only passes. *)
LEMMA CompactTickPreserves ==
    ASSUME LeaseIInv, Tick \/ \E k \in Key : CompactKey(k)
    PROVE  LeaseIInv'
<1> USE LeaseAssumption
<1>1. CASE Tick
  <2>1. /\ now < MaxTime /\ now' = now + 1
        /\ UNCHANGED <<kvLease, held, carried, known, expiresAt, loading, loaded, proc, errors,
                       restarts, issued, granted, promised, raced, unleased>>
    BY <1>1, ZenonT(60) DEF Tick, shared, local, history
  <2>2. LeaseTypeOK'
    BY <2>1 DEF LeaseIInv, LeaseTypeOK
  <2>3. NoOrphanedKey'
    BY <2>1, NoneOrphaned DEF Record
  <2> QED BY <2>1, <2>2, <2>3, ProcessesStay DEF LeaseIInv
<1>2. ASSUME NEW k \in Key, CompactKey(k) PROVE LeaseIInv'
  <2>1. /\ carried' = [carried EXCEPT ![k] = @ \cap {held[k]}]
        /\ UNCHANGED <<now, kvLease, held, known, expiresAt, loading, loaded, proc, errors,
                       restarts, issued, granted, promised, raced, unleased>>
    BY <1>2, ZenonT(60) DEF CompactKey, local, history
  <2>2. LeaseTypeOK'
    BY <2>1, ZenonT(60) DEF LeaseIInv, LeaseTypeOK
  <2>3. CarriesLease'
    BY <2>1, ZenonT(60) DEF LeaseIInv, LeaseTypeOK, CarriesLease
  <2>4. NoOrphanedKey'
    BY <2>1, NoneOrphaned DEF Record
  <2>5. ListedOrMissed' /\ AttemptLeft'
    BY <2>1, ZenonT(60) DEF LeaseIInv, ListedOrMissed, AttemptLeft
  <2> QED BY <2>2, <2>3, <2>4, <2>5 DEF LeaseIInv
<1> QED BY <1>1, <1>2

\* Every step keeps the invariant.
LEMMA LeaseNextIInv == LeaseIInv /\ [LeaseNext]_leaseVars => LeaseIInv'
<1> SUFFICES ASSUME LeaseIInv, [LeaseNext]_leaseVars PROVE LeaseIInv'
  OBVIOUS
<1>1. CASE UNCHANGED leaseVars
  BY <1>1, ZenonT(60) DEF leaseVars, shared, local, history, LeaseIInv, LeaseTypeOK, CarriesLease,
              ListedOrMissed, AttemptLeft, NoOrphanedKey, Record
<1>2. ASSUME NEW x \in Process, ProcessStep(x) PROVE LeaseIInv'
  <2>1. x[1] \in Replica /\ x[2] \in LeaseID
    BY DEF Process
  <2> QED BY <1>2, <2>1, GrantPreserves, WaitingPreserves, ScanPreserves, DeletePreserves,
             DropPreserves, RevokePreserves DEF ProcessStep
<1>3. ASSUME NEW x \in Process, RevokeFails(x) \/ \E k \in Key : DeleteFails(x, k)
      PROVE  LeaseIInv'
  BY <1>3, RevokePreserves, DeletePreserves
<1>4. ASSUME NEW r \in Replica, LoadStep(r) \/ LoadFails(r) \/ Restart(r) PROVE LeaseIInv'
  BY <1>4, LoadPreserves, RestartPreserves
<1>5. ASSUME NEW r \in Replica, NEW l \in LeaseID, Grant(r, l) \/ Keepalive(r, l) \/ Revoke(r, l)
      PROVE  LeaseIInv'
  <2>1. <<r, l, "client">> \in Process
    BY DEF Process
  <2> QED BY <1>5, <2>1, GrantPreserves, RevokePreserves
<1>6. ASSUME NEW k \in Key, NEW l \in granted \cup {0}, Attach(k, l) PROVE LeaseIInv'
  BY <1>6, AttachPreserves
<1>7. CASE Tick \/ \E k \in Key : CompactKey(k)
  BY <1>7, CompactTickPreserves
<1> QED BY <1>1, <1>2, <1>3, <1>4, <1>5, <1>6, <1>7 DEF LeaseNext

(* The inductive invariant holds throughout. *)
THEOREM LeaseInvariance == LeaseSpec => []LeaseIInv
BY LeaseInitIInv, LeaseNextIInv, PTL DEF LeaseSpec

(* Every variable keeps its type; in particular no goroutine ever makes more  *)
(* than Attempts attempts.                                                    *)
THEOREM LeaseTypeCorrect == LeaseSpec => []LeaseTypeOK
<1>1. LeaseIInv => LeaseTypeOK
  BY DEF LeaseIInv
<1> QED BY <1>1, LeaseInvariance, PTL

(* However many replicas expire or revoke a lease at once, whatever fails and *)
(* whoever restarts, its row is deleted only when no key written before the   *)
(* keys were listed still holds it.                                           *)
THEOREM NoKeyIsOrphaned == LeaseSpec => []NoOrphanedKey
<1>1. LeaseIInv => NoOrphanedKey
  BY DEF LeaseIInv
<1> QED BY <1>1, LeaseInvariance, PTL

(* Expiry deletes only keys whose current row has the lease, though the keys  *)
(* were listed in an earlier step.                                            *)
THEOREM KeysOutliveOtherLeases == LeaseSpec => KeyOutlivesOtherLease
<1> DEFINE Deleted == \A k \in Key : held[k] # Absent /\ held'[k] = Absent =>
                         \E x \in Process : x[2] = held[k] /\ proc[x].pc = "delete"
<1>1. LeaseIInv /\ [LeaseNext]_leaseVars => [Deleted]_leaseVars
  <2> SUFFICES ASSUME LeaseIInv, LeaseNext, NEW k \in Key, held[k] # Absent, held'[k] = Absent
               PROVE  \E x \in Process : x[2] = held[k] /\ proc[x].pc = "delete"
    OBVIOUS
  <2>0. held \in [Key -> LeaseID \cup {0, Absent}] /\ granted \subseteq LeaseID
    BY DEF LeaseIInv, LeaseTypeOK
  <2>1. ASSUME NEW x \in Process, NEW j \in Key, DeleteOne(x, j)
        PROVE  x[2] = held[k] /\ proc[x].pc = "delete"
    BY <2>0, <2>1 DEF DeleteOne, AfterDeleteIfLease
  <2>2. ASSUME NEW j \in Key, NEW l \in granted \cup {0}, Attach(j, l) PROVE FALSE
    BY <2>0, <2>2, LeaseAssumption DEF Attach
  <2>3. CASE UNCHANGED held
    BY <2>3
  <2>4. \/ UNCHANGED held
        \/ \E x \in Process, j \in Key : DeleteOne(x, j)
        \/ \E j \in Key, l \in granted \cup {0} : Attach(j, l)
    <3>1. ASSUME NEW x \in Process, ProcessStep(x) \/ RevokeFails(x) \/ \E j \in Key : DeleteFails(x, j)
          PROVE  UNCHANGED held \/ \E j \in Key : DeleteOne(x, j)
      BY <3>1, ZenonT(60) DEF ProcessStep, GrantDone, TimerFires, Decide, Scan, DropRecord, Forget,
                              RevokeFails, Retry, DeleteFails, shared
    <3>2. ASSUME NEW r \in Replica, LoadStep(r) \/ LoadFails(r) \/ Restart(r)
          PROVE  UNCHANGED held
      BY <3>2, ZenonT(60) DEF LoadStep, LoadScan, LoadLease, LoadFails, Restart, shared
    <3>3. ASSUME NEW r \in Replica, NEW l \in LeaseID, Grant(r, l) \/ Keepalive(r, l) \/ Revoke(r, l)
          PROVE  UNCHANGED held
      BY <3>3, ZenonT(60) DEF Grant, Keepalive, Revoke, shared
    <3>4. Tick \/ (\E j \in Key : CompactKey(j)) => UNCHANGED held
      BY ZenonT(60) DEF CompactKey, Tick, shared
    <3> QED BY <3>1, <3>2, <3>3, <3>4, ZenonT(60) DEF LeaseNext
  <2> QED BY <2>1, <2>2, <2>3, <2>4, ZenonT(60)
<1> QED BY <1>1, LeaseInvariance, PTL DEF LeaseSpec, KeyOutlivesOtherLease

=============================================================================
