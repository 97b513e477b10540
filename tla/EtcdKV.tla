------------------------------- MODULE EtcdKV -------------------------------
(***************************************************************************)
(* What the etcd API promises about current keys, with no table, no        *)
(* history and no compaction: a set of live key-values and one revision.   *)
(* A mutation touches a set of keys at once, at a revision larger than any *)
(* before; an untouched key keeps its key-value; a touched key is removed  *)
(* or gets the new revision as its mod revision, and keeps its create      *)
(* revision exactly when it was live.                                      *)
(***************************************************************************)
EXTENDS Integers

CONSTANT Key

VARIABLES current,  \* live key-values: [key, value, lease, createRev, modRev]
          revision  \* the store's revision

etcdVars == <<current, revision>>

Init == current = {} /\ revision = 1

\* Key-value c may be stored by a mutation at revision rev.
FreshPut(c, rev) ==
    /\ c.modRev = rev
    /\ \/ \E old \in current : old.key = c.key /\ old.createRev = c.createRev
       \/ /\ c.createRev = rev
          /\ \A old \in current : old.key # c.key

Mutate(touched) ==
    /\ revision' > revision
    /\ \A c \in current : c.key \notin touched => c \in current'
    /\ \A c \in current' :
          IF c.key \in touched THEN FreshPut(c, revision') ELSE c \in current
    /\ \A c, d \in current' : c.key = d.key => c = d

Next == \E touched \in SUBSET Key : touched # {} /\ Mutate(touched)

Spec == Init /\ [][Next]_etcdVars
=============================================================================
