----------------------------- MODULE MCKVStore -----------------------------
(* Instances of KVStore for TLC. *)
EXTENDS KVStore, TLC

CONSTANTS k1, k2, v1, v2

MCKey == {k1, k2}

MCValue == {v1, v2}

Op(type, k) == [type |-> type, key |-> k, value |-> v1, lease |-> 0]

\* For each key: a create-if-absent of that key that also rewrites the other,
\* the transaction whose failure branch reads and deletes, a branch with two
\* mutations of one key, and a delete-all.
MCTxnRequest ==
    UNION {{[compares |-> {[key |-> k, modRev |-> 0]},
             success |-> <<Op("put", k), Op("put", j)>>,
             failure |-> <<Op("get", j), Op("delete", k)>>],
            [compares |-> {[key |-> k, modRev |-> 2]},
             success |-> <<Op("delete", k), Op("delete", j)>>,
             failure |-> <<Op("put", k), Op("delete", k)>>]} :
           k, j \in MCKey} 

Symmetry == Permutations(MCKey) \cup Permutations(Pass)
=============================================================================
