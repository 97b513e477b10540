---------------------------- MODULE MCKVServer ----------------------------
(* Instances of KVServer for TLC. *)
EXTENDS KVServer, TLC

LOCAL INSTANCE Functions

CONSTANTS v1, v2, c1, c2

\* Key 2 is the end of the prefix of key 1.
MCKeyName == [k \in Key |-> IF k = 1 THEN <<1, 2>> ELSE <<2>>]

One(k) == [key |-> MCKeyName[k], end |-> <<>>]

Prefix1 == [key |-> <<1>>, end |-> <<2>>]

FromKey1 == [key |-> <<1>>, end |-> Zero]

ServerOpOf(type, range, v, l, iv, il) ==
    [type |-> type, range |-> range, value |-> v, lease |-> l,
     ignoreValue |-> iv, ignoreLease |-> il,
     limit |-> 0, revision |-> 0, countOnly |-> FALSE]

PutOp(k, v, l) == ServerOpOf("put", One(k), v, l, FALSE, FALSE)

Rpc(rpc, compares, success, failure) ==
    [rpc |-> rpc, compares |-> compares, success |-> success, failure |-> failure]

PutRpc(k, v, l) == Rpc("put", <<>>, <<PutOp(k, v, l)>>, <<>>)

DeleteOp(range) == ServerOpOf("delete", range, v1, 0, FALSE, FALSE)

RangeOp(range) == ServerOpOf("range", range, v1, 0, FALSE, FALSE)

RangeRpc(limit, revision, countOnly) ==
    Rpc("range", <<>>,
        <<[RangeOp(FromKey1) EXCEPT !.limit = limit, !.revision = revision,
                                  !.countOnly = countOnly]>>, <<>>)

\* A page of the past and a count of the present; puts, bare and in a Txn, that
\* write or keep the value or the lease; a delete of a range; Txns that compare
\* first, delete and read; a Txn with two mutations of one key.
MCRequests ==
    {RangeRpc(1, 2, FALSE), RangeRpc(0, 0, TRUE),
     Rpc("put", <<>>, <<ServerOpOf("put", One(1), v1, 7, TRUE, FALSE)>>, <<>>),
     Rpc("txn", <<>>, <<ServerOpOf("put", One(1), v2, 0, TRUE, FALSE)>>, <<>>),
     Rpc("txn", <<>>, <<ServerOpOf("put", One(1), v2, 0, FALSE, TRUE)>>, <<>>),
     Rpc("txn", <<>>, <<PutOp(1, v1, 0), ServerOpOf("put", One(1), v2, 0, TRUE, FALSE)>>, <<>>),
     Rpc("deleteRange", <<>>, <<DeleteOp(Prefix1)>>, <<>>),
     Rpc("txn", <<[key |-> 1, modRev |-> 2], [key |-> 2, modRev |-> 3]>>,
         <<DeleteOp(FromKey1)>>, <<RangeOp(Prefix1)>>),
     Rpc("txn", <<[key |-> 1, modRev |-> 0]>>, <<>>, <<RangeOp(One(1)), DeleteOp(One(1))>>)}

\* What other clients commit beside the call: their Puts, DeleteRanges and
\* Txns come down to single-key writes, as far as the tables go.
MCOthers ==
    {[compares |-> {}, failure |-> <<>>,
      success |-> <<[type |-> "put", key |-> 1, value |-> v2, lease |-> 7]>>],
     [compares |-> {}, failure |-> <<>>,
      success |-> <<[type |-> "put", key |-> 1, value |-> v1, lease |-> 0]>>],
     [compares |-> {}, failure |-> <<>>,
      success |-> <<[type |-> "put", key |-> 2, value |-> v1, lease |-> 0]>>]}

\* The keys an RPC names.
KeysOf ==
    [q \in ServerRequest |->
        UNION ({Listed(op.range) : op \in Range(q.success) \cup Range(q.failure)}
               \cup {{c.key} : c \in Range(q.compares)})]

\* Bounds.  No step is taken after a call ends: the properties judge a call by
\* what had happened when it ended, and the next call starts afresh.  Only the
\* keys the call names are written: it looks at no others.  At most two
\* transactions commit before the call and two while it runs, one if it is a
\* bare Range or DeleteRange.  A compaction revision from the future is the next
\* one.
InProgress ==
    /\ compactRev <= clock + 1
    /\ \A c \in Reader :
          /\ call[c].pc \notin {"answered", "failed"}
          /\ call[c].pc = "idle" => clock <= 3
          /\ call[c].pc # "idle" =>
                /\ {w.key : w \in written} \subseteq KeysOf[call[c].req]
                /\ clock <= call[c].start
                            + (IF call[c].req.rpc \in {"range", "deleteRange"} THEN 1 ELSE 2)

MCOnePut == {PutRpc(1, v1, 0)}

ServerSymmetry == Permutations(Reader)
=============================================================================
