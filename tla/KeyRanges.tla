----------------------------- MODULE KeyRanges -----------------------------
(***************************************************************************)
(* Key ranges.  An etcd client names the keys [key, end): end "" is the    *)
(* key alone, end "\x00" everything from key on, and a prefix is the range *)
(* from the prefix to its successor.  The store only looks keys up by a    *)
(* LIKE prefix and a first key (store.go), and a watch by a prefix         *)
(* (watch.go).  pkg/server translates the one to the other.                *)
(*                                                                         *)
(* The other modules number the keys; here they are strings, sequences of  *)
(* bytes, in the order Spanner sorts strings.                              *)
(***************************************************************************)
EXTENDS Naturals, Sequences

CONSTANTS
    KeyName,    \* KeyName[k]: the string of key k
    Wildcard,   \* the byte LIKE takes for any byte ("_"),
    Percent,    \* the one it takes for any string ("%"),
    Escape      \* and the one after which it takes a byte as it is (a backslash)

HasPrefix(s, prefix) ==
    Len(prefix) <= Len(s) /\ \A i \in DOMAIN prefix : prefix[i] = s[i]

\* key[:len(key)-1].
ButLast(key) == SubSeq(key, 1, Len(key) - 1)

\* a sorts before b.
KeyBefore(a, b) ==
    \/ a # b /\ HasPrefix(b, a)
    \/ \E i \in DOMAIN a \cap DOMAIN b :
          a[i] < b[i] /\ \A j \in 1..(i - 1) : a[j] = b[j]

ASSUME LikeAssumption ==
    /\ {Wildcard, Percent, Escape} \subseteq Nat
    /\ Wildcard # Percent /\ Percent # Escape /\ Escape # Wildcard

\* The keys are numbered in their order.
ASSUME KeyNameAssumption ==
    /\ \A k \in DOMAIN KeyName : KeyName[k] \in Seq(Nat) /\ KeyName[k] # <<>>
    /\ \A k, l \in DOMAIN KeyName : k < l <=> KeyBefore(KeyName[k], KeyName[l])

Zero == <<0>>

KeyRange == [key : Seq(Nat), end : Seq(Nat)]

-----------------------------------------------------------------------------
(* What etcd means. *)

InRange(q, k) ==
    IF q.end = <<>> THEN KeyName[k] = q.key
    ELSE /\ ~KeyBefore(KeyName[k], q.key)
         /\ q.end = Zero \/ KeyBefore(KeyName[k], q.end)

-----------------------------------------------------------------------------
(* What the server does. *)

rangeToPrefix(key, end) ==
    CASE end = Zero -> <<>>
      [] end # Zero /\ HasPrefix(end, ButLast(key)) -> ButLast(key)
      [] end # Zero /\ ~HasPrefix(end, ButLast(key)) -> key

\* The positions of a pattern that the byte before them makes literal.
IsLiteral(literal, pattern) ==
    \A i \in DOMAIN pattern :
        i \in literal <=> i > 1 /\ pattern[i - 1] = Escape /\ (i - 1) \notin literal

\* Position i of the pattern stands for the bytes of s from b up to e, e excluded.
StandsFor(literal, pattern, s, i, b, e) ==
    IF i \in literal \/ pattern[i] \notin {Wildcard, Percent, Escape}
    THEN e = b + 1 /\ s[b] = pattern[i]
    ELSE \/ pattern[i] = Wildcard /\ e = b + 1
         \/ pattern[i] = Percent /\ b <= e
         \/ pattern[i] = Escape /\ e = b

\* s LIKE pattern: s can be cut into what the positions of the pattern stand
\* for, position i beginning at cut[i].
MatchesLike(s, pattern) ==
    \E literal \in SUBSET DOMAIN pattern :
        /\ IsLiteral(literal, pattern)
        /\ \E cut \in [1..(Len(pattern) + 1) -> 1..(Len(s) + 1)] :
              /\ cut[1] = 1 /\ cut[Len(pattern) + 1] = Len(s) + 1
              /\ \A i \in DOMAIN pattern :
                    StandsFor(literal, pattern, s, i, cut[i], cut[i + 1])

\* likePrefix: the prefix itself is not escaped.
likePrefix(prefix) == Append(prefix, Percent)

Like(prefix, s) == MatchesLike(s, likePrefix(prefix))

\* The keys a read of the store for a range is about: the key, or what is
\* LIKE the prefix and not before the first key.
Listed(q) ==
    {k \in DOMAIN KeyName :
        IF q.end = <<>> THEN KeyName[k] = q.key
        ELSE /\ Like(rangeToPrefix(q.key, q.end), KeyName[k])
             /\ ~KeyBefore(KeyName[k], q.key)}

\* Variant: the end of the range is part of it.
BelowEndOrAt(q, k) == q.end \in {<<>>, Zero} \/ ~KeyBefore(q.end, KeyName[k])

\* A Txn drops what List returns from the end of the range on.
BelowEnd(q, k) == q.end \in {<<>>, Zero} \/ KeyBefore(KeyName[k], q.end)

\* A watch matches keys by a prefix, also when it names a single key.
watchPrefix(key, end) ==
    CASE end = <<>> -> key
      [] end = Zero -> <<>>
      [] end \notin {<<>>, Zero} -> IF Len(end) = Len(key) THEN ButLast(key) ELSE key

\* strings.TrimSuffix(prefix, "%"), with which events are dispatched.
TrimPercent(prefix) ==
    IF prefix # <<>> /\ prefix[Len(prefix)] = Percent THEN ButLast(prefix) ELSE prefix

\* The keys of which events are dispatched, and those of which they are replayed.
Watched(q) ==
    {k \in DOMAIN KeyName : HasPrefix(KeyName[k], TrimPercent(watchPrefix(q.key, q.end)))}

Replayed(q) ==
    {k \in DOMAIN KeyName : Like(watchPrefix(q.key, q.end), KeyName[k])}

=============================================================================
