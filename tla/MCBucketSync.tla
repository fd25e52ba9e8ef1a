---------------------------- MODULE MCBucketSync ----------------------------
(* Small instances of BucketSync for TLC. *)
EXTENDS BucketSyncInv, TLC

CONSTANTS b1, b2, s, t1, t2, m, n

Clone(target, binding, pull, push, policy) ==
    [model |-> m, source |-> s, sourceBinding |-> binding, target |-> target,
     pull |-> pull, push |-> push, policy |-> policy]
Own(target, policy) ==
    [Clone(target, None, "Never", "Never", policy) EXCEPT !.source = None]

\* Two clones that replicate from the same bucket; two that push to the same
\* bucket; one from a bucket of another name, next to the owner of its bucket; one
\* next to the owner of its source, which deletes it; and two whose buckets are
\* their own, next to an owner of the same model.
Pair(one, other) == (b1 :> one) @@ (b2 :> other)
Shared == {
    Pair(Clone(t1, None, "Always", "Always", "Delete"), Clone(t2, None, "Always", "Never", "Delete")),
    Pair(Clone(t1, None, "OnCreate", "OnDelete", "Delete"), Clone(t2, None, "Never", "OnDelete", "Delete")),
    Pair(Clone(t1, n, "Always", "OnDelete", "Retain"), Own(t1, "Delete")),
    Pair(Clone(t1, None, "Always", "OnDelete", "Delete"), Own(s, "Delete"))}
Pulling == {Pair(Clone(t1, None, "OnCreate", "OnDelete", "Delete"), Own(t2, "Retain"))}
Pushing == {Pair(Clone(t1, None, "Never", "OnDelete", "Delete"), Own(t2, "Retain"))}
Pairs == Shared \cup Pulling \cup Pushing

Sources == {<<s, m>>, <<s, n>>}

\* Users write to the bucket of a clone that has it for its own, and to the source
\* of the one that pulls.
Writable ==
    [p \in Pairs |-> (IF p \in Shared THEN {} ELSE {<<t1, m>>})
                     \cup (IF p \in Pulling THEN {<<s, m>>} ELSE {})]

\* The last of the clones may be created again after its deletion.
Again == {Clone(t1, None, "Never", "OnDelete", "Delete")}
=============================================================================
