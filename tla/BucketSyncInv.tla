---------------------------- MODULE BucketSyncInv ----------------------------
(***************************************************************************)
(* The inductive invariant of BucketSync, in the parts that its properties *)
(* rest on: what an attempt has established on each side when it is at a   *)
(* call, and what the Jobs that are under way will do to a bucket.         *)
(***************************************************************************)
EXTENDS BucketSync

Calls == {"none", "set", "read", "write", "service", "find", "drop", "forget", "job", "finish"}

\* The types of what TypeOK reads at single bindings and buckets.
Shapes ==
    /\ call \in [Bindings -> Calls] /\ read \in [Bindings -> SUBSET Buckets]
    /\ content \in [Buckets -> (SUBSET Items) \cup {None}]
    /\ rules \in [Buckets -> SUBSET Buckets] /\ targets \in [Buckets -> SUBSET Buckets]
    /\ service \in [Names -> Services \cup {None}] /\ binds \in [Bindings -> 0..2]
    /\ IsFiniteSet(jobs)
    /\ written \in [DOMAIN written -> Buckets] /\ DOMAIN written \subseteq Items
    /\ excused \subseteq Items /\ clashed \subseteq Bindings

\* A call is made only for a policy that asks for it.
CallFits(b) ==
    /\ call[b] = "set" => Policy(b, side[b]) \in {"Always", "OnCreate"}
    /\ call[b] \in {"read", "write", "drop", "forget"} => Replicates(b, side[b])
    /\ call[b] = "find" => Policy(b, side[b]) \in {"Always", "OnDelete"}
    /\ call[b] = "job" => spec[b].policy = "Delete" /\ Policy(b, "push") # "OnDelete"

-----------------------------------------------------------------------------
(* Binding. *)

\* The attempt to bind has come past this side.
Established(b, s) ==
    \/ phase[b] = "bound" \/ call[b] = "service"
    \/ call[b] \in {"set", "read", "write"} /\ side[b] = "push" /\ s = "pull"

\* The rule and the remote target are there, and who is about to replace the rules
\* of the bucket has read that rule.
Replicated(b, s) ==
    LET k == Origin(b, s)
        to == Copy(b, s)
    IN  /\ to \in rules[k] \cap targets[k]
        /\ \A c \in Bindings \ {b} : call[c] = "write" /\ Origin(c, side[c]) = k => to \in read[c]

\* The remote target comes before the rule.
TargetSet(b) ==
    call[b] \in {"read", "write"} => Copy(b, side[b]) \in targets[Origin(b, side[b])]

SyncInv(b) ==
    b \notin clashed =>
       /\ \A s \in Sides : Replicates(b, s) /\ Established(b, s) => Replicated(b, s)
       /\ TargetSet(b)

-----------------------------------------------------------------------------
(* Unbinding. *)

\* No other binding has this replication.
Alone(b, s) ==
    \A c \in Bindings \ {b}, t \in Sides :
       Replicates(c, t) => <<Origin(c, t), Copy(c, t)>> # <<Origin(b, s), Copy(b, s)>>

\* The attempt to unbind has come past this side.
Processed(b, s) ==
    \/ phase[b] = "out" \/ call[b] \in {"job", "finish"}
    \/ call[b] \in {"find", "drop", "forget"} /\ side[b] = "push" /\ s = "pull"

\* A rule has its remote target, by which its deletion finds it; what was found has
\* been deleted.
UnsyncInv(b, s) ==
    LET k == Origin(b, s)
        to == Copy(b, s)
    IN  Replicates(b, s) /\ Alone(b, s) /\ <<b, "rule">> \notin missed =>
          /\ to \in rules[k] => to \in targets[k]
          /\ call[b] \in {"read", "write"} /\ side[b] = s => to \in targets[k]
          /\ call[b] = "forget" /\ side[b] = s => to \notin rules[k]
          /\ Processed(b, s) /\ k[2] = to[2] /\ <<b, "unsync">> \notin missed
                => to \notin rules[k]

-----------------------------------------------------------------------------
(* Jobs. *)

\* The work of a Job that removes the bucket of c.
Removes(work, c) ==
    /\ work.remove = {Bucket(c)}
    /\ Policy(c, "push") = "OnDelete" => work.from = Bucket(c) /\ work.to = SourceBucket(c)

\* A Job removes nothing, or the bucket of a binding: once it is pushed, if it is to
\* be pushed.
WorkFits(work) == work.remove = {} \/ \E c \in Bindings : Removes(work, c)

\* The bucket of b is pushed on deletion, and no other binding has it or its source.
Owned(b) ==
    /\ Policy(b, "push") = "OnDelete" /\ ~Replicates(b, "pull")
    /\ Bucket(b) # SourceBucket(b)
    /\ \A c \in Bindings \ {b} : Bucket(c) \notin {Bucket(b), SourceBucket(b)}

Holds(k, x) == Exists(k) /\ x \in content[k]

\* What is not at the source yet is in the bucket, which no Job is about to remove.
Kept(b, x) ==
    \/ Holds(SourceBucket(b), x)
    \/ /\ Holds(Bucket(b), x)
       /\ \A j \in jobs : Bucket(b) \in j.work.remove => j.state # "mirrored"

-----------------------------------------------------------------------------

SyncedInv == \A b \in Bindings : SyncInv(b)
UnsyncedInv == \A b \in Bindings, s \in Sides : UnsyncInv(b, s)
JobsInv == \A j \in jobs : WorkFits(j.work)
KeptInv ==
    \A x \in DOMAIN written \ excused, b \in Bindings :
       written[x] = Bucket(b) /\ Owned(b) => Kept(b, x)

Inv ==
    /\ TypeOK /\ Shapes
    /\ \A b \in Bindings : CallFits(b)
    /\ SyncedInv /\ UnsyncedInv /\ JobsInv /\ KeptInv
    /\ BoundHasService
=============================================================================
