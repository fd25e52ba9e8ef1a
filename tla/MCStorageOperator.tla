------------------------- MODULE MCStorageOperator -------------------------
(* Small instances of StorageOperator for TLC. *)
EXTENDS StorageOperatorInv, TLC

CONSTANTS m1, m2, s1, s2, b1, b2, v1, v2

BindTo(m, t, p) == [model |-> m, source |-> None, target |-> t, policy |-> p]
CloneTo(m, s, t, p) == [model |-> m, source |-> s, target |-> t, policy |-> p]

\* One binding that never changes.
OneSpec == b1 :> {BindTo(m1, s1, "Delete")}

\* The target, and the deletion policy with it, may be edited.
TwoTargets == b1 :> {BindTo(m1, s1, "Delete"), BindTo(m1, s2, "Retain")}

\* The target stays, a source is added or removed.
AddSource == b1 :> {BindTo(m1, s1, "Delete"), CloneTo(m1, s2, s1, "Delete")}

\* The target, the policy and the source, all may change.
AnySpec ==
    b1 :> {BindTo(m1, s1, "Delete"), BindTo(m1, s2, "Retain"), CloneTo(m1, s2, s1, "Delete")}

\* What the source holds from the start.
SourceBucket == {<<s2, m1>>}

\* The model is renamed, and the target changed with it.
TwoModels == b1 :> {BindTo(m1, s1, "Delete"), BindTo(m2, s2, "Delete")}

\* No binding.
NoSpecs == [b \in {} |-> {}]

\* How often each object may be created.
Once == [o \in Objects |-> 1]
BindingTwice == [o \in Objects |-> IF o \in Bindings THEN 2 ELSE 1]

\* A reconciliation of a storage or a model that finds nothing to do, as most that a
\* restart makes due, comes at once: it changes nothing wherever it comes, and a
\* change of the object makes another one due.
IdleFirst ==
    LET due == {o \in queue \ Bindings : cache[o].exists /\ FirstCall(o, cache[o]) = "idle"}
    IN  due # {} => \E o \in due : queue' = queue \ {o}

\* No call fails and the operator is not restarted.
WorkSpec == Init /\ [][Work]_vars
=============================================================================
