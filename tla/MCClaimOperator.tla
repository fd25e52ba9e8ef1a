-------------------------- MODULE MCClaimOperator --------------------------
(* Small instances of ClaimOperator for TLC. *)
EXTENDS ClaimOperatorInv, TLC

CONSTANTS m1, s1, b1, c1, dynamic

ClaimModel == c1 :> m1
ClaimBindings == c1 :> b1

\* A claim that names no storage, kept or deleted with what it has made.
Owning(p) == [storage |-> None, policy |-> p, replace |-> TRUE]
Moving(p) == [storage |-> None, policy |-> p, replace |-> FALSE]

MadeBy(p) == [b \in {b1} |-> {Owned(m1, s1, p)}]

\* How often each object may be created.
Once == [o \in Objects |-> 1]
Twice == [o \in Objects |-> 2]

\* A reconciliation of a storage or a model that finds nothing to do, as most that a
\* restart makes due, comes at once: it changes nothing wherever it comes, and a
\* change of the object makes another one due.
IdleFirst ==
    LET due == {o \in queue \ Bindings : cache[o].exists /\ FirstCall(o, cache[o]) = "idle"}
    IN  due # {} => \E o \in due : queue' = queue \ {o}

DeletingClaim == {Owning("Delete")}
RetainedClaim == {Owning("Retain")}
MovingClaim == {Moving("Delete")}
RetainedBinding == MadeBy("Retain")
DeletedBinding == MadeBy("Delete")
============================================================================
