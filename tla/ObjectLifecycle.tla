--------------------------- MODULE ObjectLifecycle ---------------------------
(***************************************************************************)
(* What the operator promises about every custom resource it owns (Model,  *)
(* ModelStorage, ModelStorageBinding): an object is first put under the    *)
(* operator's finalizer, only then worked on, and once its deletion has    *)
(* been recorded in its status it never goes back to work; it leaves the   *)
(* API server either untouched or after that record.                       *)
(*                                                                         *)
(* StorageOperator implements this specification object by object, with    *)
(* reconcilers that read a lagging copy of the object, fail half way and   *)
(* are restarted.                                                          *)
(***************************************************************************)
CONSTANT Objects

VARIABLES
    phase,   \* where each object is in its life
    doomed   \* the objects whose deletion has been requested

vars == <<phase, doomed>>

Phases == {"absent", "created", "protected", "ready", "deleting"}

TypeOK ==
    /\ phase \in [Objects -> Phases]
    /\ doomed \in [Objects -> BOOLEAN]

\* Objects of an earlier run of the operator may be there already.
Init ==
    /\ phase \in [Objects -> {"absent", "ready"}]
    /\ doomed = [o \in Objects |-> FALSE]

Create(o) ==
    /\ phase[o] = "absent"
    /\ phase' = [phase EXCEPT ![o] = "created"]
    /\ UNCHANGED doomed

Protect(o) ==
    /\ phase[o] = "created"
    /\ phase' = [phase EXCEPT ![o] = "protected"]
    /\ UNCHANGED doomed

\* Nothing has been done for an object without the finalizer: it just goes.
Discard(o) ==
    /\ phase[o] = "created"
    /\ phase' = [phase EXCEPT ![o] = "absent"]
    /\ UNCHANGED doomed

RequestDeletion(o) ==
    /\ phase[o] \in {"protected", "ready"}
    /\ doomed' = [doomed EXCEPT ![o] = TRUE]
    /\ UNCHANGED phase

\* A reconciliation that began before the request may still finish after it.
BecomeReady(o) ==
    /\ phase[o] = "protected"
    /\ phase' = [phase EXCEPT ![o] = "ready"]
    /\ UNCHANGED doomed

RecordDeletion(o) ==
    /\ phase[o] \in {"protected", "ready"}
    /\ doomed[o]
    /\ phase' = [phase EXCEPT ![o] = "deleting"]
    /\ UNCHANGED doomed

Release(o) ==
    /\ phase[o] = "deleting"
    /\ phase' = [phase EXCEPT ![o] = "absent"]
    /\ doomed' = [doomed EXCEPT ![o] = FALSE]

Next ==
    \E o \in Objects :
        \/ Create(o) \/ Protect(o) \/ Discard(o) \/ RequestDeletion(o)
        \/ BecomeReady(o) \/ RecordDeletion(o) \/ Release(o)

Spec == Init /\ [][Next]_vars
==============================================================================
