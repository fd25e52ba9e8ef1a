----------------------- MODULE StorageOperatorLiveness -----------------------
(***************************************************************************)
(* What StorageOperator must eventually do once calls stop failing and the *)
(* operator is no longer restarted: `calm' is set at some time, after any  *)
(* number of faults, and no fault follows it.                              *)
(***************************************************************************)
EXTENDS StorageOperator

VARIABLE calm

allVars == <<vars, calm>>

CalmInit == Init /\ calm = FALSE

BecomeCalm ==
    /\ ~calm
    /\ calm' = TRUE
    /\ UNCHANGED vars

CalmNext ==
    \/ Work /\ UNCHANGED calm
    \/ ~calm /\ Fault /\ UNCHANGED calm
    \/ BecomeCalm

\* The next call of a reconciliation.
Call(o) ==
    \/ ReconcileObject(o)
    \/ o \in Storages /\ ReconcileModelStorage(o)
    \/ o \in Models /\ ReconcileModel(o)
    \/ o \in Bindings /\ ReconcileBinding(o)

\* The controllers poll every reconciliation and run the queued ones, watch
\* events arrive, and Kubernetes runs the Jobs.
Fairness ==
    /\ \A o \in Objects :
          /\ WF_allVars(Call(o) /\ UNCHANGED calm)
          /\ WF_allVars(Watch(o) /\ UNCHANGED calm)
    /\ \A k \in Storages \X Models : WF_allVars(RunJob(k) /\ UNCHANGED calm)

FairSpec == CalmInit /\ [][CalmNext]_allVars /\ Fairness

-------------------------------------------------------------------------------
\* Deletion requests are eventually carried through, and those on a storage or a
\* model at least as soon as no Ready binding stands in their way.
Blocked(o) ==
    \E b \in ReadyBindings :
        o \in {api[b].spec.model, api[b].spec.source, api[b].spec.target}

DeletionCompletes ==
    \A o \in Objects : (calm /\ api[o].deleted) ~> (~api[o].deleted \/ Blocked(o))

\* A new target in the spec of a Ready binding is eventually carried over to its
\* status, as long as what the spec names stays Ready (ctx/model_storage_binding.rs,
\* update).  An update is also refused for ever when the model has another spec than it
\* was bound with ("model should be immutable"); this is for instances in which models
\* have one spec.
Loadable(b) ==
    /\ IsReady(api[b].spec.model) /\ IsReady(api[b].spec.target)
    /\ api[b].spec.source # None => IsReady(api[b].spec.source)

Outdated(b) == IsReady(b) /\ api[b].status.target # api[b].spec.target

TargetFollowsSpec ==
    \A b \in Bindings :
        (calm /\ Outdated(b)) ~> (~Outdated(b) \/ api[b].deleted \/ ~Loadable(b))
=============================================================================
