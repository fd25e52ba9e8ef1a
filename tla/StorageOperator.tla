--------------------------- MODULE StorageOperator ---------------------------
(***************************************************************************)
(* The Model, ModelStorage and ModelStorageBinding controllers of          *)
(* cdl-k8s-operator, the Kubernetes objects they share and the buckets     *)
(* they create.                                                            *)
(*                                                                         *)
(* A reconciliation works on `snap', the copy of the object that the       *)
(* controller's cache held when it began.  The cache lags behind the API   *)
(* server, reconciliations of different objects interleave at every call,  *)
(* any call may fail, and the operator may be restarted between two calls. *)
(***************************************************************************)
EXTENDS Naturals, FiniteSets

CONSTANTS
    Models, Storages, Bindings,   \* names of the custom resources
    UniqueStorages,  \* the storages whose kind is_unique(): Owned or Cloned
    ModelSpecs,      \* the contents a Model's spec may have
    BindingSpecs,    \* the contents the spec of each ModelStorageBinding may have
    Settled,         \* models and storages that are Ready from the start
    Deletable,       \* the objects somebody may delete
    Claimed,         \* the models that a ModelClaim may be made for
    InitialBuckets,  \* buckets that borrowed storages hold from the start
    MaxUid,          \* bound: how many times each object may be created
    None

Objects == Models \cup Storages \cup Bindings

BindingSpec ==
    [model: Models, source: Storages \cup {None}, target: Storages,
     policy: {"Delete", "Retain"}]

ASSUME NamesAssumption ==
    /\ Models \cap Storages = {}
    /\ Models \cap Bindings = {}
    /\ Storages \cap Bindings = {}
    /\ None \notin Objects
    /\ UniqueStorages \subseteq Storages

ASSUME SpecsAssumption ==
    /\ BindingSpecs \in [Bindings -> SUBSET BindingSpec]
    /\ ModelSpecs # {}
    /\ Settled \subseteq Models \cup Storages
    /\ Claimed \subseteq Models
    /\ InitialBuckets \subseteq Storages \X Models
    /\ MaxUid \in [Objects -> Nat]

VARIABLES
    api,      \* the API server's copy of each object
    cache,    \* the controllers' copy (the reflector store of kube)
    queue,    \* objects waiting for their next reconciliation
    pc,       \* the call each object's reconciliation will make next
    snap,     \* the argument `data' of the reconciliation
    ctx,      \* what load_context has read so far for a binding
    buckets,  \* the buckets in the object storages, <<storage, model>>
    links,    \* replications set up, <<source, target, model>>
    jobs      \* bucket deletions handed over to a Job, <<storage, model>>

kubeVars == <<api, cache, queue, pc, snap>>
dataVars == <<buckets, links, jobs>>
vars == <<api, cache, queue, pc, snap, ctx, buckets, links, jobs>>

-------------------------------------------------------------------------------
(* Objects as the API server stores them.                                  *)

State == {"Pending", "Ready", "Deleting"}

\* The State of a binding: which model and which incarnations of the storages.
Context ==
    [model: Models, modelSpec: ModelSpecs \cup {None},
     source: Storages \cup {None}, sourceUid: Nat,
     target: Storages, targetUid: Nat]

\* A storage's status records its kind once it has been provisioned.
Kind == [kind |-> "ObjectStorage"]

\* status None stands for a status without details, deleted for a
\* deletionTimestamp, finalizer for the operator's own finalizer.
Object ==
    [exists: BOOLEAN, uid: Nat, deleted: BOOLEAN, finalizer: BOOLEAN,
     state: State, status: Context \cup {Kind, None},
     spec: BindingSpec \cup ModelSpecs \cup {None}]

\* An object that is not there; it remembers the uid it last had.
Absent(uid) ==
    [exists |-> FALSE, uid |-> uid, deleted |-> FALSE, finalizer |-> FALSE,
     state |-> "Pending", status |-> None, spec |-> None]

Created(uid, spec) ==
    [Absent(uid) EXCEPT !.exists = TRUE, !.spec = spec]

IsReady(o) == api[o].exists /\ api[o].state = "Ready"

Specs(o) ==
    IF o \in Bindings THEN BindingSpecs[o]
    ELSE IF o \in Models THEN ModelSpecs ELSE {None}

\* The storages a listing shows to be of a unique kind, whatever their state.
PublishedUniqueStorages ==
    {s \in UniqueStorages : api[s].exists /\ api[s].status # None}

\* Bindings a listing shows to be Ready; the others are filtered out.
ReadyBindings == {b \in Bindings : IsReady(b)}

-------------------------------------------------------------------------------
(* Reconciliations.                                                        *)

Phases ==
    {"idle", "markDeleting", "addFinalizer", "validate", "patchReady",
     "loadModel", "loadSource", "loadTarget", "unsync", "deleteJob",
     "makeBucket", "sync", "checkBindings", "checkClaims", "removeFinalizer"}

\* Plausible bugs of the branch: the work starts without the finalizer, or on an
\* object whose deletion is not recorded.
FirstCallUnprotected(o, d) ==
    CASE d.deleted /\ d.state # "Deleting" -> "markDeleting"
      [] OTHER ->
           IF o \in Bindings THEN "loadModel"
           ELSE IF d.state = "Deleting" THEN "checkBindings"
           ELSE IF d.state = "Ready" THEN "idle"
           ELSE IF o \in Storages THEN "validate" ELSE "patchReady"

FirstCallUnrecorded(o, d) ==
    CASE ~d.finalizer -> "addFinalizer"
      [] OTHER ->
           IF o \in Bindings THEN "loadModel"
           ELSE IF d.deleted THEN "checkBindings"
           ELSE IF d.state = "Ready" THEN "idle"
           ELSE IF o \in Storages THEN "validate" ELSE "patchReady"

\* The branch a reconciliation takes on its copy d of object o.
FirstCall(o, d) ==
    CASE d.deleted /\ d.state # "Deleting" -> "markDeleting"
      [] ~(d.deleted /\ d.state # "Deleting") /\ ~d.finalizer -> "addFinalizer"
      [] OTHER ->
           IF o \in Bindings THEN "loadModel"
           ELSE IF d.state = "Deleting" THEN "checkBindings"
           ELSE IF d.state = "Ready" THEN "idle"
           ELSE IF o \in Storages THEN "validate" ELSE "patchReady"

Start(o) ==
    /\ pc[o] = "idle"
    /\ o \in queue
    /\ cache[o].exists
    /\ pc' = [pc EXCEPT ![o] = FirstCall(o, cache[o])]
    /\ snap' = [snap EXCEPT ![o] = IF pc'[o] = "idle" THEN Absent(0) ELSE cache[o]]
    /\ queue' = queue \ {o}
    /\ UNCHANGED <<api, cache, ctx, dataVars>>

\* The reconciliation goes on with the next call.
Goto(o, call) ==
    /\ pc' = [pc EXCEPT ![o] = call]
    /\ UNCHANGED <<snap, queue>>

\* ... or ends, with Action::await_change() or with Action::requeue().
End(o, requeued) ==
    /\ pc' = [pc EXCEPT ![o] = "idle"]
    /\ snap' = [snap EXCEPT ![o] = Absent(0)]
    /\ queue' = queue \cup requeued

Await(o) == End(o, {})
Requeue(o) == End(o, {o})

ClearContext(o) == ctx' = [ctx EXCEPT ![o] = None]
NoContext(o) == IF o \in Bindings THEN ClearContext(o) ELSE UNCHANGED ctx

\* patch_status; the object may be gone, then the call fails.
PatchStatus(o, state, status) ==
    api' = IF api[o].exists
           THEN [api EXCEPT ![o].state = state, ![o].status = status]
           ELSE api

MarkDeleting(o) ==
    /\ pc[o] = "markDeleting"
    /\ PatchStatus(o, "Deleting", snap[o].status)
    /\ Requeue(o)
    /\ NoContext(o)
    /\ UNCHANGED <<cache, dataVars>>

AddFinalizer(o) ==
    /\ pc[o] = "addFinalizer"
    /\ IF api[o].exists
       THEN /\ api' = [api EXCEPT ![o].finalizer = TRUE]
            /\ Await(o)
       ELSE /\ UNCHANGED api
            /\ Requeue(o)
    /\ NoContext(o)
    /\ UNCHANGED <<cache, dataVars>>

\* Clears the finalizers; the API server then drops an object whose deletion
\* has been requested.
RemoveFinalizer(o) ==
    /\ pc[o] = "removeFinalizer"
    /\ IF api[o].exists
       THEN /\ api' = [api EXCEPT ![o] =
                         IF @.deleted THEN Absent(@.uid)
                         ELSE [@ EXCEPT !.finalizer = FALSE]]
            /\ Await(o)
       ELSE /\ UNCHANGED api
            /\ Requeue(o)
    /\ NoContext(o)
    /\ UNCHANGED <<cache, dataVars>>

\* A storage or a model has been validated, a binding has been bound.
PatchReady(o) ==
    /\ pc[o] = "patchReady"
    /\ PatchStatus(o, "Ready",
                   IF o \in Bindings THEN ctx[o]
                   ELSE IF o \in Storages THEN Kind ELSE None)
    /\ Requeue(o)
    /\ NoContext(o)
    /\ UNCHANGED <<cache, dataVars>>

Loading == {"loadModel", "loadSource", "loadTarget"}

\* Any call may fail; the reconciliation is tried again later.  Only a Deleting
\* binding that cannot load its context goes on (see LoadError).
Fail(o) ==
    /\ pc[o] # "idle"
    /\ ~(pc[o] \in Loading /\ snap[o].state = "Deleting")
    /\ Requeue(o)
    /\ NoContext(o)
    /\ UNCHANGED <<api, cache, dataVars>>

-------------------------------------------------------------------------------
(* ModelStorage and Model.                                                 *)

\* Two unique storages must not be Ready at once: look for another one.
ValidateModelStorage(s) ==
    /\ pc[s] = "validate"
    /\ IF s \in UniqueStorages /\ PublishedUniqueStorages # {}
       THEN Requeue(s)
       ELSE Goto(s, "patchReady")
    /\ UNCHANGED <<api, cache, ctx, dataVars>>

\* A plausible bug: the refusal waits for a change of the storage itself.
DeleteModelStorageOnce(s) ==
    /\ pc[s] = "checkBindings"
    /\ IF \E b \in ReadyBindings : s \in {api[b].spec.source, api[b].spec.target}
       THEN Await(s)
       ELSE Goto(s, "removeFinalizer")
    /\ UNCHANGED <<api, cache, ctx, dataVars>>

\* "storage is binded"
DeleteModelStorage(s) ==
    /\ pc[s] = "checkBindings"
    /\ IF \E b \in ReadyBindings : s \in {api[b].spec.source, api[b].spec.target}
       THEN Requeue(s)
       ELSE Goto(s, "removeFinalizer")
    /\ UNCHANGED <<api, cache, ctx, dataVars>>

\* "model is binded"
AssertEmptyBindings(m) ==
    /\ pc[m] = "checkBindings"
    /\ IF \E b \in ReadyBindings : api[b].spec.model = m
       THEN Requeue(m)
       ELSE Goto(m, "checkClaims")
    /\ UNCHANGED <<api, cache, ctx, dataVars>>

\* Plausible bugs: an unfinished claim does not count, a Deleting one does.
AssertNoReadyClaim(m, claimState) ==
    /\ pc[m] = "checkClaims"
    /\ IF claimState # "Ready"
       THEN Goto(m, "removeFinalizer")
       ELSE Requeue(m)
    /\ UNCHANGED <<api, cache, ctx, dataVars>>

AssertNoClaim(m, claimState) ==
    /\ pc[m] = "checkClaims"
    /\ IF claimState = "Absent"
       THEN Goto(m, "removeFinalizer")
       ELSE Requeue(m)
    /\ UNCHANGED <<api, cache, ctx, dataVars>>

\* "model claim is binded"; an unfinished claim makes the check itself fail.
AssertEmptyClaims(m, claimState) ==
    /\ pc[m] = "checkClaims"
    /\ IF claimState \in {"Absent", "Deleting"}
       THEN Goto(m, "removeFinalizer")
       ELSE Requeue(m)
    /\ UNCHANGED <<api, cache, ctx, dataVars>>

-------------------------------------------------------------------------------
(* ModelStorageBinding.                                                    *)

\* A plausible bug: the error is swallowed whatever the reconciliation does.
LoadErrorSwallowed(b) ==
    /\ Goto(b, "removeFinalizer")
    /\ ClearContext(b)

\* validate and update give up, delete logs the error and reports success.
LoadError(b) ==
    /\ IF snap[b].state = "Deleting"
       THEN Goto(b, "removeFinalizer")
       ELSE Requeue(b)
    /\ ClearContext(b)

LoadFails(b) ==
    /\ pc[b] \in Loading
    /\ snap[b].state = "Deleting"
    /\ LoadError(b)
    /\ UNCHANGED <<api, cache, dataVars>>

\* A plausible bug: the context is that of the spec as it is by now.
LoadModelAnew(b) ==
    LET sp == api[b].spec IN
    /\ pc[b] = "loadModel"
    /\ IF sp # None /\ IsReady(sp.model)
       THEN /\ ctx' = [ctx EXCEPT ![b] =
                        [model |-> sp.model, modelSpec |-> api[sp.model].spec,
                         source |-> sp.source, sourceUid |-> 0,
                         target |-> sp.target, targetUid |-> 0]]
            /\ Goto(b, IF snap[b].spec.source = None THEN "loadTarget" ELSE "loadSource")
       ELSE LoadError(b)
    /\ UNCHANGED <<api, cache, dataVars>>

LoadModel(b) ==
    LET sp == snap[b].spec IN
    /\ pc[b] = "loadModel"
    /\ IF IsReady(sp.model)
       THEN /\ ctx' = [ctx EXCEPT ![b] =
                        [model |-> sp.model, modelSpec |-> api[sp.model].spec,
                         source |-> sp.source, sourceUid |-> 0,
                         target |-> sp.target, targetUid |-> 0]]
            /\ Goto(b, IF sp.source = None THEN "loadTarget" ELSE "loadSource")
       ELSE LoadError(b)
    /\ UNCHANGED <<api, cache, dataVars>>

LoadSource(b) ==
    LET s == snap[b].spec.source IN
    /\ pc[b] = "loadSource"
    /\ IF IsReady(s)
       THEN /\ ctx' = [ctx EXCEPT ![b].sourceUid = api[s].uid]
            /\ Goto(b, "loadTarget")
       ELSE LoadError(b)
    /\ UNCHANGED <<api, cache, dataVars>>

\* A plausible bug: the target is not compared.
SameStateButTarget(c, d) ==
    <<c.source, c.sourceUid>> = <<d.source, d.sourceUid>>

\* The fields that update compares; the model is compared by its spec only.
SameState(c, d) ==
    /\ <<c.source, c.sourceUid>> = <<d.source, d.sourceUid>>
    /\ <<c.target, c.targetUid>> = <<d.target, d.targetUid>>

\* What follows load_context: bind, unbind, or compare with the last status.
AfterLoad(b, c) ==
    CASE snap[b].state = "Pending" -> Goto(b, "makeBucket")
      [] snap[b].state = "Deleting" -> Goto(b, "unsync")
      [] snap[b].state = "Ready" ->
           IF snap[b].status.modelSpec # c.modelSpec THEN Requeue(b)
           ELSE IF SameState(snap[b].status, c) THEN Await(b)
           ELSE Goto(b, "unsync")

LoadTarget(b) ==
    LET s == snap[b].spec.target
        c == [ctx[b] EXCEPT !.targetUid = api[s].uid]
    IN
    /\ pc[b] = "loadTarget"
    /\ IF IsReady(s)
       THEN /\ AfterLoad(b, c)
            /\ ctx' = [ctx EXCEPT ![b] = IF pc'[b] = "idle" THEN None ELSE c]
       ELSE LoadError(b)
    /\ UNCHANGED <<api, cache, dataVars>>

\* A plausible bug: an update unbinds the new context.
UnboundFromContext(b) == ctx[b]

\* What is unbound: the last status when updating, the loaded spec when deleting.
Unbound(b) == IF snap[b].state = "Ready" THEN snap[b].status ELSE ctx[b]

AfterUnbind(b) ==
    Goto(b, IF snap[b].state = "Ready" THEN "makeBucket" ELSE "removeFinalizer")

Bucket(c) == <<c.target, c.model>>
Link(c) == <<c.source, c.target, c.model>>

\* The links that are left when c's is taken down: it is looked up first, and then
\* the whole replication of the source's bucket is deleted.
Unlinked(c) ==
    IF Link(c) \in links
    THEN {l \in links : <<l[1], l[3]>> # <<c.source, c.model>>}
    ELSE links

\* A plausible bug: the deletion Job leaves the replication to be found later.
UnsyncBucketLater(b) ==
    LET c == Unbound(b) IN
    /\ pc[b] = "unsync"
    /\ IF snap[b].spec.policy = "Delete" /\ Bucket(c) \in buckets
       THEN Goto(b, "deleteJob") /\ UNCHANGED links
       ELSE AfterUnbind(b) /\ links' = Unlinked(c)
    /\ UNCHANGED <<api, cache, ctx, buckets, jobs>>

\* unbind_model up to the replication: nothing to do for a bucket that is not
\* there, otherwise drop the replication and go on to the deletion Job.
UnsyncBucket(b) ==
    LET c == Unbound(b) IN
    /\ pc[b] = "unsync"
    /\ \/ /\ snap[b].spec.policy = "Delete"
          /\ Bucket(c) \notin buckets
          /\ AfterUnbind(b)
          /\ UNCHANGED links
       \/ /\ snap[b].spec.policy = "Delete"
          /\ Bucket(c) \in buckets
          /\ Goto(b, "deleteJob")
          /\ links' = Unlinked(c)
       \/ /\ snap[b].spec.policy = "Retain"
          /\ AfterUnbind(b)
          /\ links' = Unlinked(c)
    /\ UNCHANGED <<api, cache, ctx, buckets, jobs>>

\* delete_bucket hands the deletion over to a Job and does not wait for it.
CreateDeleteJob(b) ==
    /\ pc[b] = "deleteJob"
    /\ jobs' = jobs \cup {Bucket(Unbound(b))}
    /\ AfterUnbind(b)
    /\ UNCHANGED <<api, cache, ctx, buckets, links>>

\* create_bucket: an existing bucket is taken as it is.
MakeBucket(b) ==
    /\ pc[b] = "makeBucket"
    /\ buckets' = buckets \cup {Bucket(ctx[b])}
    /\ Goto(b, IF ctx[b].source = None THEN "patchReady" ELSE "sync")
    /\ UNCHANGED <<api, cache, ctx, links, jobs>>

\* Replication needs the bucket on both sides.
SyncBucket(b) ==
    LET c == ctx[b] IN
    /\ pc[b] = "sync"
    /\ IF {Bucket(c), <<c.source, c.model>>} \subseteq buckets
       THEN /\ links' = links \cup {Link(c)}
            /\ Goto(b, "patchReady")
            /\ UNCHANGED ctx
       ELSE /\ Requeue(b)
            /\ ClearContext(b)
            /\ UNCHANGED links
    /\ UNCHANGED <<api, cache, buckets, jobs>>

-------------------------------------------------------------------------------
(* The environment: Kubernetes, the Jobs and the users.                    *)

\* A watch event brings the cache up to date and triggers a reconciliation.
Watch(o) ==
    /\ cache[o] # api[o]
    /\ cache' = [cache EXCEPT ![o] = api[o]]
    /\ queue' = IF api[o].exists THEN queue \cup {o} ELSE queue \ {o}
    /\ UNCHANGED <<api, pc, snap, ctx, dataVars>>

\* The operator is restarted: it lists every object and reconciles it anew.
Restart ==
    /\ cache' = api
    /\ queue' = {o \in Objects : api[o].exists}
    /\ pc' = [o \in Objects |-> "idle"]
    /\ snap' = [o \in Objects |-> Absent(0)]
    /\ ctx' = [b \in Bindings |-> None]
    /\ UNCHANGED <<api, dataVars>>

\* `mc rb --force' runs at some later time.  Another Job for the bucket may be
\* waiting, and a Job that finds no bucket is tried again before it is given up.
RunJob(k) ==
    /\ k \in jobs
    /\ jobs' \in {jobs, jobs \ {k}}
    /\ buckets' = buckets \ {k}
    /\ UNCHANGED <<kubeVars, ctx, links>>

Create(o) ==
    /\ ~api[o].exists
    /\ api[o].uid < MaxUid[o]
    /\ \E sp \in Specs(o) :
          api' = [api EXCEPT ![o] = Created(@.uid + 1, sp)]
    /\ UNCHANGED <<cache, queue, pc, snap, ctx, dataVars>>

\* The API server keeps an object that has a finalizer.
Delete(o) ==
    /\ o \in Deletable
    /\ api[o].exists
    /\ ~api[o].deleted
    /\ api' = [api EXCEPT ![o] =
                 IF @.finalizer THEN [@ EXCEPT !.deleted = TRUE]
                 ELSE Absent(@.uid)]
    /\ UNCHANGED <<cache, queue, pc, snap, ctx, dataVars>>

Edit(o) ==
    /\ api[o].exists
    /\ \E sp \in Specs(o) \ {api[o].spec} : api' = [api EXCEPT ![o].spec = sp]
    /\ UNCHANGED <<cache, queue, pc, snap, ctx, dataVars>>

-------------------------------------------------------------------------------
\* A model or a storage after its first reconciliations.
Validated(o) ==
    [Created(1, CHOOSE sp \in Specs(o) : TRUE) EXCEPT
        !.finalizer = TRUE, !.state = "Ready",
        !.status = IF o \in Storages THEN Kind ELSE None]

Init ==
    /\ api = [o \in Objects |-> IF o \in Settled THEN Validated(o) ELSE Absent(0)]
    /\ cache = api
    /\ queue = {}
    /\ pc = [o \in Objects |-> "idle"]
    /\ snap = [o \in Objects |-> Absent(0)]
    /\ ctx = [b \in Bindings |-> None]
    /\ buckets = InitialBuckets
    /\ links = {}
    /\ jobs = {}

ReconcileModelStorage(s) == ValidateModelStorage(s) \/ DeleteModelStorage(s)

\* The claim of a model, if it may have one, is in any state (see ClaimOperator).
ClaimStates(m) == {"Absent"} \cup IF m \in Claimed THEN State ELSE {}

ReconcileModel(m) ==
    \/ AssertEmptyBindings(m)
    \/ \E st \in ClaimStates(m) : AssertEmptyClaims(m, st)

ReconcileBinding(b) ==
    \/ LoadModel(b) \/ LoadSource(b) \/ LoadTarget(b)
    \/ UnsyncBucket(b) \/ CreateDeleteJob(b)
    \/ MakeBucket(b) \/ SyncBucket(b)

\* The calls every reconciler shares.
ReconcileObject(o) ==
    \/ Start(o) \/ MarkDeleting(o) \/ AddFinalizer(o)
    \/ PatchReady(o) \/ RemoveFinalizer(o)

User(o) == Create(o) \/ Delete(o) \/ Edit(o)

\* What the operator and its environment do when nothing goes wrong,
Work ==
    \/ \E o \in Objects : ReconcileObject(o) \/ Watch(o) \/ User(o)
    \/ \E s \in Storages : ReconcileModelStorage(s)
    \/ \E m \in Models : ReconcileModel(m)
    \/ \E b \in Bindings : ReconcileBinding(b)
    \/ \E k \in jobs : RunJob(k)

\* ... and what goes wrong.
Fault ==
    \/ \E o \in Objects : Fail(o)
    \/ \E b \in Bindings : LoadFails(b)
    \/ Restart

Next == Work \/ Fault

Spec == Init /\ [][Next]_vars

-------------------------------------------------------------------------------
(* Properties.                                                             *)

\* Every variable has its type, and a Ready binding has the status details that
\* ModelStorageBindingValidator::update unwraps.
TypeOK ==
    /\ api \in [Objects -> Object]
    /\ cache \in [Objects -> Object]
    /\ queue \subseteq Objects
    /\ pc \in [Objects -> Phases]
    /\ snap \in [Objects -> Object]
    /\ ctx \in [Bindings -> Context \cup {None}]
    /\ buckets \subseteq Storages \X Models
    /\ links \subseteq Storages \X Storages \X Models
    /\ jobs \subseteq Storages \X Models
    /\ \A b \in Bindings : api[b].state = "Ready" => api[b].status \in Context

\* A binding's bucket is only made, synced and recorded while the very object
\* that was read is on the API server, under the operator's finalizer and not
\* yet recorded as Deleting: a deletion cannot miss what is being bound.
Binding == {"makeBucket", "sync", "patchReady"}

BindingWorkIsProtected ==
    \A b \in Bindings :
        pc[b] \in Binding =>
            /\ api[b].exists /\ api[b].uid = snap[b].uid
            /\ api[b].finalizer
            /\ api[b].state # "Deleting"

\* The life of each object, as ObjectLifecycle promises it (k8s_operator.rs and
\* the reconcile functions of ctx/*.rs).
Phase(d) ==
    IF ~d.exists THEN "absent"
    ELSE IF d.state = "Deleting" THEN "deleting"
    ELSE IF d.state = "Ready" THEN "ready"
    ELSE IF d.finalizer THEN "protected" ELSE "created"

Lifecycle == INSTANCE ObjectLifecycle
    WITH phase <- [o \in Objects |-> Phase(api[o])],
         doomed <- [o \in Objects |-> api[o].deleted]

LifecycleSpec == Lifecycle!Spec

\* A binding answers for what its spec and its last status name until its
\* clean-up is over; an update stops answering for the last status once that
\* has been unbound.
SpecContext(d) ==
    [model |-> d.spec.model, source |-> d.spec.source, target |-> d.spec.target]

AnswersFor(b) ==
    IF ~api[b].exists \/ ~api[b].finalizer \/ pc[b] = "removeFinalizer" THEN {}
    ELSE {SpecContext(api[b])} \cup
         IF api[b].status = None \/ (pc[b] \in Binding /\ snap[b].state = "Ready")
         THEN {} ELSE {api[b].status}

BucketsOf(b) == {Bucket(c) : c \in AnswersFor(b)}

\* The replication has been taken down before the deletion Job is made; from then on
\* it is that of whoever sets it up again.
LinksOf(b) ==
    {Link(c) : c \in AnswersFor(b)} \ (IF pc[b] = "deleteJob" THEN {Link(Unbound(b))} ELSE {})

\* The ways in which the code lets a binding walk away from its bucket: it was
\* told to (Retain); a user edited the spec; the clean-up follows a spec that
\* no longer matches the status; the reconciliation works on an outdated copy;
\* the context of a Deleting binding could not be loaded.
Drifted(d) ==
    d.status # None /\ (Bucket(d.status) # Bucket(d.spec) \/ Link(d.status) # Link(d.spec))

LosesTrack(b) ==
    \/ api'[b].exists /\ api'[b].spec # api[b].spec
    \/ pc[b] # "idle" /\ snap[b].state = "Deleting" /\ Drifted(snap[b])
    \/ /\ pc[b] # "idle"
       /\ <<snap[b].spec, snap[b].status>> # <<api[b].spec, api[b].status>>
    \/ pc[b] \in Loading /\ pc'[b] = "removeFinalizer"

\* A step after which nobody answers any more for a bucket that b answered for, or
\* has just made; and the same for a replication.
ForsakesBucket(b, k) ==
    /\ k \in BucketsOf(b) \/ (k \notin buckets /\ pc[b] = "makeBucket" /\ pc'[b] # pc[b])
    /\ \A c \in Bindings : k \notin BucketsOf(c)'

ForsakesLink(b, l) ==
    /\ l \in LinksOf(b) \/ (l \notin links /\ pc[b] = "sync" /\ pc'[b] # pc[b])
    /\ \A c \in Bindings : l \notin LinksOf(c)'

\* There is no other way: otherwise the bucket is deleted, handed over to a Job,
\* or somebody else's.
NoSilentLeak ==
    [][\A b \in Bindings : \A k \in buckets' \ jobs' :
          ForsakesBucket(b, k) =>
             LosesTrack(b) \/ (pc[b] # "idle" /\ snap[b].spec.policy = "Retain")]_vars

\* The replication of a bucket is taken down whatever the policy is; it stays
\* behind in the same cases, and when the bucket itself has gone before.
NoDanglingReplication ==
    [][\A b \in Bindings : \A l \in links' :
          ForsakesLink(b, l) =>
             LosesTrack(b) \/ (pc[b] = "unsync" /\ Bucket(Unbound(b)) \notin buckets)]_vars

-------------------------------------------------------------------------------
(* What the comments and the errors of the code say, and the code does not do. *)

\* "(Re)bind": after an update the binding is bound again.  A binding that is
\* Ready as its spec wants it, with no reconciliation due, keeps its bucket.
Satisfied(b) ==
    /\ IsReady(b)
    /\ ~api[b].deleted
    /\ cache[b] = api[b]
    /\ pc[b] = "idle" /\ b \notin queue
    /\ \A f \in {"model", "source", "target"} : api[b].status[f] = api[b].spec[f]

BoundBucketStays ==
    [][\A b \in Bindings :
          Satisfied(b) /\ Satisfied(b)' /\ Bucket(api[b].status) \in buckets
          => Bucket(api[b].status) \in buckets']_vars

\* "storage is binded": a storage that a Ready binding is bound to is not removed.
BoundStorageExists ==
    \A b \in Bindings : IsReady(b) => api[api[b].status.target].exists

\* "model storage already exists": there is one unique storage at most.
UniqueStorage ==
    \A s, t \in UniqueStorages : IsReady(s) /\ IsReady(t) => s = t

\* "model should not be changed": an update leaves a binding with its model.
ModelIsImmutable ==
    [][\A b \in Bindings :
          pc[b] = "patchReady" /\ snap[b].state = "Ready" /\ api'[b].state = "Ready"
          => api'[b].status.model = snap[b].status.model]_vars
==============================================================================
