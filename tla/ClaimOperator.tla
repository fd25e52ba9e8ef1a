---------------------------- MODULE ClaimOperator ----------------------------
(***************************************************************************)
(* The ModelClaim controller of cdl-k8s-operator, next to the three        *)
(* controllers of StorageOperator.  A claim makes a model of its own name  *)
(* and a binding of that name to a storage the optimizer chooses.          *)
(***************************************************************************)
EXTENDS StorageOperator

CONSTANTS
    Claims,         \* names of the ModelClaims
    ModelOf,        \* the model and the binding that have a claim's name
    BindingOf,
    Dynamic,        \* the spec of the models that claims make
    ClaimSpecs,     \* the contents a new claim's spec may have
    MaxClaimUid,    \* bound: how many times each claim may be created
    Manual          \* the other objects that users create, edit and delete themselves

ClaimSpec ==
    [storage: Storages \cup {None}, policy: {"Delete", "Retain"}, replace: BOOLEAN]

\* `bound' is the storage name of the status.
ClaimObject ==
    [exists: BOOLEAN, uid: Nat, deleted: BOOLEAN, finalizer: BOOLEAN,
     state: State, bound: Storages \cup {None}, spec: ClaimSpec \cup {None}]

\* The spec of the binding that a claim makes.
Owned(m, s, p) == [model |-> m, source |-> None, target |-> s, policy |-> p]

ASSUME ClaimsAssumption ==
    /\ ModelOf \in [Claims -> Claimed] /\ BindingOf \in [Claims -> Bindings]
    /\ \A c, d \in Claims : c # d => ModelOf[c] # ModelOf[d]
    /\ Claimed = {ModelOf[c] : c \in Claims}
    /\ Claimed \cup Bindings \subseteq Deletable
    /\ Dynamic \in ModelSpecs
    /\ Manual \subseteq Objects
    /\ MaxClaimUid \in Nat
    /\ ClaimSpecs \subseteq ClaimSpec
    /\ \A c \in Claims, s \in Storages, sp \in ClaimSpecs :
          Owned(ModelOf[c], s, sp.policy) \in BindingSpecs[BindingOf[c]]

VARIABLES
    claim,       \* the API server's copy of each claim
    claimCache,  \* the controller's copy
    claimQueue,  \* claims waiting for their next reconciliation
    claimPc,     \* the call each claim's reconciliation will make next
    claimSnap,   \* the argument `data' of the reconciliation
    work         \* the bindings it is deleting and the status it will record

claimVars == <<claim, claimCache, claimQueue, claimPc, claimSnap, work>>

-------------------------------------------------------------------------------
(* What is read of claims, bindings and storages.                          *)

NoClaim(uid) ==
    [exists |-> FALSE, uid |-> uid, deleted |-> FALSE, finalizer |-> FALSE,
     state |-> "Pending", bound |-> None, spec |-> None]

\* What load_model_claim tells a model's controller.
ClaimState(m) ==
    LET c == CHOOSE c \in Claims : ModelOf[c] = m
    IN  IF m \notin Claimed \/ ~claim[c].exists THEN "Absent" ELSE claim[c].state

ModelBindings(c) == {b \in ReadyBindings : api[b].spec.model = ModelOf[c]}

\* The storages that the optimizer finds: those with a kind, whatever their state.
PublishedStorages == {s \in Storages : api[s].exists /\ api[s].status # None}

\* The test of `update'.  Two storage names count as changed when they are equal.
IsChanged(d) ==
    IF None \in {d.bound, d.spec.storage}
    THEN d.bound # d.spec.storage
    ELSE d.bound = d.spec.storage

-------------------------------------------------------------------------------
(* Reconciliations.                                                        *)

ClaimPhases ==
    {"idle", "addFinalizer", "getModel", "createModel", "listBindings",
     "chooseStorage", "createBinding", "patchStatus", "patchSpec",
     "findModel", "listOld", "deleteOld", "deleteModel", "removeFinalizer"}

Errand == [old: SUBSET Bindings, state: State, bound: Storages \cup {None}]
NoWork == [old |-> {}, state |-> "Pending", bound |-> None]
Record(state, s) == [NoWork EXCEPT !.state = state, !.bound = s]

\* Plausible bugs of the branch, as in StorageOperator.
FirstClaimCallUnprotected(d) ==
    CASE d.deleted /\ d.state # "Deleting" -> "patchStatus"
      [] OTHER ->
           CASE d.state = "Pending" -> "getModel"
             [] d.state = "Ready" ->
                  IF IsChanged(d) /\ ~d.spec.replace THEN "listOld" ELSE "idle"
             [] d.state = "Deleting" ->
                  IF d.spec.policy = "Delete" THEN "findModel" ELSE "removeFinalizer"

FirstClaimCallUnrecorded(d) ==
    CASE ~d.finalizer -> "addFinalizer"
      [] d.deleted -> IF d.spec.policy = "Delete" THEN "findModel" ELSE "removeFinalizer"
      [] d.finalizer /\ ~d.deleted ->
           CASE d.state = "Pending" -> "getModel"
             [] OTHER -> IF IsChanged(d) /\ ~d.spec.replace THEN "listOld" ELSE "idle"

\* The branch a reconciliation takes on its copy d of a claim.
FirstClaimCall(d) ==
    CASE d.deleted /\ d.state # "Deleting" -> "patchStatus"
      [] ~(d.deleted /\ d.state # "Deleting") /\ ~d.finalizer -> "addFinalizer"
      [] OTHER ->
           CASE d.state = "Pending" -> "getModel"
             [] d.state = "Ready" ->
                  IF IsChanged(d) /\ ~d.spec.replace THEN "listOld" ELSE "idle"
             [] d.state = "Deleting" ->
                  IF d.spec.policy = "Delete" THEN "findModel" ELSE "removeFinalizer"

\* A claim that allows its replacement is tried again and again: "Unimplemented yet!"
ClaimStart(c) ==
    LET d == claimCache[c]
        call == FirstClaimCall(d)
    IN  /\ claimPc[c] = "idle"
        /\ c \in claimQueue
        /\ d.exists
        /\ claimPc' = [claimPc EXCEPT ![c] = call]
        /\ claimSnap' = [claimSnap EXCEPT ![c] = IF call = "idle" THEN NoClaim(0) ELSE d]
        /\ claimQueue' = IF call = "idle" /\ IsChanged(d) THEN claimQueue ELSE claimQueue \ {c}
        /\ work' = [work EXCEPT ![c] =
                      IF call = "patchStatus" THEN Record("Deleting", d.bound) ELSE NoWork]
        /\ UNCHANGED <<vars, claim, claimCache>>

ClaimGoto(c, call) ==
    /\ claimPc' = [claimPc EXCEPT ![c] = call]
    /\ UNCHANGED <<claimSnap, claimQueue>>

ClaimEnd(c, requeued) ==
    /\ claimPc' = [claimPc EXCEPT ![c] = "idle"]
    /\ claimSnap' = [claimSnap EXCEPT ![c] = NoClaim(0)]
    /\ claimQueue' = claimQueue \cup requeued
    /\ work' = [work EXCEPT ![c] = NoWork]

ClaimAwait(c) == ClaimEnd(c, {})
ClaimRequeue(c) == ClaimEnd(c, {c})

ClaimFail(c) ==
    /\ claimPc[c] # "idle"
    /\ ClaimRequeue(c)
    /\ UNCHANGED <<vars, claim, claimCache>>

ClaimAddFinalizer(c) ==
    /\ claimPc[c] = "addFinalizer"
    /\ \/ /\ claim[c].exists
          /\ claim' = [claim EXCEPT ![c].finalizer = TRUE]
          /\ ClaimAwait(c)
       \/ /\ ~claim[c].exists
          /\ ClaimRequeue(c)
          /\ UNCHANGED claim
    /\ UNCHANGED <<vars, claimCache>>

ClaimRemoveFinalizer(c) ==
    /\ claimPc[c] = "removeFinalizer"
    /\ \/ /\ claim[c].exists
          /\ claim' = [claim EXCEPT ![c] =
                         IF @.deleted THEN NoClaim(@.uid) ELSE [@ EXCEPT !.finalizer = FALSE]]
          /\ ClaimAwait(c)
       \/ /\ ~claim[c].exists
          /\ ClaimRequeue(c)
          /\ UNCHANGED claim
    /\ UNCHANGED <<vars, claimCache>>

\* update_fields: the status first ...
PatchClaimStatus(c) ==
    /\ claimPc[c] = "patchStatus"
    /\ claim' = IF claim[c].exists
                THEN [claim EXCEPT ![c].state = work[c].state, ![c].bound = work[c].bound]
                ELSE claim
    /\ IF claim[c].exists THEN ClaimGoto(c, "patchSpec") /\ UNCHANGED work ELSE ClaimRequeue(c)
    /\ UNCHANGED <<vars, claimCache>>

\* ... then the storage name in the spec.
PatchClaimSpec(c) ==
    /\ claimPc[c] = "patchSpec"
    /\ claim' = IF claim[c].exists
                THEN [claim EXCEPT ![c].spec.storage = work[c].bound]
                ELSE claim
    /\ ClaimRequeue(c)
    /\ UNCHANGED <<vars, claimCache>>

-------------------------------------------------------------------------------
(* Binding a claim.                                                        *)

GetModel(c) ==
    /\ claimPc[c] = "getModel"
    /\ \/ IsReady(ModelOf[c]) /\ ClaimGoto(c, "listBindings") /\ UNCHANGED work
       \/ ~api[ModelOf[c]].exists /\ ClaimGoto(c, "createModel") /\ UNCHANGED work
       \/ /\ api[ModelOf[c]].exists /\ ~IsReady(ModelOf[c])
          /\ ClaimRequeue(c)
    /\ UNCHANGED <<vars, claim, claimCache>>

\* A new object, or the failure of its creation because of one of that name (or,
\* in the model, because the name has been used MaxUid[o] times).
Make(c, o, spec, next) ==
    \/ /\ ~api[o].exists /\ api[o].uid < MaxUid[o]
       /\ api' = [api EXCEPT ![o] = Created(@.uid + 1, spec)]
       /\ ClaimGoto(c, next)
       /\ UNCHANGED work
    \/ /\ api[o].exists \/ api[o].uid >= MaxUid[o]
       /\ ClaimRequeue(c)
       /\ UNCHANGED api

\* The model is not validated yet; the claim goes on all the same.
CreateModel(c) ==
    /\ claimPc[c] = "createModel"
    /\ Make(c, ModelOf[c], Dynamic, "listBindings")
    /\ UNCHANGED <<cache, queue, pc, snap, ctx, dataVars, claim, claimCache>>

\* A model that is bound already is enough; no storage is recorded then.
ListBindings(c) ==
    /\ claimPc[c] = "listBindings"
    /\ IF ModelBindings(c) # {}
       THEN /\ work' = [work EXCEPT ![c] = Record("Ready", None)]
            /\ ClaimGoto(c, "patchStatus")
       ELSE ClaimGoto(c, "chooseStorage") /\ UNCHANGED work
    /\ UNCHANGED <<vars, claim, claimCache>>

\* A plausible bug: that none is suitable is not reported.
ChooseStorageOrNone(c) ==
    /\ claimPc[c] = "chooseStorage"
    /\ \/ \E s \in PublishedStorages \cup {None} :
            /\ work' = [work EXCEPT ![c] = Record("Ready", s)]
            /\ ClaimGoto(c, "createBinding")
       \/ ClaimRequeue(c)
    /\ UNCHANGED <<vars, claim, claimCache>>

\* Capacities and metrics are read by a call each; any storage may turn out best,
\* or none suitable.
ChooseStorage(c) ==
    /\ claimPc[c] = "chooseStorage"
    /\ \/ \E s \in PublishedStorages :
            /\ work' = [work EXCEPT ![c] = Record("Ready", s)]
            /\ ClaimGoto(c, "createBinding")
       \/ ClaimRequeue(c)
    /\ UNCHANGED <<vars, claim, claimCache>>

CreateBinding(c) ==
    /\ claimPc[c] = "createBinding"
    /\ Make(c, BindingOf[c], Owned(ModelOf[c], work[c].bound, claimSnap[c].spec.policy),
            "patchStatus")
    /\ UNCHANGED <<cache, queue, pc, snap, ctx, dataVars, claim, claimCache>>

-------------------------------------------------------------------------------
(* Unbinding a claim, to bind it again or for good.                        *)

FindModel(c) ==
    /\ claimPc[c] = "findModel"
    /\ \/ IsReady(ModelOf[c]) /\ ClaimGoto(c, "listOld") /\ UNCHANGED work
       \/ ~api[ModelOf[c]].exists /\ ClaimGoto(c, "removeFinalizer") /\ UNCHANGED work
       \/ /\ api[ModelOf[c]].exists /\ ~IsReady(ModelOf[c])
          /\ ClaimRequeue(c)
    /\ UNCHANGED <<vars, claim, claimCache>>

ListOld(c) ==
    /\ claimPc[c] = "listOld"
    /\ work' = [work EXCEPT ![c].old = ModelBindings(c)]
    /\ ClaimGoto(c, "deleteOld")
    /\ UNCHANGED <<vars, claim, claimCache>>

\* A plausible bug: the deletion is forced, finalizers or not.
DoomAtOnce(o) == api' = [api EXCEPT ![o] = Absent(@.uid)]

\* The API server's part of a deletion.
Doom(o) ==
    api' = [api EXCEPT ![o] =
              IF @.finalizer THEN [@ EXCEPT !.deleted = TRUE] ELSE Absent(@.uid)]

\* The listed bindings are deleted in any order; one that has gone is an error.
\* Then a new binding is made, or the model follows after three seconds.
DeleteOld(c) ==
    /\ claimPc[c] = "deleteOld"
    /\ \/ /\ work[c].old = {}
          /\ ClaimGoto(c, IF claimSnap[c].state = "Deleting" THEN "deleteModel" ELSE "getModel")
          /\ UNCHANGED <<api, work>>
       \/ \E b \in work[c].old :
            \/ /\ api[b].exists
               /\ Doom(b)
               /\ work' = [work EXCEPT ![c].old = @ \ {b}]
               /\ ClaimGoto(c, "deleteOld")
            \/ /\ ~api[b].exists
               /\ ClaimRequeue(c)
               /\ UNCHANGED api
    /\ UNCHANGED <<cache, queue, pc, snap, ctx, dataVars, claim, claimCache>>

DeleteModel(c) ==
    /\ claimPc[c] = "deleteModel"
    /\ \/ /\ api[ModelOf[c]].exists
          /\ Doom(ModelOf[c])
          /\ ClaimGoto(c, "removeFinalizer")
          /\ UNCHANGED work
       \/ /\ ~api[ModelOf[c]].exists
          /\ ClaimRequeue(c)
          /\ UNCHANGED api
    /\ UNCHANGED <<cache, queue, pc, snap, ctx, dataVars, claim, claimCache>>

-------------------------------------------------------------------------------
(* The environment.                                                        *)

ClaimWatch(c) ==
    /\ claimCache[c] # claim[c]
    /\ claimCache' = [claimCache EXCEPT ![c] = claim[c]]
    /\ claimQueue' = IF claim[c].exists THEN claimQueue \cup {c} ELSE claimQueue \ {c}
    /\ UNCHANGED <<vars, claim, claimPc, claimSnap, work>>

RestartAll ==
    /\ Restart
    /\ claimCache' = claim
    /\ claimQueue' = {c \in Claims : claim[c].exists}
    /\ claimPc' = [c \in Claims |-> "idle"]
    /\ claimSnap' = [c \in Claims |-> NoClaim(0)]
    /\ work' = [c \in Claims |-> NoWork]
    /\ UNCHANGED claim

CreateClaim(c) ==
    /\ ~claim[c].exists
    /\ claim[c].uid < MaxClaimUid
    /\ \E sp \in ClaimSpecs :
          claim' = [claim EXCEPT ![c] =
                      [NoClaim(@.uid + 1) EXCEPT !.exists = TRUE, !.spec = sp]]
    /\ UNCHANGED <<vars, claimCache, claimQueue, claimPc, claimSnap, work>>

DeleteClaim(c) ==
    /\ claim[c].exists
    /\ ~claim[c].deleted
    /\ claim' = [claim EXCEPT ![c] =
                   IF @.finalizer THEN [@ EXCEPT !.deleted = TRUE] ELSE NoClaim(@.uid)]
    /\ UNCHANGED <<vars, claimCache, claimQueue, claimPc, claimSnap, work>>

-------------------------------------------------------------------------------
ClaimInit ==
    /\ Init
    /\ claim = [c \in Claims |-> NoClaim(0)]
    /\ claimCache = claim
    /\ claimQueue = {}
    /\ claimPc = [c \in Claims |-> "idle"]
    /\ claimSnap = [c \in Claims |-> NoClaim(0)]
    /\ work = [c \in Claims |-> NoWork]

ReconcileClaim(c) ==
    \/ ClaimStart(c) \/ ClaimAddFinalizer(c) \/ ClaimRemoveFinalizer(c)
    \/ PatchClaimStatus(c) \/ PatchClaimSpec(c)
    \/ GetModel(c) \/ CreateModel(c) \/ ListBindings(c)
    \/ ChooseStorage(c) \/ CreateBinding(c)
    \/ FindModel(c) \/ ListOld(c) \/ DeleteOld(c) \/ DeleteModel(c)

ClaimUser(c) == CreateClaim(c) \/ DeleteClaim(c)

\* The other three controllers' next call; that of a model sees the claims.
ReconcileOther(o) ==
    \/ ReconcileObject(o)
    \/ o \in Storages /\ ReconcileModelStorage(o)
    \/ o \in Models /\ (AssertEmptyBindings(o) \/ AssertEmptyClaims(o, ClaimState(o)))
    \/ o \in Bindings /\ ReconcileBinding(o)

OtherWork ==
    /\ \/ \E o \in Objects : ReconcileOther(o) \/ Watch(o)
       \/ \E k \in jobs : RunJob(k)
       \/ \E o \in Manual : User(o)
    /\ UNCHANGED claimVars

ClaimWork == \E c \in Claims : ReconcileClaim(c) \/ ClaimWatch(c) \/ ClaimUser(c)

ClaimFault ==
    \/ RestartAll
    \/ \E c \in Claims : ClaimFail(c)
    \/ /\ \E o \in Objects : Fail(o)
       /\ UNCHANGED claimVars
    \/ /\ \E b \in Bindings : LoadFails(b)
       /\ UNCHANGED claimVars

ClaimNext == OtherWork \/ ClaimWork \/ ClaimFault

ClaimsSpec == ClaimInit /\ [][ClaimNext]_<<vars, claimVars>>

-------------------------------------------------------------------------------
(* Properties.                                                             *)

\* Every variable of the controller of claims has its type, and a binding is only made
\* to a storage that the optimizer has found.
ClaimTypeOK ==
    /\ claim \in [Claims -> ClaimObject]
    /\ claimCache \in [Claims -> ClaimObject]
    /\ claimQueue \subseteq Claims
    /\ claimPc \in [Claims -> ClaimPhases]
    /\ claimSnap \in [Claims -> ClaimObject]
    /\ work \in [Claims -> Errand]
    /\ \A c \in Claims : claimPc[c] = "createBinding" => work[c].bound \in Storages

\* What a claim owns is only made, and its status and spec are only patched, while
\* the incarnation that was read is still there under the finalizer: the forced
\* apply of update_fields, which would create an object that is gone, never meets
\* one, and a Deleting claim does not come back to Ready.
ClaimBinding ==
    {"getModel", "createModel", "listBindings", "chooseStorage", "createBinding",
     "patchStatus", "patchSpec"}

ClaimWorkIsProtected ==
    \A c \in Claims :
        claimPc[c] \in ClaimBinding =>
            /\ claim[c].exists /\ claim[c].uid = claimSnap[c].uid
            /\ claim[c].finalizer
            /\ ~claimSnap[c].deleted => claim[c].state # "Deleting"

\* The life of each claim (ctx/model_claim.rs, reconcile) is that of ObjectLifecycle.
LifecycleOfClaims == INSTANCE ObjectLifecycle
    WITH Objects <- Claims,
         phase <- [c \in Claims |-> Phase(claim[c])],
         doomed <- [c \in Claims |-> claim[c].deleted]

ClaimLifecycle == LifecycleOfClaims!Spec

\* Whatever claims do, the other three controllers see nothing that users could not
\* have done: what StorageOperator promises holds next to claims as well.
StorageSpec == Spec

\* "model claim is binded": a model under the operator's finalizer is not let go
\* while its claim is Ready, although the check and the release are two calls and
\* the claim binds the model in between.
ReadyClaimKeepsModel ==
    [][\A c \in Claims :
          claim[c].state = "Ready" /\ api[ModelOf[c]].finalizer
          => api'[ModelOf[c]].exists]_<<vars, claimVars>>

\* "Test changed": a Ready claim whose storage nobody has changed does not take its
\* binding down.
ClaimKeepsBinding ==
    [][\A c \in Claims :
          work'[c] # work[c] /\ claim[c].state = "Ready"
             /\ claim[c].bound = claim[c].spec.storage
          => \A b \in Bindings : api'[b].deleted => api[b].deleted]_<<vars, claimVars>>
==============================================================================
