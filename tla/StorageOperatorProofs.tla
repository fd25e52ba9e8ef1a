------------------------- MODULE StorageOperatorProofs -------------------------
(***************************************************************************)
(* Proofs about StorageOperator for any number of models, storages and     *)
(* bindings.  Inv is inductive: each action touches one object, so that    *)
(* each action has a lemma about that object, and Unmoved speaks for the   *)
(* others.                                                                 *)
(***************************************************************************)
EXTENDS StorageOperatorInv, TLAPS

\* An object none of whose copies, nor its reconciliation, changes.
Still(o) ==
    /\ api'[o] = api[o] /\ cache'[o] = cache[o]
    /\ pc'[o] = pc[o] /\ snap'[o] = snap[o]
    /\ o \in Bindings => ctx'[o] = ctx[o]

\* An action that leaves an object and its copies alone keeps what holds of it.
LEMMA Unmoved ==
    ASSUME NEW o \in Objects, ObjectInv(o), Still(o)
    PROVE  ObjectInv(o)'
<1>1. (CopiesSane(o) /\ CacheTrusted(o))'
  BY DEF Still, ObjectInv, CopiesSane, CacheTrusted, Sane, Older, Same
<1>2. (SnapSane(o) /\ SnapTrusted(o))'
  BY DEF Still, ObjectInv, SnapSane, SnapTrusted, Sane, Older, Same
<1>3. PhaseFits(o)'
  BY DEF Still, ObjectInv, PhaseFits
<1>4. ContentsFit(o)'
  BY DEF Still, ObjectInv, ContentsFit, ContentFits
<1> QED
  BY <1>1, <1>2, <1>3, <1>4 DEF ObjectInv

-------------------------------------------------------------------------------
(* What one object's step does to the others, and to the types.            *)

\* The step of o leaves every other object still.
Alone(o) == \A p \in Objects \ {o} : Still(p)

\* What each action's lemma shows, and why that is enough.
Moves(o) == TypeOK' /\ ObjectInv(o)' /\ Alone(o)

\* If an action keeps what holds of the one object it moves, it keeps the invariant.
LEMMA MovesInv ==
    ASSUME Inv, NEW o \in Objects, Moves(o)
    PROVE  Inv'
  BY Unmoved DEF Inv, Moves, Alone

\* The parts of the type invariant for one object.
LEMMA Types ==
    ASSUME Inv, NEW o \in Objects
    PROVE  /\ api[o] \in Object /\ cache[o] \in Object /\ snap[o] \in Object
           /\ pc[o] \in Phases
           /\ o \in Bindings => ctx[o] \in Context \cup {None}
           /\ ObjectInv(o)
  BY DEF Inv, TypeOK

\* The copy that a reconciliation works on is older than that on the API server.
LEMMA SnapOlder ==
    ASSUME Inv, NEW o \in Objects, pc[o] # "idle"
    PROVE  Older(snap[o], api[o])
  BY Types DEF ObjectInv, SnapSane, CopiesSane, Older, Object

\* An object that is not there has the type of an object.
LEMMA AbsentType == ASSUME NEW n \in Nat PROVE Absent(n) \in Object
  BY DEF Absent, Object, State

\* The end of a reconciliation.
LEMMA EndStep ==
    ASSUME Inv, NEW o \in Objects, NEW r \in SUBSET Objects, End(o, r)
    PROVE  /\ pc' \in [Objects -> Phases] /\ snap' \in [Objects -> Object]
           /\ queue' \subseteq Objects
           /\ pc'[o] = "idle"
           /\ \A p \in Objects \ {o} : pc'[p] = pc[p] /\ snap'[p] = snap[p]
  BY AbsentType DEF Inv, TypeOK, End, Phases

\* The next call of a reconciliation.
LEMMA GotoStep ==
    ASSUME Inv, NEW o \in Objects, NEW c \in Phases, Goto(o, c)
    PROVE  /\ pc' \in [Objects -> Phases] /\ snap' \in [Objects -> Object]
           /\ queue' \subseteq Objects
           /\ pc'[o] = c /\ snap'[o] = snap[o]
           /\ \A p \in Objects \ {o} : pc'[p] = pc[p] /\ snap'[p] = snap[p]
  BY DEF Inv, TypeOK, Goto

\* What a reconciliation that ends or patches does to the contexts.
LEMMA ContextStep ==
    ASSUME Inv, NEW o \in Objects, NoContext(o)
    PROVE  /\ ctx' \in [Bindings -> Context \cup {None}]
           /\ \A b \in Bindings \ {o} : ctx'[b] = ctx[b]
  BY DEF Inv, TypeOK, NoContext, ClearContext

\* A reconciliation that ends without a write.
LEMMA Ends ==
    ASSUME NEW o \in Objects, ObjectInv(o), pc'[o] = "idle",
           api'[o] = api[o], cache'[o] = cache[o]
    PROVE  ObjectInv(o)'
<1>1. (CopiesSane(o) /\ CacheTrusted(o))'
  BY DEF ObjectInv, CopiesSane, CacheTrusted, Sane, Older, Same
<1>2. (SnapSane(o) /\ SnapTrusted(o) /\ PhaseFits(o))'
  BY DEF SnapSane, SnapTrusted, PhaseFits, Binding
<1>3. ContentsFit(o)'
  BY DEF ObjectInv, ContentsFit, ContentFits, BindingPhases, Loading
<1> QED
  BY <1>1, <1>2, <1>3 DEF ObjectInv

\* A reconciliation that goes on.
LEMMA GoesOn ==
    ASSUME NEW o \in Objects, ObjectInv(o), pc[o] # "idle",
           api'[o] = api[o], cache'[o] = cache[o], snap'[o] = snap[o],
           PhaseFits(o)',
           pc'[o] \in BindingPhases => o \in Bindings,
           o \in Bindings /\ pc'[o] \in (BindingPhases \ {"loadModel"}) \cup {"patchReady"}
              => ctx'[o] \in Context,
           pc'[o] = "loadSource" => snap[o].spec.source # None,
           o \in Bindings /\ pc'[o] = "sync" => ctx'[o].source # None
    PROVE  ObjectInv(o)'
<1>1. (CopiesSane(o) /\ CacheTrusted(o))'
  BY DEF ObjectInv, CopiesSane, CacheTrusted, Sane, Older, Same
<1>2. (SnapSane(o) /\ SnapTrusted(o))'
  BY DEF ObjectInv, SnapSane, SnapTrusted, Sane, Older, Same
<1>3. ContentsFit(o)'
  BY DEF ObjectInv, ContentsFit, ContentFits
<1> QED
  BY <1>1, <1>2, <1>3 DEF ObjectInv

-------------------------------------------------------------------------------
(* The calls every reconciler shares.                                      *)

\* add_finalizer protects the object that was read, or finds another one untouched.
LEMMA AddFinalizerInv ==
    ASSUME Inv, NEW o \in Objects, AddFinalizer(o)
    PROVE  Moves(o)
<1>1. ObjectInv(o) /\ api[o] \in Object /\ cache[o] \in Object /\ snap[o] \in Object
  BY Types
<1>2. pc[o] = "addFinalizer" /\ cache' = cache /\ NoContext(o)
      /\ UNCHANGED dataVars
      /\ \E r \in {{}, {o}} : End(o, r)
  BY DEF AddFinalizer, Await, Requeue
<1>3. /\ pc' \in [Objects -> Phases] /\ snap' \in [Objects -> Object]
      /\ queue' \subseteq Objects
      /\ pc'[o] = "idle"
      /\ \A p \in Objects \ {o} : pc'[p] = pc[p] /\ snap'[p] = snap[p]
  BY <1>2, EndStep
<1>4. api'[o] = IF api[o].exists THEN [api[o] EXCEPT !.finalizer = TRUE] ELSE api[o]
  BY DEF Inv, TypeOK, AddFinalizer
<1>5. TypeOK'
  <2>1. api'[o] \in Object /\ api'[o].state = api[o].state /\ api'[o].status = api[o].status
    BY <1>1, <1>4 DEF Object
  <2>2. api' \in [Objects -> Object] /\ \A p \in Objects \ {o} : api'[p] = api[p]
    BY <2>1 DEF Inv, TypeOK, AddFinalizer
  <2> QED
    BY <1>2, <1>3, <2>1, <2>2, ContextStep DEF Inv, TypeOK, dataVars, Objects
<1>6. Alone(o)
  BY <1>2, <1>3, ContextStep DEF Inv, TypeOK, Alone, Still, AddFinalizer
<1>7. (CopiesSane(o) /\ CacheTrusted(o))'
  BY <1>1, <1>2, <1>4
     DEF ObjectInv, CopiesSane, CacheTrusted, SnapSane, SnapTrusted, PhaseFits,
         Sane, Older, Same, Object
<1>8. (SnapSane(o) /\ SnapTrusted(o) /\ PhaseFits(o))'
  BY <1>3 DEF SnapSane, SnapTrusted, PhaseFits, Binding
<1>9. ContentsFit(o)'
  BY <1>1, <1>2, <1>3, <1>4
     DEF ObjectInv, ContentsFit, ContentFits, BindingPhases, Loading, Object
<1> QED
  BY <1>5, <1>6, <1>7, <1>8, <1>9 DEF Moves, ObjectInv

\* remove_finalizer is only reached when the object, if still there, is Deleting.
LEMMA RemoveFinalizerInv ==
    ASSUME Inv, NEW o \in Objects, RemoveFinalizer(o)
    PROVE  Moves(o)
<1>1. ObjectInv(o) /\ api[o] \in Object /\ cache[o] \in Object /\ snap[o] \in Object
  BY Types
<1>2. pc[o] = "removeFinalizer" /\ cache' = cache /\ NoContext(o)
      /\ UNCHANGED dataVars
      /\ \E r \in {{}, {o}} : End(o, r)
  BY DEF RemoveFinalizer, Await, Requeue
<1>3. /\ pc' \in [Objects -> Phases] /\ snap' \in [Objects -> Object]
      /\ queue' \subseteq Objects
      /\ pc'[o] = "idle"
      /\ \A p \in Objects \ {o} : pc'[p] = pc[p] /\ snap'[p] = snap[p]
  BY <1>2, EndStep
\* An object on the API server that is not to be deleted has come later, and has
\* no finalizer yet.
<1>4. ~api[o].deleted => ~api[o].finalizer
  BY <1>1, <1>2
     DEF ObjectInv, SnapSane, SnapTrusted, CopiesSane, PhaseFits, Sane, Older, Same, Object
<1>5. api'[o] = IF api[o].deleted THEN Absent(api[o].uid) ELSE api[o]
  <2>1. api[o].deleted => api[o].exists
    BY <1>1 DEF ObjectInv, CopiesSane, Sane
  <2>2. api[o].deleted => api'[o] = Absent(api[o].uid)
    BY <2>1 DEF Inv, TypeOK, RemoveFinalizer
  <2>3. ~api[o].deleted => [api[o] EXCEPT !.finalizer = FALSE] = api[o]
    BY <1>1, <1>4 DEF Object
  <2>4. ~api[o].deleted => api'[o] = api[o]
    BY <2>3 DEF Inv, TypeOK, RemoveFinalizer
  <2> QED
    BY <2>2, <2>4
<1>6. TypeOK'
  <2>1. api'[o] \in Object /\ (api'[o].state = "Ready" => api'[o] = api[o])
    BY <1>1, <1>5, AbsentType DEF Object, Absent
  <2>2. api' \in [Objects -> Object] /\ \A p \in Objects \ {o} : api'[p] = api[p]
    BY <2>1 DEF Inv, TypeOK, RemoveFinalizer
  <2> QED
    BY <1>2, <1>3, <2>1, <2>2, ContextStep DEF Inv, TypeOK, dataVars, Objects
<1>7. Alone(o)
  BY <1>2, <1>3, ContextStep DEF Inv, TypeOK, Alone, Still, RemoveFinalizer
<1>8. CopiesSane(o)'
  BY <1>1, <1>2, <1>5 DEF ObjectInv, CopiesSane, Sane, Older, Object, Absent
<1>9. CacheTrusted(o)'
  BY <1>1, <1>2, <1>5
     DEF ObjectInv, CopiesSane, CacheTrusted, SnapSane, SnapTrusted, PhaseFits,
         Sane, Older, Same, Object, Absent
<1>10. (SnapSane(o) /\ SnapTrusted(o) /\ PhaseFits(o))'
  BY <1>3 DEF SnapSane, SnapTrusted, PhaseFits, Binding
<1>11. ContentsFit(o)'
  BY <1>1, <1>2, <1>3, <1>5
     DEF ObjectInv, ContentsFit, ContentFits, BindingPhases, Loading, Object, Absent
<1> QED
  BY <1>6, <1>7, <1>8, <1>9, <1>10, <1>11 DEF Moves, ObjectInv

\* patch_status writes the state and the status and nothing else.
LEMMA PatchStep ==
    ASSUME Inv, NEW o \in Objects, NEW st \in State,
           NEW d \in Context \cup {Kind, None}, PatchStatus(o, st, d),
           o \in Bindings /\ st = "Ready" => d \in Context
    PROVE  /\ api' \in [Objects -> Object]
           /\ \A p \in Objects \ {o} : api'[p] = api[p]
           /\ \A b \in Bindings : api'[b].state = "Ready" => api'[b].status \in Context
           /\ IF api[o].exists
              THEN api'[o] = [api[o] EXCEPT !.state = st, !.status = d]
              ELSE api'[o] = api[o]
<1>1. api[o] \in Object
  BY Types
<1>2. IF api[o].exists THEN api'[o] = [api[o] EXCEPT !.state = st, !.status = d]
      ELSE api'[o] = api[o]
  BY DEF Inv, TypeOK, PatchStatus
<1>3. api'[o] \in Object /\ (api[o].exists => api'[o].state = st /\ api'[o].status = d)
  BY <1>1, <1>2 DEF Object
<1>4. api' \in [Objects -> Object] /\ \A p \in Objects \ {o} : api'[p] = api[p]
  BY <1>3 DEF Inv, TypeOK, PatchStatus
<1> QED
  BY <1>2, <1>3, <1>4 DEF Inv, TypeOK, Objects

\* Recording a deletion keeps the invariant: the copy has the deletion request.
LEMMA MarkDeletingInv ==
    ASSUME Inv, NEW o \in Objects, MarkDeleting(o)
    PROVE  Moves(o)
<1>1. ObjectInv(o) /\ api[o] \in Object /\ cache[o] \in Object /\ snap[o] \in Object
  BY Types
<1>2. pc[o] = "markDeleting" /\ cache' = cache /\ NoContext(o)
      /\ UNCHANGED dataVars /\ End(o, {o})
      /\ PatchStatus(o, "Deleting", snap[o].status)
  BY DEF MarkDeleting, Requeue
<1>3. /\ pc' \in [Objects -> Phases] /\ snap' \in [Objects -> Object]
      /\ queue' \subseteq Objects
      /\ pc'[o] = "idle"
      /\ \A p \in Objects \ {o} : pc'[p] = pc[p] /\ snap'[p] = snap[p]
  BY <1>2, EndStep
<1>4. snap[o].status \in Context \cup {Kind, None}
  BY <1>1 DEF Object
<1>5. /\ api' \in [Objects -> Object]
      /\ \A p \in Objects \ {o} : api'[p] = api[p]
      /\ \A b \in Bindings : api'[b].state = "Ready" => api'[b].status \in Context
      /\ api[o].exists =>
            api'[o] = [api[o] EXCEPT !.state = "Deleting", !.status = snap[o].status]
      /\ ~api[o].exists => api'[o] = api[o]
  BY <1>2, <1>4, PatchStep DEF State
<1>6. TypeOK'
  BY <1>2, <1>3, <1>5, ContextStep DEF Inv, TypeOK, dataVars
<1>7. Alone(o)
  BY <1>2, <1>3, <1>5, ContextStep DEF Alone, Still
<1>8. (CopiesSane(o) /\ CacheTrusted(o))'
  \* The request was in the copy that was read, and in every copy since.
  <2>1. snap[o].deleted /\ snap[o].finalizer /\ Same(snap[o], api[o])
    BY <1>1, <1>2 DEF ObjectInv, SnapSane, SnapTrusted, PhaseFits, Sane
  <2>2. Same(snap[o], cache[o]) /\ cache[o].deleted
    BY <1>1, <1>2, <2>1 DEF ObjectInv, SnapSane, CopiesSane, Older, Same, Object
  <2>3. Same(cache[o], api[o]) /\ api[o].deleted /\ api[o].finalizer
    BY <1>1, <2>1, <2>2 DEF ObjectInv, CopiesSane, Sane, Older, Same, Object
  <2> QED
    BY ZenonT(60), <1>1, <1>2, <1>5, <2>2, <2>3
       DEF ObjectInv, CopiesSane, CacheTrusted, Sane, Older, Same, Object
<1>9. (SnapSane(o) /\ SnapTrusted(o) /\ PhaseFits(o))'
  BY <1>3 DEF SnapSane, SnapTrusted, PhaseFits, Binding
<1>10. ContentsFit(o)'
  BY <1>1, <1>2, <1>3, <1>5
     DEF ObjectInv, ContentsFit, ContentFits, BindingPhases, Loading, Object
<1> QED
  BY <1>6, <1>7, <1>8, <1>9, <1>10 DEF Moves, ObjectInv

\* The object that is made Ready is the one that was read, under the finalizer.
LEMMA ReadyTarget ==
    ASSUME Inv, NEW o \in Objects, pc[o] \in {"validate"} \cup Binding
    PROVE  /\ Same(snap[o], api[o]) /\ api[o].finalizer /\ api[o].state # "Deleting"
           /\ cache[o].finalizer => Same(cache[o], api[o])
<1>1. ObjectInv(o) /\ api[o] \in Object /\ cache[o] \in Object /\ snap[o] \in Object
  BY Types
<1>2. snap[o].finalizer /\ ~snap[o].deleted /\ snap[o].state # "Deleting" /\ pc[o] # "idle"
  BY <1>1 DEF ObjectInv, PhaseFits, Binding
<1>3. Same(snap[o], api[o]) /\ api[o].state # "Deleting"
      /\ (cache[o].finalizer => Same(cache[o], api[o]))
  BY <1>1, <1>2 DEF ObjectInv, SnapTrusted
<1>4. Same(snap[o], cache[o]) \/ cache[o].uid > snap[o].uid \/ ~cache[o].exists
  BY <1>1, <1>2 DEF ObjectInv, SnapSane, Older, Same, Object
<1>5. api[o].finalizer
  BY <1>1, <1>2, <1>3, <1>4 DEF ObjectInv, SnapSane, CopiesSane, Older, Same, Object
<1> QED
  BY <1>3, <1>5

\* An object is made Ready only under the finalizer, never from Deleting.
LEMMA PatchReadyInv ==
    ASSUME Inv, NEW o \in Objects, PatchReady(o)
    PROVE  Moves(o)
<1> DEFINE d == IF o \in Bindings THEN ctx[o] ELSE IF o \in Storages THEN Kind ELSE None
<1>1. ObjectInv(o) /\ api[o] \in Object /\ cache[o] \in Object /\ snap[o] \in Object
  BY Types
<1>2. pc[o] = "patchReady" /\ cache' = cache /\ NoContext(o)
      /\ UNCHANGED dataVars /\ End(o, {o})
      /\ PatchStatus(o, "Ready", d)
  BY DEF PatchReady, Requeue
<1>3. /\ pc' \in [Objects -> Phases] /\ snap' \in [Objects -> Object]
      /\ queue' \subseteq Objects
      /\ pc'[o] = "idle"
      /\ \A p \in Objects \ {o} : pc'[p] = pc[p] /\ snap'[p] = snap[p]
  BY <1>2, EndStep
<1>4. d \in Context \cup {Kind, None} /\ (o \in Bindings => d \in Context)
  BY <1>1, <1>2 DEF ObjectInv, ContentsFit
<1> HIDE DEF d
<1>5. /\ api' \in [Objects -> Object]
      /\ \A p \in Objects \ {o} : api'[p] = api[p]
      /\ \A b \in Bindings : api'[b].state = "Ready" => api'[b].status \in Context
      /\ api[o].exists => api'[o] = [api[o] EXCEPT !.state = "Ready", !.status = d]
      /\ ~api[o].exists => api'[o] = api[o]
  BY <1>2, <1>4, PatchStep DEF State
<1>6. TypeOK'
  BY <1>2, <1>3, <1>5, ContextStep DEF Inv, TypeOK, dataVars
<1>7. Alone(o)
  BY <1>2, <1>3, <1>5, ContextStep DEF Alone, Still
<1>8. (CopiesSane(o) /\ CacheTrusted(o))'
  BY ZenonT(60), <1>1, <1>2, <1>5, ReadyTarget
     DEF ObjectInv, CopiesSane, CacheTrusted, Sane, Older, Same, Object, Binding
<1>9. (SnapSane(o) /\ SnapTrusted(o) /\ PhaseFits(o))'
  BY <1>3 DEF SnapSane, SnapTrusted, PhaseFits, Binding
<1>10. ContentsFit(o)'
  BY <1>1, <1>2, <1>3, <1>4, <1>5
     DEF ObjectInv, ContentsFit, ContentFits, BindingPhases, Loading, Object
<1> QED
  BY <1>6, <1>7, <1>8, <1>9, <1>10 DEF Moves, ObjectInv

\* A reconciliation starts with a call that fits the cached copy.
LEMMA StartInv ==
    ASSUME Inv, NEW o \in Objects, Start(o)
    PROVE  Moves(o)
<1>1. ObjectInv(o) /\ api[o] \in Object /\ cache[o] \in Object /\ snap[o] \in Object
  BY Types
<1>2. /\ cache[o].exists /\ api' = api /\ cache' = cache /\ ctx' = ctx
      /\ UNCHANGED dataVars
      /\ pc' = [pc EXCEPT ![o] = FirstCall(o, cache[o])]
      /\ snap' = [snap EXCEPT ![o] = IF pc'[o] = "idle" THEN Absent(0) ELSE cache[o]]
      /\ queue' = queue \ {o}
  BY DEF Start
<1>3. FirstCall(o, cache[o]) \in Phases
  BY DEF FirstCall, Phases
<1>4. /\ pc' \in [Objects -> Phases] /\ pc'[o] = FirstCall(o, cache[o])
      /\ \A p \in Objects \ {o} : pc'[p] = pc[p]
  BY <1>2, <1>3 DEF Inv, TypeOK
<1>5. /\ snap' \in [Objects -> Object]
      /\ pc'[o] # "idle" => snap'[o] = cache[o]
      /\ \A p \in Objects \ {o} : snap'[p] = snap[p]
  BY <1>1, <1>2, AbsentType DEF Inv, TypeOK
<1>6. TypeOK'
  BY <1>2, <1>4, <1>5 DEF Inv, TypeOK, dataVars
<1>7. Alone(o)
  BY <1>2, <1>4, <1>5 DEF Alone, Still
<1>8. (CopiesSane(o) /\ CacheTrusted(o))'
  BY <1>1, <1>2 DEF ObjectInv, CopiesSane, CacheTrusted, Sane, Older, Same
<1>9. (SnapSane(o) /\ SnapTrusted(o))'
  BY <1>1, <1>2, <1>5
     DEF ObjectInv, CopiesSane, CacheTrusted, SnapSane, SnapTrusted, Sane, Older, Same, Object
<1>10. PhaseFits(o)'
  BY <1>1, <1>4, <1>5 DEF ObjectInv, PhaseFits, FirstCall, Binding, CopiesSane, Sane, Object, State
<1>11. ContentsFit(o)'
  BY <1>1, <1>2, <1>4, <1>5, NamesAssumption
     DEF ObjectInv, ContentsFit, ContentFits, BindingPhases, Loading, FirstCall
<1> QED
  BY <1>6, <1>7, <1>8, <1>9, <1>10, <1>11 DEF Moves, ObjectInv

\* A failed call ends the reconciliation and writes nothing.
LEMMA FailInv ==
    ASSUME Inv, NEW o \in Objects, Fail(o)
    PROVE  Moves(o)
<1>1. End(o, {o}) /\ NoContext(o) /\ UNCHANGED <<api, cache, dataVars>>
  BY DEF Fail, Requeue
<1>2. TypeOK'
  BY <1>1, EndStep, ContextStep DEF Inv, TypeOK, dataVars
<1>3. Alone(o)
  BY <1>1, EndStep, ContextStep DEF Alone, Still
<1>4. ObjectInv(o)'
  BY <1>1, EndStep, Ends, Types
<1> QED
  BY <1>2, <1>3, <1>4 DEF Moves

-------------------------------------------------------------------------------
(* The calls that write neither the API server nor the cache.              *)

\* What such a call does to the context of o and to the object storages.
Tidy(o) ==
    /\ UNCHANGED <<api, cache>>
    /\ ctx' \in [Bindings -> Context \cup {None}]
    /\ \A b \in Bindings \ {o} : ctx'[b] = ctx[b]
    /\ buckets' \subseteq Storages \X Models
    /\ links' \subseteq Storages \X Storages \X Models
    /\ jobs' \subseteq Storages \X Models

Entry == {"idle", "markDeleting", "addFinalizer"}

\* A call that ends the reconciliation without a write keeps the invariant.
LEMMA EndsInv ==
    ASSUME Inv, NEW o \in Objects, NEW r \in SUBSET Objects, End(o, r), Tidy(o)
    PROVE  Moves(o)
<1>1. TypeOK'
  BY EndStep DEF Inv, TypeOK, Tidy
<1>2. Alone(o)
  BY EndStep DEF Alone, Still, Tidy
<1>3. ObjectInv(o)'
  BY EndStep, Ends, Types DEF Tidy
<1> QED
  BY <1>1, <1>2, <1>3 DEF Moves

\* A call that goes on to one that fits the copy keeps the invariant.
LEMMA GoesOnInv ==
    ASSUME Inv, NEW o \in Objects, pc[o] \notin Entry, Tidy(o),
           NEW c \in Phases \ Entry, Goto(o, c),
           c \in {"validate"} \cup Binding => snap[o].state # "Deleting",
           c \in {"removeFinalizer", "checkBindings", "checkClaims"} => snap[o].state = "Deleting",
           c \in {"unsync", "deleteJob"} => snap[o].state # "Pending",
           c \in BindingPhases => o \in Bindings,
           o \in Bindings /\ c \in (BindingPhases \ {"loadModel"}) \cup {"patchReady"}
              => ctx'[o] \in Context,
           c = "loadSource" => snap[o].spec.source # None,
           o \in Bindings /\ c = "sync" => ctx'[o].source # None
    PROVE  Moves(o)
<1>1. /\ pc' \in [Objects -> Phases] /\ snap' \in [Objects -> Object]
      /\ queue' \subseteq Objects
      /\ pc'[o] = c /\ snap'[o] = snap[o]
      /\ \A p \in Objects \ {o} : pc'[p] = pc[p] /\ snap'[p] = snap[p]
  BY GotoStep
<1>2. TypeOK'
  BY <1>1 DEF Inv, TypeOK, Tidy
<1>3. Alone(o)
  BY <1>1 DEF Alone, Still, Tidy
<1>4. PhaseFits(o)'
  BY <1>1, Types DEF ObjectInv, PhaseFits, Entry
<1>5. ObjectInv(o)'
  BY <1>1, <1>4, GoesOn, Types DEF Tidy, Entry
<1> QED
  BY <1>2, <1>3, <1>5 DEF Moves

\* The check for another unique storage keeps the invariant.
LEMMA ValidateModelStorageInv ==
    ASSUME Inv, NEW s \in Storages, ValidateModelStorage(s)
    PROVE  Moves(s)
<1>1. s \in Objects /\ s \notin Bindings /\ pc[s] = "validate" /\ Tidy(s)
  BY NamesAssumption DEF Objects, ValidateModelStorage, Tidy, Inv, TypeOK, dataVars
<1>2. CASE Requeue(s)
  BY <1>1, <1>2, EndsInv DEF Requeue
<1>3. CASE Goto(s, "patchReady")
  <2>1. snap[s].state # "Deleting"
    BY <1>1, Types DEF ObjectInv, PhaseFits
  <2> QED
    BY <1>1, <1>3, <2>1, GoesOnInv DEF Entry, Phases, BindingPhases, Loading
<1> QED
  BY <1>2, <1>3 DEF ValidateModelStorage

\* The check that a storage is not bound keeps the invariant.
LEMMA DeleteModelStorageInv ==
    ASSUME Inv, NEW s \in Storages, DeleteModelStorage(s)
    PROVE  Moves(s)
<1>1. s \in Objects /\ s \notin Bindings /\ pc[s] = "checkBindings" /\ Tidy(s)
  BY NamesAssumption DEF Objects, DeleteModelStorage, Tidy, Inv, TypeOK, dataVars
<1>2. CASE Requeue(s)
  BY <1>1, <1>2, EndsInv DEF Requeue
<1>3. CASE Goto(s, "removeFinalizer")
  <2>1. snap[s].state = "Deleting"
    BY <1>1, Types DEF ObjectInv, PhaseFits
  <2> QED
    BY <1>1, <1>3, <2>1, GoesOnInv DEF Entry, Phases, BindingPhases, Loading, Binding
<1> QED
  BY <1>2, <1>3 DEF DeleteModelStorage

\* The checks before a model is let go keep the invariant.
LEMMA ModelInv ==
    ASSUME Inv, NEW m \in Models, ReconcileModel(m)
    PROVE  Moves(m)
<1>1. m \in Objects /\ m \notin Bindings /\ pc[m] \in {"checkBindings", "checkClaims"} /\ Tidy(m)
  BY NamesAssumption
     DEF Objects, ReconcileModel, AssertEmptyBindings, AssertEmptyClaims, Tidy, Inv, TypeOK, dataVars
<1>2. CASE Requeue(m)
  BY <1>1, <1>2, EndsInv DEF Requeue
<1>3. CASE Goto(m, "checkClaims") \/ Goto(m, "removeFinalizer")
  <2>1. snap[m].state = "Deleting"
    BY <1>1, Types DEF ObjectInv, PhaseFits
  <2> QED
    BY <1>1, <1>3, <2>1, GoesOnInv DEF Entry, Phases, BindingPhases, Loading, Binding
<1> QED
  BY <1>2, <1>3 DEF ReconcileModel, AssertEmptyBindings, AssertEmptyClaims

-------------------------------------------------------------------------------
(* The reconciliation of a binding.                                        *)

\* What a reconciled binding's spec and status are made of.
LEMMA BindingFacts ==
    ASSUME Inv, NEW b \in Bindings, pc[b] \notin Entry
    PROVE  /\ b \in Objects /\ b \notin Models /\ b \notin Storages
           /\ snap[b] \in Object /\ snap[b].spec \in BindingSpec
           /\ snap[b].state = "Ready" => snap[b].status \in Context
<1>1. /\ b \in Objects /\ b \notin Models /\ b \notin Storages
  BY NamesAssumption DEF Objects
<1>2. snap[b] \in Object /\ snap[b].exists /\ ContentFits(b, snap[b])
  BY <1>1, Types DEF Entry, ObjectInv, SnapSane, ContentsFit
<1>3. Specs(b) \subseteq BindingSpec
  BY SpecsAssumption DEF Specs
<1> QED
  BY <1>1, <1>2, <1>3 DEF ContentFits

\* A context that cannot be loaded ends the reconciliation or the clean-up.
LEMMA LoadErrorInv ==
    ASSUME Inv, NEW b \in Bindings, pc[b] \in Loading, LoadError(b),
           UNCHANGED <<api, cache, dataVars>>
    PROVE  Moves(b)
<1>1. b \in Objects /\ pc[b] \notin Entry
  BY DEF Objects, Loading, Entry
<1>2. Tidy(b)
  BY DEF Tidy, LoadError, ClearContext, Inv, TypeOK, dataVars
<1>3. CASE Requeue(b)
  BY <1>1, <1>2, <1>3, EndsInv DEF Requeue
<1>4. CASE snap[b].state = "Deleting" /\ Goto(b, "removeFinalizer")
  BY <1>1, <1>2, <1>4, GoesOnInv DEF Entry, Phases, BindingPhases, Loading, Binding
<1> QED
  BY <1>3, <1>4 DEF LoadError

\* Loading the model keeps the invariant.
LEMMA LoadModelInv ==
    ASSUME Inv, NEW b \in Bindings, LoadModel(b)
    PROVE  Moves(b)
<1> DEFINE sp == snap[b].spec
           c == [model |-> sp.model, modelSpec |-> api[sp.model].spec,
                 source |-> sp.source, sourceUid |-> 0,
                 target |-> sp.target, targetUid |-> 0]
<1>1. pc[b] = "loadModel" /\ pc[b] \notin Entry /\ UNCHANGED <<api, cache, dataVars>>
  BY DEF LoadModel, Entry
<1>2. b \in Objects /\ sp \in BindingSpec
  BY <1>1, BindingFacts
<1>3. CASE LoadError(b)
  BY <1>1, <1>3, LoadErrorInv DEF Loading
<1>4. CASE /\ IsReady(sp.model) /\ ctx' = [ctx EXCEPT ![b] = c]
           /\ Goto(b, IF sp.source = None THEN "loadTarget" ELSE "loadSource")
  <2>1. sp.model \in Models /\ sp.source \in Storages \cup {None} /\ sp.target \in Storages
    BY <1>2 DEF BindingSpec
  <2>2. api[sp.model].spec \in ModelSpecs
    <3>1. sp.model \in Objects /\ sp.model \notin Bindings
      BY <2>1, NamesAssumption DEF Objects
    <3> QED
      BY <1>4, <2>1, <3>1, Types DEF ObjectInv, ContentsFit, ContentFits, IsReady, Specs
  <2>3. c \in Context
    BY <2>1, <2>2 DEF Context
  <2>4. ctx' \in [Bindings -> Context \cup {None}] /\ ctx'[b] = c
        /\ \A p \in Bindings \ {b} : ctx'[p] = ctx[p]
    BY <1>4, <2>3 DEF Inv, TypeOK
  <2>5. Tidy(b)
    BY <1>1, <2>4 DEF Tidy, Inv, TypeOK, dataVars
  <2>6. CASE sp.source = None /\ Goto(b, "loadTarget")
    BY <1>1, <1>2, <2>3, <2>4, <2>5, <2>6, GoesOnInv
       DEF Entry, Phases, BindingPhases, Loading, Binding
  <2>7. CASE sp.source # None /\ Goto(b, "loadSource")
    BY <1>1, <1>2, <2>3, <2>4, <2>5, <2>7, GoesOnInv
       DEF Entry, Phases, BindingPhases, Loading, Binding
  <2> QED
    BY <1>4, <2>6, <2>7
<1> QED
  BY <1>3, <1>4 DEF LoadModel

\* Loading the source storage keeps the invariant.
LEMMA LoadSourceInv ==
    ASSUME Inv, NEW b \in Bindings, LoadSource(b)
    PROVE  Moves(b)
<1> DEFINE s == snap[b].spec.source
<1>1. pc[b] = "loadSource" /\ pc[b] \notin Entry /\ UNCHANGED <<api, cache, dataVars>>
  BY DEF LoadSource, Entry
<1>2. b \in Objects /\ s \in Storages \cup {None} /\ ctx[b] \in Context
  BY <1>1, BindingFacts, Types DEF BindingSpec, ObjectInv, ContentsFit, BindingPhases, Loading
<1>3. CASE LoadError(b)
  BY <1>1, <1>3, LoadErrorInv DEF Loading
<1>4. CASE /\ ctx' = [ctx EXCEPT ![b].sourceUid = api[s].uid]
           /\ Goto(b, "loadTarget") /\ IsReady(s)
  <2>1. s \in Storages /\ api[s].uid \in Nat
    BY <1>1, <1>2, Types DEF ObjectInv, ContentsFit, Object, Objects
  <2>2. ctx' \in [Bindings -> Context \cup {None}] /\ ctx'[b] \in Context
        /\ \A p \in Bindings \ {b} : ctx'[p] = ctx[p]
    BY <1>2, <1>4, <2>1 DEF Inv, TypeOK, Context
  <2>3. Tidy(b)
    BY <1>1, <2>2 DEF Tidy, Inv, TypeOK, dataVars
  <2> QED
    BY <1>1, <1>2, <1>4, <2>2, <2>3, GoesOnInv
       DEF Entry, Phases, BindingPhases, Loading, Binding
<1> QED
  BY <1>3, <1>4 DEF LoadSource

\* Loading the target storage keeps the invariant, whatever branch follows.
LEMMA LoadTargetInv ==
    ASSUME Inv, NEW b \in Bindings, LoadTarget(b)
    PROVE  Moves(b)
<1> DEFINE s == snap[b].spec.target
           c == [ctx[b] EXCEPT !.targetUid = api[s].uid]
<1>1. pc[b] = "loadTarget" /\ pc[b] \notin Entry /\ UNCHANGED <<api, cache, dataVars>>
  BY DEF LoadTarget, Entry
<1>2. b \in Objects /\ s \in Storages /\ ctx[b] \in Context
  BY <1>1, BindingFacts, Types DEF BindingSpec, ObjectInv, ContentsFit, BindingPhases, Loading
<1>3. CASE LoadError(b)
  BY <1>1, <1>3, LoadErrorInv DEF Loading
<1>4. CASE /\ AfterLoad(b, c)
           /\ ctx' = [ctx EXCEPT ![b] = IF pc'[b] = "idle" THEN None ELSE c]
  <2>1. api[s].uid \in Nat
    BY <1>2, Types DEF Object, Objects
  <2>2. c \in Context
    BY <1>2, <2>1 DEF Context
  <2> HIDE DEF c
  <2>3. /\ ctx' \in [Bindings -> Context \cup {None}]
        /\ pc'[b] # "idle" => ctx'[b] \in Context
        /\ \A p \in Bindings \ {b} : ctx'[p] = ctx[p]
    BY <1>4, <2>2 DEF Inv, TypeOK
  <2>4. Tidy(b)
    BY <1>1, <2>3 DEF Tidy, Inv, TypeOK, dataVars
  <2>5. snap[b].state \in State
    BY <1>2, Types DEF Object
  <2>6. CASE Requeue(b) \/ Await(b)
    BY <1>2, <2>4, <2>6, EndsInv DEF Requeue, Await
  <2>7. CASE snap[b].state # "Deleting" /\ Goto(b, "makeBucket")
    <3>1. pc'[b] = "makeBucket"
      BY <1>2, <2>7, GotoStep DEF Phases
    <3> QED
      BY <1>1, <1>2, <2>3, <2>4, <2>7, <3>1, GoesOnInv
         DEF Entry, Phases, BindingPhases, Loading, Binding
  <2>8. CASE snap[b].state # "Pending" /\ Goto(b, "unsync")
    <3>1. pc'[b] = "unsync"
      BY <1>2, <2>8, GotoStep DEF Phases
    <3> QED
      BY <1>1, <1>2, <2>3, <2>4, <2>8, <3>1, GoesOnInv
         DEF Entry, Phases, BindingPhases, Loading, Binding
  <2> QED
    BY <1>4, <2>5, <2>6, <2>7, <2>8 DEF AfterLoad, State
<1> QED
  BY <1>3, <1>4 DEF LoadTarget

\* What a binding unbinds is a complete context.
LEMMA UnboundType ==
    ASSUME Inv, NEW b \in Bindings, pc[b] \in {"unsync", "deleteJob"}
    PROVE  Unbound(b) \in Context /\ ctx[b] \in Context /\ Bucket(Unbound(b)) \in Storages \X Models
<1>1. ctx[b] \in Context
  BY Types DEF Objects, ObjectInv, ContentsFit, BindingPhases, Loading
<1>2. Unbound(b) \in Context
  BY <1>1, BindingFacts DEF Unbound, Entry
<1> QED
  BY <1>1, <1>2 DEF Bucket, Context

\* What follows an unbinding fits the copy.
LEMMA AfterUnbindInv ==
    ASSUME Inv, NEW b \in Bindings, pc[b] \in {"unsync", "deleteJob"}, AfterUnbind(b),
           Tidy(b), ctx' = ctx
    PROVE  Moves(b)
<1>1. b \in Objects /\ ctx[b] \in Context /\ snap[b].state \in State
  BY UnboundType, BindingFacts DEF Entry, Object
<1>2. snap[b].state # "Pending"
  BY <1>1, Types DEF ObjectInv, PhaseFits
<1>3. CASE snap[b].state = "Ready" /\ Goto(b, "makeBucket")
  BY <1>1, <1>3, GoesOnInv DEF Entry, Phases, BindingPhases, Loading, Binding
<1>4. CASE snap[b].state = "Deleting" /\ Goto(b, "removeFinalizer")
  BY <1>1, <1>4, GoesOnInv DEF Entry, Phases, BindingPhases, Loading, Binding
<1> QED
  BY <1>1, <1>2, <1>3, <1>4 DEF AfterUnbind, State

\* Taking the replication down keeps the invariant.
LEMMA UnsyncBucketInv ==
    ASSUME Inv, NEW b \in Bindings, UnsyncBucket(b)
    PROVE  Moves(b)
<1>1. pc[b] = "unsync" /\ pc[b] \notin Entry /\ UNCHANGED <<api, cache, ctx, buckets, jobs>>
  BY DEF UnsyncBucket, Entry
<1>2. Tidy(b)
  BY <1>1 DEF UnsyncBucket, Unlinked, Tidy, Inv, TypeOK
<1>3. CASE AfterUnbind(b)
  BY <1>1, <1>2, <1>3, AfterUnbindInv
<1>4. CASE Goto(b, "deleteJob")
  <2>1. b \in Objects /\ snap[b].state # "Pending"
    BY <1>1, Types DEF ObjectInv, PhaseFits, Objects
  <2> QED
    BY <1>1, <1>2, <1>4, <2>1, UnboundType, GoesOnInv
       DEF Entry, Phases, BindingPhases, Loading, Binding
<1> QED
  BY <1>3, <1>4 DEF UnsyncBucket

\* Handing a deletion over to a Job keeps the invariant.
LEMMA CreateDeleteJobInv ==
    ASSUME Inv, NEW b \in Bindings, CreateDeleteJob(b)
    PROVE  Moves(b)
<1>1. pc[b] = "deleteJob" /\ UNCHANGED <<api, cache, ctx, buckets, links>>
      /\ jobs' = jobs \cup {Bucket(Unbound(b))} /\ AfterUnbind(b)
  BY DEF CreateDeleteJob
<1>2. Tidy(b)
  BY <1>1, UnboundType DEF Tidy, Inv, TypeOK
<1> QED
  BY <1>1, <1>2, AfterUnbindInv

\* A binding that is being bound works on a protected object.
LEMMA BindingWork ==
    ASSUME Inv, NEW b \in Bindings, pc[b] \in Binding
    PROVE  /\ b \in Objects /\ snap[b].state # "Deleting"
           /\ ctx[b] \in Context
           /\ pc[b] = "sync" => ctx[b].source # None
  BY Types DEF Objects, ObjectInv, PhaseFits, ContentsFit, BindingPhases, Loading, Binding

\* Making the bucket keeps the invariant.
LEMMA MakeBucketInv ==
    ASSUME Inv, NEW b \in Bindings, MakeBucket(b)
    PROVE  Moves(b)
<1>1. pc[b] = "makeBucket" /\ pc[b] \notin Entry /\ UNCHANGED <<api, cache, ctx, links, jobs>>
      /\ buckets' = buckets \cup {Bucket(ctx[b])}
  BY DEF MakeBucket, Entry
<1>2. b \in Objects /\ snap[b].state # "Deleting" /\ ctx[b] \in Context
  BY <1>1, BindingWork DEF Binding
<1>3. Tidy(b)
  BY <1>1, <1>2 DEF Tidy, Inv, TypeOK, Bucket, Context
<1>4. CASE ctx[b].source = None /\ Goto(b, "patchReady")
  BY <1>1, <1>2, <1>3, <1>4, GoesOnInv DEF Entry, Phases, BindingPhases, Loading, Binding
<1>5. CASE ctx[b].source # None /\ Goto(b, "sync")
  BY <1>1, <1>2, <1>3, <1>5, GoesOnInv DEF Entry, Phases, BindingPhases, Loading, Binding
<1> QED
  BY <1>4, <1>5 DEF MakeBucket

\* Setting the replication up keeps the invariant.
LEMMA SyncBucketInv ==
    ASSUME Inv, NEW b \in Bindings, SyncBucket(b)
    PROVE  Moves(b)
<1>1. pc[b] = "sync" /\ pc[b] \notin Entry /\ UNCHANGED <<api, cache, buckets, jobs>>
  BY DEF SyncBucket, Entry
<1>2. b \in Objects /\ snap[b].state # "Deleting" /\ ctx[b] \in Context /\ ctx[b].source # None
  BY <1>1, BindingWork DEF Binding
<1>3. CASE links' = links \cup {Link(ctx[b])} /\ Goto(b, "patchReady") /\ UNCHANGED ctx
  <2>1. Link(ctx[b]) \in Storages \X Storages \X Models
    BY <1>2 DEF Link, Context
  <2>2. Tidy(b)
    BY <1>1, <1>3, <2>1 DEF Tidy, Inv, TypeOK
  <2> QED
    BY <1>1, <1>2, <1>3, <2>2, GoesOnInv DEF Entry, Phases, BindingPhases, Loading, Binding
<1>4. CASE Requeue(b) /\ ClearContext(b) /\ UNCHANGED links
  <2>1. Tidy(b)
    BY <1>1, <1>4 DEF Tidy, Inv, TypeOK, ClearContext
  <2> QED
    BY <1>2, <1>4, <2>1, EndsInv DEF Requeue
<1> QED
  BY <1>3, <1>4 DEF SyncBucket

-------------------------------------------------------------------------------
(* The environment.                                                        *)

\* A watch event brings the cache to the object on the API server.
LEMMA WatchInv ==
    ASSUME Inv, NEW o \in Objects, Watch(o)
    PROVE  Moves(o)
<1>1. ObjectInv(o) /\ api[o] \in Object /\ cache[o] \in Object /\ snap[o] \in Object
  BY Types
<1>2. /\ cache' = [cache EXCEPT ![o] = api[o]] /\ cache'[o] = api[o]
      /\ UNCHANGED <<api, pc, snap, ctx, dataVars>>
      /\ queue' \subseteq Objects
  BY DEF Watch, Inv, TypeOK
<1>3. TypeOK'
  BY <1>1, <1>2 DEF Inv, TypeOK, dataVars
<1>4. Alone(o)
  BY <1>2 DEF Alone, Still, Inv, TypeOK
<1>5. (CopiesSane(o) /\ CacheTrusted(o))'
  BY <1>1, <1>2 DEF ObjectInv, CopiesSane, CacheTrusted, Sane, Older, Same, Object
<1>6. SnapSane(o)'
  BY <1>1, <1>2 DEF ObjectInv, CopiesSane, SnapSane, Sane, Older, Object
<1>7. SnapTrusted(o)'
  BY <1>1, <1>2 DEF ObjectInv, CopiesSane, SnapTrusted, Sane, Same
<1>8. PhaseFits(o)'
  BY <1>1, <1>2 DEF ObjectInv, PhaseFits
<1>9. ContentsFit(o)'
  BY <1>1, <1>2 DEF ObjectInv, ContentsFit, ContentFits
<1> QED
  BY <1>3, <1>4, <1>5, <1>6, <1>7, <1>8, <1>9 DEF Moves, ObjectInv

\* What the three requests of a user share.
LEMMA RequestStep ==
    ASSUME Inv, NEW o \in Objects, NEW v \in Object, api' = [api EXCEPT ![o] = v],
           o \in Bindings /\ v.state = "Ready" => v.status \in Context,
           UNCHANGED <<cache, queue, pc, snap, ctx, dataVars>>
    PROVE  TypeOK' /\ Alone(o) /\ api'[o] = v /\ PhaseFits(o)'
<1>1. api'[o] = v /\ api' \in [Objects -> Object] /\ \A p \in Objects \ {o} : api'[p] = api[p]
  BY DEF Inv, TypeOK
<1>2. TypeOK'
  BY <1>1 DEF Inv, TypeOK, dataVars, Objects
<1>3. Alone(o)
  BY <1>1 DEF Alone, Still
<1>4. PhaseFits(o)'
  BY Types DEF ObjectInv, PhaseFits
<1> QED
  BY <1>1, <1>2, <1>3, <1>4

\* The specs an object may have are of the type of a spec.
LEMMA SpecsType ==
    ASSUME NEW o \in Objects
    PROVE  Specs(o) \subseteq BindingSpec \cup ModelSpecs \cup {None}
  BY SpecsAssumption DEF Specs, Objects

\* A new object has the type of an object.
LEMMA CreatedType ==
    ASSUME NEW o \in Objects, NEW n \in Nat, NEW sp \in Specs(o)
    PROVE  LET v == Created(n, sp) IN
           /\ v \in Object /\ v.exists /\ v.uid = n /\ v.spec = sp
           /\ ~v.deleted /\ ~v.finalizer /\ v.state = "Pending"
<1> DEFINE x == [Absent(n) EXCEPT !.exists = TRUE]
           v == [x EXCEPT !.spec = sp]
<1>1. Absent(n) \in Object /\ ~Absent(n).deleted /\ ~Absent(n).finalizer
      /\ Absent(n).state = "Pending" /\ Absent(n).uid = n
  BY AbsentType DEF Absent
<1>2. /\ x \in Object /\ x.exists /\ x.uid = n
      /\ ~x.deleted /\ ~x.finalizer /\ x.state = "Pending"
  BY <1>1 DEF Object
<1>3. sp \in BindingSpec \cup ModelSpecs \cup {None}
  BY SpecsType
<1> HIDE DEF x
<1>4. /\ v \in Object /\ v.exists /\ v.uid = n /\ v.spec = sp
      /\ ~v.deleted /\ ~v.finalizer /\ v.state = "Pending"
  BY <1>2, <1>3 DEF Object
<1>5. Created(n, sp) = v
  BY DEF Created, x
<1> QED
  BY <1>4, <1>5

\* A new incarnation is younger than every copy of its name.
LEMMA CreateInv ==
    ASSUME Inv, NEW o \in Objects, Create(o)
    PROVE  Moves(o)
<1>1. ObjectInv(o) /\ api[o] \in Object /\ cache[o] \in Object /\ snap[o] \in Object
  BY Types
<1>2. PICK sp \in Specs(o) : api' = [api EXCEPT ![o] = Created(api[o].uid + 1, sp)]
  BY DEF Create, Inv, TypeOK
<1> DEFINE v == Created(api[o].uid + 1, sp)
<1>3. ~api[o].exists /\ UNCHANGED <<cache, queue, pc, snap, ctx, dataVars>>
  BY DEF Create
<1>4. v \in Object /\ v.exists /\ v.uid = api[o].uid + 1 /\ v.spec = sp
      /\ ~v.deleted /\ ~v.finalizer /\ v.state = "Pending"
  <2>1. api[o].uid + 1 \in Nat
    BY <1>1 DEF Object
  <2> QED
    BY <2>1, CreatedType
<1> HIDE DEF v
<1>5. TypeOK' /\ Alone(o) /\ api'[o] = v /\ PhaseFits(o)'
  BY <1>2, <1>3, <1>4, RequestStep DEF v
<1>6. (CopiesSane(o) /\ CacheTrusted(o))'
  BY <1>1, <1>3, <1>4, <1>5
     DEF ObjectInv, CopiesSane, CacheTrusted, Sane, Older, Same, Object
<1>7. (SnapSane(o) /\ SnapTrusted(o))'
  BY <1>1, <1>3, <1>4, <1>5
     DEF ObjectInv, SnapSane, SnapTrusted, CopiesSane, Sane, Older, Same, Object
<1>8. ContentsFit(o)'
  BY <1>1, <1>3, <1>4, <1>5 DEF ObjectInv, ContentsFit, ContentFits
<1> QED
  BY <1>5, <1>6, <1>7, <1>8 DEF Moves, ObjectInv

\* A deletion request only removes an object without the finalizer.
LEMMA DeleteInv ==
    ASSUME Inv, NEW o \in Objects, Delete(o)
    PROVE  Moves(o)
<1>1. ObjectInv(o) /\ api[o] \in Object /\ cache[o] \in Object /\ snap[o] \in Object
  BY Types
<1> DEFINE v == IF api[o].finalizer THEN [api[o] EXCEPT !.deleted = TRUE]
                ELSE Absent(api[o].uid)
<1>2. /\ api[o].exists /\ ~api[o].deleted
      /\ api' = [api EXCEPT ![o] = v]
      /\ UNCHANGED <<cache, queue, pc, snap, ctx, dataVars>>
  BY DEF Delete, Inv, TypeOK
<1>3. v \in Object /\ v.uid = api[o].uid
  BY <1>1, AbsentType DEF Object, Absent
<1>4. api[o].finalizer =>
        /\ v.exists = api[o].exists /\ v.deleted /\ v.finalizer = api[o].finalizer
        /\ v.state = api[o].state /\ v.spec = api[o].spec /\ v.status = api[o].status
  BY <1>1 DEF Object
<1>5. ~api[o].finalizer =>
        ~v.exists /\ ~v.deleted /\ ~v.finalizer /\ v.state = "Pending"
  BY DEF Absent
<1> HIDE DEF v
<1>6. TypeOK' /\ Alone(o) /\ api'[o] = v /\ PhaseFits(o)'
  BY <1>1, <1>2, <1>3, <1>4, <1>5, RequestStep DEF ObjectInv, ContentsFit, ContentFits
<1>7. (CopiesSane(o) /\ CacheTrusted(o))'
  BY ZenonT(60), <1>1, <1>2, <1>3, <1>4, <1>5, <1>6
     DEF ObjectInv, CopiesSane, CacheTrusted, Sane, Older, Same, Object
<1>8. SnapSane(o)'
  BY <1>1, <1>2 DEF ObjectInv, SnapSane, Sane, Older
<1>9. SnapTrusted(o)'
  <2>1. cache[o].finalizer /\ Same(cache[o], api[o]) => api[o].finalizer
    BY <1>1 DEF ObjectInv, CopiesSane, Older, Same
  <2>2. pc[o] # "idle" /\ snap[o].finalizer /\ Same(snap[o], api[o]) => api[o].finalizer
    BY <1>1, SnapOlder DEF Older, Same
  <2> QED
    BY <1>1, <1>2, <1>3, <1>4, <1>5, <1>6, <2>1, <2>2 DEF ObjectInv, SnapTrusted, Same
<1>10. ContentsFit(o)'
  BY ZenonT(60), <1>1, <1>2, <1>4, <1>5, <1>6 DEF ObjectInv, ContentsFit, ContentFits
<1> QED
  BY <1>6, <1>7, <1>8, <1>9, <1>10 DEF Moves, ObjectInv

\* An edit of the spec disturbs nothing else.
LEMMA EditInv ==
    ASSUME Inv, NEW o \in Objects, Edit(o)
    PROVE  Moves(o)
<1>1. ObjectInv(o) /\ api[o] \in Object /\ cache[o] \in Object /\ snap[o] \in Object
  BY Types
<1>2. PICK sp \in Specs(o) : api' = [api EXCEPT ![o] = [api[o] EXCEPT !.spec = sp]]
  BY DEF Edit, Inv, TypeOK
<1> DEFINE v == [api[o] EXCEPT !.spec = sp]
<1>3. UNCHANGED <<cache, queue, pc, snap, ctx, dataVars>>
  BY DEF Edit
<1>4. /\ v \in Object /\ v.spec = sp /\ v.uid = api[o].uid
      /\ v.exists = api[o].exists /\ v.deleted = api[o].deleted
      /\ v.finalizer = api[o].finalizer /\ v.state = api[o].state
      /\ v.status = api[o].status
  BY <1>1, SpecsType DEF Object
<1> HIDE DEF v
<1>5. TypeOK' /\ Alone(o) /\ api'[o] = v /\ PhaseFits(o)'
  BY <1>1, <1>2, <1>3, <1>4, RequestStep DEF v, ObjectInv, ContentsFit, ContentFits
<1>6. (CopiesSane(o) /\ CacheTrusted(o))'
  BY <1>1, <1>3, <1>4, <1>5 DEF ObjectInv, CopiesSane, CacheTrusted, Sane, Older, Same
<1>7. (SnapSane(o) /\ SnapTrusted(o))'
  BY <1>1, <1>3, <1>4, <1>5 DEF ObjectInv, SnapSane, SnapTrusted, Sane, Older, Same
<1>8. ContentsFit(o)'
  BY <1>1, <1>3, <1>4, <1>5 DEF ObjectInv, ContentsFit, ContentFits
<1> QED
  BY <1>5, <1>6, <1>7, <1>8 DEF Moves, ObjectInv

\* A restart leaves one copy of each object, the API server's.
LEMMA RestartInv ==
    ASSUME Inv, Restart
    PROVE  Inv'
<1>1. TypeOK'
  BY AbsentType DEF Restart, Inv, TypeOK, Phases, dataVars
<1>2. ASSUME NEW o \in Objects PROVE ObjectInv(o)'
  <2>1. /\ api'[o] = api[o] /\ cache'[o] = api[o] /\ pc'[o] = "idle"
        /\ api[o] \in Object /\ ObjectInv(o)
    BY Types DEF Restart
  <2>2. (CopiesSane(o) /\ CacheTrusted(o))'
    BY <2>1 DEF ObjectInv, CopiesSane, CacheTrusted, Sane, Older, Same, Object
  <2>3. (SnapSane(o) /\ SnapTrusted(o) /\ PhaseFits(o))'
    BY <2>1 DEF SnapSane, SnapTrusted, PhaseFits, Binding
  <2>4. ContentsFit(o)'
    BY <2>1 DEF ObjectInv, ContentsFit, ContentFits, BindingPhases, Loading
  <2> QED
    BY <2>2, <2>3, <2>4 DEF ObjectInv
<1> QED
  BY <1>1, <1>2 DEF Inv

\* A Job changes no object.
LEMMA RunJobInv ==
    ASSUME Inv, NEW k \in jobs, RunJob(k)
    PROVE  Inv'
<1>1. TypeOK'
  BY DEF RunJob, Inv, TypeOK, kubeVars
<1>2. \A o \in Objects : Still(o)
  BY DEF RunJob, kubeVars, Still
<1> QED
  BY <1>1, <1>2, Unmoved DEF Inv

-------------------------------------------------------------------------------
(* The theorems.                                                           *)

\* The initial states satisfy the invariant.
LEMMA InitInv == Init => Inv
<1> SUFFICES ASSUME Init PROVE Inv
  OBVIOUS
<1>1. ASSUME NEW o \in Objects
      PROVE  /\ api[o] \in Object
             /\ Sane(api[o]) /\ ContentFits(o, api[o]) /\ (o \in Bindings => ~api[o].exists)
  <2>1. CASE o \notin Settled
    BY <2>1, AbsentType DEF Init, Sane, ContentFits, Absent
  <2>2. CASE o \in Settled
    <3>1. o \in Models \cup Storages /\ o \notin Bindings
      BY <2>2, NamesAssumption, SpecsAssumption
    <3> DEFINE sp == CHOOSE x \in Specs(o) : TRUE
    <3>2. sp \in Specs(o)
      BY <3>1, NamesAssumption, SpecsAssumption DEF Specs
    <3> HIDE DEF sp
    <3>3. api[o] = [Created(1, sp) EXCEPT !.finalizer = TRUE, !.state = "Ready",
                      !.status = IF o \in Storages THEN Kind ELSE None]
      BY <2>2 DEF Init, Validated, sp
    <3> DEFINE v == Created(1, sp)
    <3>4. v \in Object /\ v.exists /\ v.spec = sp /\ ~v.deleted
      BY <3>2, CreatedType
    <3> HIDE DEF v
    <3>5. /\ api[o] \in Object /\ api[o].exists /\ api[o].spec = sp /\ ~api[o].deleted
          /\ api[o].finalizer /\ api[o].state = "Ready"
      BY <3>3, <3>4 DEF v, Object, State
    <3> QED
      BY <3>1, <3>2, <3>5 DEF Sane, ContentFits
  <2> QED
    BY <2>1, <2>2
<1>2. TypeOK
  <2>1. api \in [Objects -> Object]
    BY <1>1 DEF Init
  <2>2. \A b \in Bindings : api[b].state # "Ready"
    BY <1>1 DEF Sane, Objects
  <2> QED
    BY <2>1, <2>2, AbsentType, SpecsAssumption DEF Init, TypeOK, Phases
<1>3. ASSUME NEW o \in Objects PROVE ObjectInv(o)
  <2>1. cache[o] = api[o] /\ pc[o] = "idle"
    BY DEF Init
  <2>2. CopiesSane(o) /\ CacheTrusted(o)
    BY <1>1, <2>1 DEF CopiesSane, CacheTrusted, Older, Same, Object, Sane
  <2>3. SnapSane(o) /\ SnapTrusted(o) /\ PhaseFits(o)
    BY <2>1 DEF SnapSane, SnapTrusted, PhaseFits, Binding
  <2>4. ContentsFit(o)
    BY <1>1, <2>1 DEF ContentsFit, BindingPhases, Loading
  <2> QED
    BY <2>2, <2>3, <2>4 DEF ObjectInv
<1> QED
  BY <1>2, <1>3 DEF Inv

\* What goes wrong keeps the invariant.
LEMMA FaultInv ==
    ASSUME Inv, Fault
    PROVE  Inv'
<1>1. ASSUME NEW o \in Objects, Fail(o) PROVE Inv'
  BY <1>1, FailInv, MovesInv
<1>2. ASSUME NEW b \in Bindings, LoadFails(b) PROVE Inv'
  <2>1. pc[b] \in Loading /\ LoadError(b) /\ UNCHANGED <<api, cache, dataVars>>
    BY <1>2 DEF LoadFails
  <2> QED
    BY <2>1, LoadErrorInv, MovesInv DEF Objects
<1>3. CASE Restart
  BY <1>3, RestartInv
<1> QED
  BY <1>1, <1>2, <1>3 DEF Fault

\* What goes right keeps the invariant.
LEMMA WorkInv ==
    ASSUME Inv, Work
    PROVE  Inv'
<1>1. ASSUME NEW o \in Objects, ReconcileObject(o) PROVE Inv'
  BY <1>1, StartInv, MarkDeletingInv, AddFinalizerInv, PatchReadyInv, RemoveFinalizerInv,
     MovesInv DEF ReconcileObject
<1>2. ASSUME NEW o \in Objects, Watch(o) \/ User(o) PROVE Inv'
  BY <1>2, WatchInv, CreateInv, DeleteInv, EditInv, MovesInv DEF User
<1>3. ASSUME NEW s \in Storages, ReconcileModelStorage(s) PROVE Inv'
  BY <1>3, ValidateModelStorageInv, DeleteModelStorageInv, MovesInv
     DEF ReconcileModelStorage, Objects
<1>4. ASSUME NEW m \in Models, ReconcileModel(m) PROVE Inv'
  BY <1>4, ModelInv, MovesInv DEF Objects
<1>5. ASSUME NEW b \in Bindings, ReconcileBinding(b) PROVE Inv'
  BY <1>5, LoadModelInv, LoadSourceInv, LoadTargetInv, UnsyncBucketInv, CreateDeleteJobInv,
     MakeBucketInv, SyncBucketInv, MovesInv DEF ReconcileBinding, Objects
<1>6. ASSUME NEW k \in jobs, RunJob(k) PROVE Inv'
  BY <1>6, RunJobInv
<1> QED
  BY <1>1, <1>2, <1>3, <1>4, <1>5, <1>6 DEF Work

\* The invariant is inductive.
LEMMA NextInv == Inv /\ [Next]_vars => Inv'
<1> SUFFICES ASSUME Inv, [Next]_vars PROVE Inv'
  OBVIOUS
<1>1. CASE Work
  BY <1>1, WorkInv
<1>2. CASE Fault
  BY <1>2, FaultInv
<1>3. CASE UNCHANGED vars
  <2>1. TypeOK'
    BY <1>3 DEF vars, Inv, TypeOK
  <2>2. \A o \in Objects : Still(o)
    BY <1>3 DEF vars, Still
  <2> QED
    BY <2>1, <2>2, Unmoved DEF Inv
<1> QED
  BY <1>1, <1>2, <1>3 DEF Next

\* The copies of an object, and the reconciliation that works on one of them, are
\* never further apart than Inv says.
THEOREM Invariance == Spec => []Inv
  BY InitInv, NextInv, PTL DEF Spec

\* Every variable keeps its type; the status that ModelStorageBindingValidator::update
\* unwraps is there.
THEOREM TypeCorrect == Spec => []TypeOK
<1>1. Inv => TypeOK
  BY DEF Inv
<1> QED
  BY <1>1, Invariance, PTL

\* No bucket is made, synced or recorded for a binding that is gone, that lost its
\* finalizer or that is recorded as Deleting.
THEOREM ProtectedWork == Spec => []BindingWorkIsProtected
<1>1. Inv => BindingWorkIsProtected
  BY ReadyTarget DEF BindingWorkIsProtected, Objects, Same
<1> QED
  BY <1>1, Invariance, PTL

-------------------------------------------------------------------------------
(* StorageOperator implements ObjectLifecycle.                             *)

\* What a step may do to the copy a of an object, b being the copy after it.
Lives(a, b) ==
    LET p == Phase(a)
        q == Phase(b)
    IN  \/ q = p /\ b.deleted = a.deleted
        \/ /\ b.deleted = a.deleted
           /\ \/ p = "absent" /\ q = "created"
              \/ p = "created" /\ q \in {"protected", "absent"}
              \/ p = "protected" /\ q = "ready"
              \/ p \in {"protected", "ready"} /\ a.deleted /\ q = "deleting"
        \/ p \in {"protected", "ready"} /\ q = p /\ b.deleted
        \/ p = "deleting" /\ q = "absent" /\ ~b.deleted

\* An action that moves one object's phase as its life allows implements a step.
LEMMA LifecycleStep ==
    ASSUME TypeOK', NEW o \in Objects, \A p \in Objects \ {o} : api'[p] = api[p],
           Lives(api[o], api'[o])
    PROVE  [Lifecycle!Next]_(Lifecycle!vars)
<1> DEFINE P == [p \in Objects |-> Phase(api[p])]
           D == [p \in Objects |-> api[p].deleted]
<1>1. /\ P' = [P EXCEPT ![o] = Phase(api'[o])]
      /\ D' = [D EXCEPT ![o] = api'[o].deleted]
      /\ P[o] = Phase(api[o]) /\ D[o] = api[o].deleted
  BY DEF Phase
<1>2. /\ Phase(api'[o]) = Phase(api[o]) => P' = P
      /\ api'[o].deleted = api[o].deleted => D' = D
  BY DEF Phase
<1>3. api'[o].deleted \in BOOLEAN
  BY DEF TypeOK, Object
<1> HIDE DEF P, D
<1> SUFFICES ASSUME ~(P' = P /\ D' = D)
             PROVE  \E p \in Objects :
                      \/ Lifecycle!Create(p) \/ Lifecycle!Protect(p) \/ Lifecycle!Discard(p)
                      \/ Lifecycle!RequestDeletion(p) \/ Lifecycle!BecomeReady(p)
                      \/ Lifecycle!RecordDeletion(p) \/ Lifecycle!Release(p)
  BY DEF Lifecycle!Next, Lifecycle!vars, P, D
<1> QED
  BY <1>1, <1>2, <1>3
     DEF Lives, Lifecycle!Create, Lifecycle!Protect, Lifecycle!Discard,
         Lifecycle!RequestDeletion, Lifecycle!BecomeReady, Lifecycle!RecordDeletion,
         Lifecycle!Release, P, D

\* add_finalizer protects an object, or leaves it as it is.
LEMMA AddFinalizerLives ==
    ASSUME Inv, NEW o \in Objects, AddFinalizer(o)
    PROVE  Lives(api[o], api'[o])
<1>1. api[o] \in Object /\ Sane(api[o])
  BY Types DEF ObjectInv, CopiesSane
<1>2. api'[o] = IF api[o].exists THEN [api[o] EXCEPT !.finalizer = TRUE] ELSE api[o]
  BY DEF Inv, TypeOK, AddFinalizer
<1> QED
  BY <1>1, <1>2 DEF Lives, Phase, Sane, Object

\* The finalizer of an object is removed only once it is recorded as Deleting.
LEMMA RemoveFinalizerLives ==
    ASSUME Inv, NEW o \in Objects, RemoveFinalizer(o)
    PROVE  Lives(api[o], api'[o])
<1>1. ObjectInv(o) /\ api[o] \in Object /\ snap[o] \in Object /\ pc[o] = "removeFinalizer"
  BY Types DEF RemoveFinalizer
<1>2. snap[o].finalizer /\ snap[o].state = "Deleting" /\ Older(snap[o], api[o])
  BY <1>1, SnapOlder DEF ObjectInv, PhaseFits
<1>3. ~api[o].deleted => ~api[o].finalizer
  BY <1>1, <1>2 DEF ObjectInv, SnapSane, SnapTrusted, Sane, Older, Same
<1>4. api[o].deleted => api[o].exists /\ api[o].state = "Deleting"
  BY <1>1, <1>2 DEF ObjectInv, SnapTrusted, CopiesSane, Sane, Older, Same
<1>5. api[o].deleted => api'[o] = Absent(api[o].uid)
  BY <1>4 DEF Inv, TypeOK, RemoveFinalizer
<1>6. ~api[o].deleted => api'[o] \in {api[o], [api[o] EXCEPT !.finalizer = FALSE]}
  BY DEF Inv, TypeOK, RemoveFinalizer
<1> QED
  BY <1>1, <1>3, <1>4, <1>5, <1>6 DEF Lives, Phase, Absent, Object

\* A deletion is recorded for an object whose deletion has been requested.
LEMMA MarkDeletingLives ==
    ASSUME Inv, NEW o \in Objects, MarkDeleting(o)
    PROVE  Lives(api[o], api'[o])
<1>1. ObjectInv(o) /\ api[o] \in Object /\ snap[o] \in Object /\ pc[o] = "markDeleting"
  BY Types DEF MarkDeleting
<1>2. snap[o].deleted /\ Same(snap[o], api[o]) /\ Older(snap[o], api[o])
  BY <1>1, SnapOlder DEF ObjectInv, SnapSane, SnapTrusted, PhaseFits, Sane
<1>3. api[o].exists /\ api[o].deleted /\ api[o].finalizer
  BY <1>1, <1>2 DEF ObjectInv, CopiesSane, Sane, Older, Same
<1>4. api'[o] = [api[o] EXCEPT !.state = "Deleting", !.status = snap[o].status]
  BY <1>3 DEF MarkDeleting, PatchStatus, Inv, TypeOK
<1> QED
  BY <1>1, <1>3, <1>4 DEF Lives, Phase, Object, State

\* Making an object Ready is a step of its life.
LEMMA PatchReadyLives ==
    ASSUME Inv, NEW o \in Objects, PatchReady(o)
    PROVE  Lives(api[o], api'[o])
<1> DEFINE d == IF o \in Bindings THEN ctx[o] ELSE IF o \in Storages THEN Kind ELSE None
<1>1. api[o] \in Object
  BY Types
<1>2. api[o].exists /\ api[o].finalizer /\ api[o].state # "Deleting"
  BY ReadyTarget DEF PatchReady, Binding, Same
<1>3. api'[o] = [api[o] EXCEPT !.state = "Ready", !.status = d]
  BY <1>2 DEF PatchReady, PatchStatus, Inv, TypeOK
<1> HIDE DEF d
<1> QED
  BY <1>1, <1>2, <1>3 DEF Lives, Phase, Object, State

\* What users do to an object is a step of its life.
LEMMA UserLives ==
    ASSUME Inv, NEW o \in Objects, User(o)
    PROVE  Lives(api[o], api'[o])
<1>1. api[o] \in Object /\ Sane(api[o])
  BY Types DEF ObjectInv, CopiesSane
<1>2. CASE Create(o)
  <2>1. PICK sp \in Specs(o) : api'[o] = Created(api[o].uid + 1, sp)
    BY <1>2 DEF Create, Inv, TypeOK
  <2>2. api[o].uid + 1 \in Nat
    BY <1>1 DEF Object
  <2>3. /\ api'[o] \in Object /\ api'[o].exists /\ ~api'[o].deleted
        /\ ~api'[o].finalizer /\ api'[o].state = "Pending"
    BY <2>1, <2>2, CreatedType
  <2>4. ~api[o].exists /\ ~api[o].deleted
    BY <1>1, <1>2 DEF Create, Sane
  <2>5. api'[o].deleted = api[o].deleted
    BY <1>1, <2>3, <2>4 DEF Object
  <2> QED
    BY <2>3, <2>4, <2>5 DEF Lives, Phase
<1>3. CASE Delete(o)
  <2>1. /\ api[o].exists /\ ~api[o].deleted
        /\ api'[o] = IF api[o].finalizer THEN [api[o] EXCEPT !.deleted = TRUE]
                     ELSE Absent(api[o].uid)
    BY <1>3 DEF Delete, Inv, TypeOK
  <2>2. CASE api[o].finalizer
    BY <1>1, <2>1, <2>2 DEF Lives, Phase, Sane, Object, State
  <2>3. CASE ~api[o].finalizer
    <3>1. api[o].state = "Pending"
      BY <1>1, <2>3 DEF Sane
    <3>2. api[o].deleted = FALSE
      <4>1. api[o].deleted \in BOOLEAN
        BY <1>1 DEF Object
      <4> QED
        BY <2>1, <4>1
    <3>3. ~api'[o].exists /\ api'[o].deleted = FALSE
      BY <2>1, <2>3 DEF Absent
    <3>4. Phase(api[o]) = "created" /\ Phase(api'[o]) = "absent"
      BY <2>1, <2>3, <3>1, <3>3 DEF Phase
    <3> QED
      BY <3>2, <3>3, <3>4 DEF Lives
  <2> QED
    BY <2>2, <2>3
<1>4. CASE Edit(o)
  <2>1. PICK sp \in Specs(o) : api'[o] = [api[o] EXCEPT !.spec = sp]
    BY <1>4 DEF Edit, Inv, TypeOK
  <2> QED
    BY <1>1, <2>1 DEF Lives, Phase, Object
<1> QED
  BY <1>2, <1>3, <1>4 DEF User

\* A step that changes no object is a stutter of the abstract specification.
LEMMA StutterStep ==
    ASSUME api' = api
    PROVE  [Lifecycle!Next]_(Lifecycle!vars)
  BY DEF Lifecycle!vars, Phase

\* Only these actions write an object, and each writes one.
LEMMA Writers ==
    ASSUME Inv, [Next]_vars, api' # api
    PROVE  \E o \in Objects :
              /\ \/ AddFinalizer(o) \/ RemoveFinalizer(o) \/ MarkDeleting(o) \/ PatchReady(o)
                 \/ User(o)
              /\ \A p \in Objects \ {o} : api'[p] = api[p]
<1>1. Work
  BY DEF Next, Fault, Fail, LoadFails, Restart, vars
<1>2. ASSUME NEW k \in jobs, RunJob(k) PROVE FALSE
  BY <1>2 DEF RunJob, kubeVars
<1>3. ASSUME NEW b \in Bindings, ReconcileBinding(b) PROVE FALSE
  BY <1>3 DEF ReconcileBinding, LoadModel, LoadSource, LoadTarget, UnsyncBucket,
              CreateDeleteJob, MakeBucket, SyncBucket
<1>4. ASSUME NEW m \in Models, ReconcileModel(m) PROVE FALSE
  BY <1>4 DEF ReconcileModel, AssertEmptyBindings, AssertEmptyClaims
<1>5. ASSUME NEW s \in Storages, ReconcileModelStorage(s) PROVE FALSE
  BY <1>5 DEF ReconcileModelStorage, ValidateModelStorage, DeleteModelStorage
<1>6. ASSUME NEW o \in Objects, Start(o) \/ Watch(o) PROVE FALSE
  BY <1>6 DEF Start, Watch
<1>7. PICK o \in Objects :
          AddFinalizer(o) \/ RemoveFinalizer(o) \/ MarkDeleting(o) \/ PatchReady(o) \/ User(o)
  BY <1>1, <1>2, <1>3, <1>4, <1>5, <1>6 DEF Work, ReconcileObject
<1>8. \A p \in Objects \ {o} : api'[p] = api[p]
  BY <1>7 DEF AddFinalizer, RemoveFinalizer, MarkDeleting, PatchReady, PatchStatus,
              User, Create, Delete, Edit, Inv, TypeOK
<1> QED
  BY <1>7, <1>8

\* Every step implements a step of ObjectLifecycle or a stutter.
LEMMA LifecycleNext == Inv /\ [Next]_vars => [Lifecycle!Next]_(Lifecycle!vars)
<1> SUFFICES ASSUME Inv, [Next]_vars, api' # api PROVE [Lifecycle!Next]_(Lifecycle!vars)
  BY StutterStep
<1>1. TypeOK'
  BY NextInv DEF Inv
<1>2. PICK o \in Objects :
          /\ \/ AddFinalizer(o) \/ RemoveFinalizer(o) \/ MarkDeleting(o) \/ PatchReady(o)
             \/ User(o)
          /\ \A p \in Objects \ {o} : api'[p] = api[p]
  BY Writers
<1>3. Lives(api[o], api'[o])
  BY <1>2, AddFinalizerLives, RemoveFinalizerLives, MarkDeletingLives, PatchReadyLives, UserLives
<1> QED
  BY <1>1, <1>2, <1>3, LifecycleStep

\* The initial states are initial states of ObjectLifecycle.
LEMMA LifecycleInit == Init => Lifecycle!Init
<1> SUFFICES ASSUME Init, NEW o \in Objects
             PROVE  Phase(api[o]) \in {"absent", "ready"} /\ api[o].deleted = FALSE
  BY DEF Lifecycle!Init
<1>1. CASE o \notin Settled
  BY <1>1 DEF Init, Absent, Phase
<1>2. CASE o \in Settled
  <2> DEFINE sp == CHOOSE x \in Specs(o) : TRUE
             v == Created(1, sp)
  <2>1. sp \in Specs(o)
    BY <1>2, NamesAssumption, SpecsAssumption DEF Specs
  <2>2. v \in Object /\ v.exists /\ v.deleted = FALSE
    <3> HIDE DEF sp
    <3>1. v \in Object /\ v.exists /\ ~v.deleted
      BY <2>1, CreatedType
    <3> QED
      BY <3>1 DEF Object
  <2>3. api[o] = [v EXCEPT !.finalizer = TRUE, !.state = "Ready",
                    !.status = IF o \in Storages THEN Kind ELSE None]
    BY <1>2 DEF Init, Validated
  <2> HIDE DEF v
  <2> QED
    BY <2>2, <2>3 DEF Object, State, Phase
<1> QED
  BY <1>1, <1>2

\* Every object lives the life that ObjectLifecycle promises, whatever the cache
\* shows, whichever calls fail and whenever the operator is restarted.
THEOREM Refinement == Spec => LifecycleSpec
  BY LifecycleInit, LifecycleNext, Invariance, PTL DEF Spec, LifecycleSpec, Lifecycle!Spec
----------------------------------------------------------------------------
(* A binding does not lose track of its bucket or its replication.  What a *)
(* binding answers for depends on its own object and reconciliation only.  *)

\* A binding whose object and reconciliation do not change stays tracked.
LEMMA TrackedStill ==
    ASSUME NEW b \in Bindings, Tracked(b), Still(b)
    PROVE  Tracked(b)'
<1>1. api'[b] = api[b] /\ cache'[b] = cache[b] /\ pc'[b] = pc[b] /\ snap'[b] = snap[b]
      /\ ctx'[b] = ctx[b]
  BY DEF Still
<1>2. Blank(api[b])' /\ Blank(cache[b])' /\ (pc'[b] # "idle" => Blank(snap[b])')
  BY <1>1 DEF Tracked, Blank
<1>3. ContextFits(b)'
  BY <1>1 DEF Tracked, ContextFits
<1> QED
  BY <1>2, <1>3 DEF Tracked

\* One that is not about to use its context stays tracked if its copies do not
\* change, or the reconciliation has just taken its own from the cache.
LEMMA TrackedAnew ==
    ASSUME NEW b \in Bindings, Tracked(b), Blank(api'[b]), Blank(cache'[b]),
           pc'[b] \notin (BindingPhases \ {"loadModel"}) \cup {"patchReady"},
           pc'[b] # "idle" => Blank(snap'[b])
    PROVE  Tracked(b)'
<1>1. ContextFits(b)'
  BY DEF ContextFits
<1>2. Blank(api[b])' /\ Blank(cache[b])' /\ (pc'[b] # "idle" => Blank(snap[b])')
  BY DEF Blank
<1> QED
  BY <1>1, <1>2 DEF Tracked

\* One that goes on with its copies and a context that fits stays tracked.
LEMMA TrackedOn ==
    ASSUME NEW b \in Bindings, Tracked(b), pc[b] # "idle",
           api'[b] = api[b], cache'[b] = cache[b], snap'[b] = snap[b],
           pc'[b] \in (BindingPhases \ {"loadModel"}) \cup {"patchReady"} =>
              /\ ctx'[b].model = snap[b].spec.model
              /\ ctx'[b].source = snap[b].spec.source
              /\ ctx'[b].target = snap[b].spec.target
    PROVE  Tracked(b)'
<1>1. ContextFits(b)'
  BY DEF ContextFits
<1>2. Blank(api[b])' /\ Blank(cache[b])' /\ (pc'[b] # "idle" => Blank(snap[b])')
  BY DEF Tracked, Blank
<1> QED
  BY <1>1, <1>2 DEF Tracked

-------------------------------------------------------------------------------
(* What a binding keeps answering for.                                     *)

Keeps(b) == BucketsOf(b) \subseteq BucketsOf(b)' /\ LinksOf(b) \subseteq LinksOf(b)'

\* A binding whose object and reconciliation do not change keeps everything.
LEMMA KeepsStill ==
    ASSUME NEW b \in Bindings, Still(b)
    PROVE  Keeps(b)
<1>1. api'[b] = api[b] /\ pc'[b] = pc[b] /\ snap'[b] = snap[b] /\ ctx'[b] = ctx[b]
  BY DEF Still
<1>2. AnswersFor(b)' = AnswersFor(b)
  BY <1>1 DEF AnswersFor, SpecContext
<1>3. Unbound(b)' = Unbound(b)
  BY <1>1 DEF Unbound
<1> QED
  BY <1>1, <1>2, <1>3 DEF Keeps, BucketsOf, LinksOf

\* So does one that answers for no less and is not about to make a deletion Job.
LEMMA KeepsMore ==
    ASSUME NEW b \in Bindings, AnswersFor(b) \subseteq AnswersFor(b)', pc'[b] # "deleteJob"
    PROVE  Keeps(b)
  BY DEF Keeps, BucketsOf, LinksOf

\* So does one whose reconciliation ends, or goes on without an update having
\* unbound the last status.
LEMMA KeepsObject ==
    ASSUME NEW b \in Bindings, api'[b] = api[b],
           pc'[b] \notin {"removeFinalizer", "deleteJob"},
           pc'[b] \in Binding /\ snap'[b].state = "Ready" =>
              pc[b] \in Binding /\ snap[b].state = "Ready"
    PROVE  Keeps(b)
<1>1. AnswersFor(b) \subseteq AnswersFor(b)'
  BY DEF AnswersFor, SpecContext
<1> QED
  BY <1>1, KeepsMore

\* One that answers for nothing has nothing to lose.
LEMMA KeepsNothing ==
    ASSUME NEW b \in Bindings, AnswersFor(b) = {}
    PROVE  Keeps(b)
  BY DEF Keeps, BucketsOf, LinksOf

\* What the two properties ask of a step.
BucketStep(b) ==
    \A k \in buckets' \ jobs' :
       ForsakesBucket(b, k) =>
          LosesTrack(b) \/ (pc[b] # "idle" /\ snap[b].spec.policy = "Retain")

LinkStep(b) ==
    \A l \in links' :
       ForsakesLink(b, l) =>
          LosesTrack(b) \/ (pc[b] = "unsync" /\ Bucket(Unbound(b)) \notin buckets)

Steps(b) == BucketStep(b) /\ LinkStep(b)

\* A step that keeps everything and makes neither bucket nor replication is right.
LEMMA KeepsSteps ==
    ASSUME NEW b \in Bindings, Keeps(b), buckets' \subseteq buckets, links' \subseteq links
    PROVE  Steps(b)
  BY DEF Keeps, Steps, BucketStep, LinkStep, ForsakesBucket, ForsakesLink

\* So is one that says itself why it loses track.
LEMMA LosesSteps == ASSUME NEW b \in Bindings, LosesTrack(b) PROVE Steps(b)
  BY DEF Steps, BucketStep, LinkStep

\* What each action's lemma shows of the binding it moves.
TrackStep(b) == Tracked(b)' /\ Steps(b)

-------------------------------------------------------------------------------
(* The calls of a binding's reconciliation.                                *)

\* A call that ends the reconciliation without a write is right.
LEMMA EndTrack ==
    ASSUME Inv, NEW b \in Bindings, Tracked(b), NEW r \in SUBSET Objects, End(b, r),
           UNCHANGED <<api, cache, buckets, links>>
    PROVE  TrackStep(b)
<1>1. b \in Objects /\ pc'[b] = "idle"
  BY EndStep DEF Objects
<1>2. Tracked(b)'
  BY <1>1, TrackedAnew DEF Tracked, BindingPhases, Loading
<1>3. Keeps(b)
  BY <1>1, KeepsObject DEF Binding
<1> QED
  BY <1>2, <1>3, KeepsSteps DEF TrackStep

\* So is one that goes on, with a context that fits and without having unbound.
LEMMA GoTrack ==
    ASSUME Inv, NEW b \in Bindings, Tracked(b), pc[b] # "idle",
           NEW c \in Phases \ {"removeFinalizer", "deleteJob"}, Goto(b, c),
           c \in Binding /\ snap[b].state = "Ready" => pc[b] \in Binding,
           c \in (BindingPhases \ {"loadModel"}) \cup {"patchReady"} =>
              /\ ctx'[b].model = snap[b].spec.model
              /\ ctx'[b].source = snap[b].spec.source
              /\ ctx'[b].target = snap[b].spec.target,
           UNCHANGED <<api, cache, buckets, links>>
    PROVE  TrackStep(b)
<1>1. b \in Objects /\ pc'[b] = c /\ snap'[b] = snap[b]
  BY GotoStep DEF Objects
<1>2. Tracked(b)'
  BY <1>1, TrackedOn
<1>3. Keeps(b)
  BY <1>1, KeepsObject
<1> QED
  BY <1>2, <1>3, KeepsSteps DEF TrackStep

\* A failed call leaves everything to the next attempt.
LEMMA FailTrack ==
    ASSUME Inv, NEW b \in Bindings, Tracked(b), Fail(b)
    PROVE  TrackStep(b)
  BY EndTrack DEF Fail, Requeue, dataVars, Objects

\* A context that cannot be loaded ends the attempt, or loses track for good.
LEMMA LoadErrorTrack ==
    ASSUME Inv, NEW b \in Bindings, Tracked(b), pc[b] \in Loading, LoadError(b),
           UNCHANGED <<api, cache, dataVars>>
    PROVE  TrackStep(b)
<1>1. CASE Requeue(b)
  BY <1>1, EndTrack DEF Requeue, dataVars, Objects
<1>2. CASE Goto(b, "removeFinalizer")
  <2>1. b \in Objects /\ pc'[b] = "removeFinalizer" /\ snap'[b] = snap[b]
    BY <1>2, GotoStep DEF Objects, Phases
  <2>2. Tracked(b)'
    BY <2>1, TrackedOn DEF Loading, BindingPhases
  <2>3. LosesTrack(b)
    BY <2>1 DEF LosesTrack
  <2> QED
    BY <2>2, <2>3, LosesSteps DEF TrackStep
<1> QED
  BY <1>1, <1>2 DEF LoadError

\* load_context reads the model that the spec names.
LEMMA LoadModelTrack ==
    ASSUME Inv, NEW b \in Bindings, Tracked(b), LoadModel(b)
    PROVE  TrackStep(b)
<1> DEFINE sp == snap[b].spec
           c == [model |-> sp.model, modelSpec |-> api[sp.model].spec,
                 source |-> sp.source, sourceUid |-> 0,
                 target |-> sp.target, targetUid |-> 0]
<1>1. pc[b] = "loadModel" /\ UNCHANGED <<api, cache, dataVars>>
  BY DEF LoadModel
<1>2. CASE LoadError(b)
  BY <1>1, <1>2, LoadErrorTrack DEF Loading
<1>3. CASE ctx' = [ctx EXCEPT ![b] = c] /\ Goto(b, "loadTarget")
  <2>1. ctx'[b] = c
    BY <1>3 DEF Inv, TypeOK
  <2> QED
    BY <1>1, <1>3, <2>1, GoTrack DEF Phases, Binding, dataVars
<1>4. CASE ctx' = [ctx EXCEPT ![b] = c] /\ Goto(b, "loadSource")
  <2>1. ctx'[b] = c
    BY <1>4 DEF Inv, TypeOK
  <2> QED
    BY <1>1, <1>4, <2>1, GoTrack DEF Phases, Binding, dataVars
<1> QED
  BY <1>2, <1>3, <1>4 DEF LoadModel

\* ... then the source,
LEMMA LoadSourceTrack ==
    ASSUME Inv, NEW b \in Bindings, Tracked(b), LoadSource(b)
    PROVE  TrackStep(b)
<1> DEFINE c == [ctx[b] EXCEPT !.sourceUid = api[snap[b].spec.source].uid]
<1>1. pc[b] = "loadSource" /\ UNCHANGED <<api, cache, dataVars>>
  BY DEF LoadSource
<1>2. CASE LoadError(b)
  BY <1>1, <1>2, LoadErrorTrack DEF Loading
<1>3. CASE ctx' = [ctx EXCEPT ![b].sourceUid = api[snap[b].spec.source].uid] /\ Goto(b, "loadTarget")
  <2>1. b \in Objects /\ ctx[b] \in Context /\ ctx'[b] = c
    BY <1>1, <1>3, Types DEF Inv, TypeOK, Objects, ObjectInv, ContentsFit, BindingPhases, Loading
  <2>2. c.model = ctx[b].model /\ c.source = ctx[b].source /\ c.target = ctx[b].target
    BY <2>1 DEF Context
  <2> QED
    BY <1>1, <1>3, <2>1, <2>2, GoTrack
       DEF Phases, Binding, dataVars, Tracked, ContextFits, BindingPhases, Loading
<1> QED
  BY <1>2, <1>3 DEF LoadSource

\* ... and the target; the bind of a new binding drops no status.
LEMMA LoadTargetTrack ==
    ASSUME Inv, NEW b \in Bindings, Tracked(b), LoadTarget(b)
    PROVE  TrackStep(b)
<1> DEFINE c == [ctx[b] EXCEPT !.targetUid = api[snap[b].spec.target].uid]
<1>1. pc[b] = "loadTarget" /\ UNCHANGED <<api, cache, dataVars>> /\ b \in Objects
  BY DEF LoadTarget, Objects
<1>2. CASE LoadError(b)
  BY <1>1, <1>2, LoadErrorTrack DEF Loading
<1>3. CASE AfterLoad(b, c) /\ ctx' = [ctx EXCEPT ![b] = IF pc'[b] = "idle" THEN None ELSE c]
  <2>1. ctx[b] \in Context /\ ctx'[b] = IF pc'[b] = "idle" THEN None ELSE c
    BY <1>1, <1>3, Types DEF Inv, TypeOK, ObjectInv, ContentsFit, BindingPhases, Loading
  <2>2. c.model = ctx[b].model /\ c.source = ctx[b].source /\ c.target = ctx[b].target
    BY <2>1 DEF Context
  <2>3. /\ c.model = snap[b].spec.model /\ c.source = snap[b].spec.source
        /\ c.target = snap[b].spec.target
    BY <1>1, <2>2 DEF Tracked, ContextFits, BindingPhases, Loading
  <2>4. CASE Await(b) \/ Requeue(b)
    BY <1>1, <2>4, EndTrack DEF Await, Requeue, dataVars
  <2>5. CASE snap[b].state = "Pending" /\ Goto(b, "makeBucket")
    <3>1. pc'[b] = "makeBucket" /\ "makeBucket" \in Phases
      BY <1>1, <2>5, GotoStep DEF Phases
    <3> QED
      BY <1>1, <2>1, <2>3, <2>5, <3>1, GoTrack DEF dataVars
  <2>6. CASE Goto(b, "unsync")
    <3>1. pc'[b] = "unsync" /\ "unsync" \in Phases
      BY <1>1, <2>6, GotoStep DEF Phases
    <3> QED
      BY <1>1, <2>1, <2>3, <2>6, <3>1, GoTrack DEF dataVars, Binding
  <2>7. snap[b].state \in State
    BY <1>1, Types DEF Object
  <2> QED
    BY <1>3, <2>4, <2>5, <2>6, <2>7 DEF AfterLoad, State
<1> QED
  BY <1>2, <1>3 DEF LoadTarget

-------------------------------------------------------------------------------
(* Unbinding: all that a binding stops to answer for is what it unbinds.   *)

\* Taking down the replication of c leaves no link of it.
LEMMA UnlinkedLacks == ASSUME NEW c \in Context PROVE Link(c) \notin Unlinked(c)
<1>1. Link(c)[1] = c.source /\ Link(c)[3] = c.model
  BY DEF Link
<1> QED
  BY <1>1 DEF Unlinked

\* What an unbinding takes as its context is the last status of an update, and
\* agrees with both spec and status of a deletion, unless track is lost.
LEMMA Unbinds ==
    ASSUME Inv, NEW b \in Bindings, Tracked(b), pc[b] \in {"unsync", "deleteJob"},
           ~LosesTrack(b), NEW a \in AnswersFor(b)
    PROVE  \/ snap[b].state = "Ready" /\ a \in {Unbound(b), SpecContext(api[b])}
           \/ /\ snap[b].state = "Deleting"
              /\ Bucket(a) = Bucket(Unbound(b)) /\ Link(a) = Link(Unbound(b))
<1>1. snap[b].spec = api[b].spec /\ snap[b].status = api[b].status
  BY DEF LosesTrack
<1>2. a = SpecContext(api[b]) \/ (a = api[b].status /\ api[b].status # None)
  BY DEF AnswersFor
<1>3. snap[b].state \in {"Ready", "Deleting"}
  BY Types DEF Objects, Object, State, ObjectInv, PhaseFits
<1>4. CASE snap[b].state = "Ready"
  BY <1>1, <1>2, <1>4 DEF Unbound
<1>5. CASE snap[b].state = "Deleting"
  <2>1. /\ Unbound(b) = ctx[b]
        /\ ctx[b].model = snap[b].spec.model /\ ctx[b].source = snap[b].spec.source
        /\ ctx[b].target = snap[b].spec.target
    BY <1>5 DEF Unbound, Tracked, ContextFits, BindingPhases
  <2>2. Bucket(Unbound(b)) = Bucket(snap[b].spec) /\ Link(Unbound(b)) = Link(snap[b].spec)
    BY <2>1 DEF Bucket, Link
  <2>3. CASE a = SpecContext(api[b])
    BY <1>1, <1>5, <2>2, <2>3 DEF SpecContext, Bucket, Link
  <2>4. CASE a = api[b].status /\ api[b].status # None
    <3>1. ~Drifted(snap[b])
      BY <1>5 DEF LosesTrack
    <3> QED
      BY <1>1, <1>5, <2>2, <2>4, <3>1 DEF Drifted
  <2> QED
    BY <1>2, <2>3, <2>4
<1> QED
  BY <1>3, <1>4, <1>5

\* After the unbinding no more than its bucket and its replication are given up.
LEMMA Released ==
    ASSUME Inv, NEW b \in Bindings, Tracked(b), pc[b] \in {"unsync", "deleteJob"},
           ~LosesTrack(b), AfterUnbind(b), UNCHANGED <<api, ctx>>
    PROVE  /\ BucketsOf(b) \subseteq BucketsOf(b)' \cup {Bucket(Unbound(b))}
           /\ LinksOf(b) \subseteq LinksOf(b)' \cup {Link(Unbound(b))}
<1>1. b \in Objects /\ snap'[b] = snap[b]
      /\ pc'[b] = IF snap[b].state = "Ready" THEN "makeBucket" ELSE "removeFinalizer"
  BY GotoStep DEF Objects, AfterUnbind, Phases
<1>2. CASE snap[b].state = "Ready"
  <2>1. ASSUME NEW a \in AnswersFor(b), a # Unbound(b) PROVE a \in AnswersFor(b)'
    <3>1. a = SpecContext(api[b])
      BY <1>2, <2>1, Unbinds
    <3>2. api[b].exists /\ api[b].finalizer
      BY DEF AnswersFor
    <3> QED
      BY <1>1, <1>2, <3>1, <3>2 DEF AnswersFor, SpecContext
  <2>2. LinksOf(b)' = {Link(a) : a \in AnswersFor(b)'}
    BY <1>1, <1>2 DEF LinksOf
  <2> QED
    BY <2>1, <2>2 DEF BucketsOf, LinksOf
<1>3. CASE snap[b].state # "Ready"
  <2>1. ASSUME NEW a \in AnswersFor(b)
        PROVE Bucket(a) = Bucket(Unbound(b)) /\ Link(a) = Link(Unbound(b))
    BY <1>3, Unbinds
  <2> QED
    BY <2>1 DEF BucketsOf, LinksOf
<1> QED
  BY <1>2, <1>3

\* The unbinding of a binding's own context keeps what is left of it tracked.
LEMMA AfterUnbindTracked ==
    ASSUME Inv, NEW b \in Bindings, Tracked(b), pc[b] \in {"unsync", "deleteJob"},
           NEW c \in {"deleteJob", "makeBucket", "removeFinalizer"}, Goto(b, c),
           UNCHANGED <<api, cache, ctx>>
    PROVE  Tracked(b)'
<1>1. b \in Objects /\ snap'[b] = snap[b]
  BY GotoStep DEF Objects, Phases
<1> QED
  BY <1>1, TrackedOn DEF Tracked, ContextFits, BindingPhases

\* A bucket that is not deleted is retained or was not there, and its replication
\* is taken down but in the latter case.
LEMMA UnsyncBucketTrack ==
    ASSUME Inv, NEW b \in Bindings, Tracked(b), UnsyncBucket(b)
    PROVE  TrackStep(b)
<1> DEFINE c == Unbound(b)
<1>1. pc[b] = "unsync" /\ UNCHANGED <<api, cache, ctx, buckets, jobs>>
  BY DEF UnsyncBucket
<1>2. c \in Context
  BY <1>1, UnboundType
<1>3. links' \subseteq links
  BY DEF UnsyncBucket, Unlinked
<1>4. Tracked(b)'
  BY <1>1, AfterUnbindTracked DEF UnsyncBucket, AfterUnbind
<1>5. ASSUME ~LosesTrack(b) PROVE Steps(b)
  <2>1. CASE /\ AfterUnbind(b)
             /\ snap[b].spec.policy = "Retain" \/ Bucket(c) \notin buckets
             /\ links' = Unlinked(c) \/ Bucket(c) \notin buckets
    <3>1. /\ BucketsOf(b) \subseteq BucketsOf(b)' \cup {Bucket(c)}
          /\ LinksOf(b) \subseteq LinksOf(b)' \cup {Link(c)}
      BY <1>1, <1>5, <2>1, Released
    <3>2. BucketStep(b)
      BY <1>1, <2>1, <3>1 DEF BucketStep, ForsakesBucket
    <3>3. LinkStep(b)
      BY <1>1, <1>2, <2>1, <3>1, UnlinkedLacks DEF LinkStep, ForsakesLink
    <3> QED
      BY <3>2, <3>3 DEF Steps
  <2>2. CASE Goto(b, "deleteJob") /\ links' = Unlinked(c)
    <3>1. b \in Objects /\ pc'[b] = "deleteJob" /\ snap'[b] = snap[b] /\ ctx'[b] = ctx[b]
          /\ api'[b] = api[b]
      BY <1>1, <2>2, GotoStep DEF Objects, Phases
    <3>2. AnswersFor(b)' = AnswersFor(b) /\ Unbound(b)' = c
      BY <1>1, <3>1 DEF AnswersFor, SpecContext, Binding, Unbound
    <3>3. BucketsOf(b) \subseteq BucketsOf(b)'
      BY <3>2 DEF BucketsOf
    <3>4. LinksOf(b) \subseteq LinksOf(b)' \cup {Link(c)}
      BY <3>1, <3>2 DEF LinksOf
    <3>5. BucketStep(b)
      BY <1>1, <3>3 DEF BucketStep, ForsakesBucket
    <3>6. LinkStep(b)
      BY <1>1, <1>2, <2>2, <3>4, UnlinkedLacks DEF LinkStep, ForsakesLink
    <3> QED
      BY <3>5, <3>6 DEF Steps
  <2> QED
    BY <2>1, <2>2 DEF UnsyncBucket
<1> QED
  BY <1>4, <1>5, LosesSteps DEF TrackStep

\* The bucket that is given up last has a Job by then.
LEMMA CreateDeleteJobTrack ==
    ASSUME Inv, NEW b \in Bindings, Tracked(b), CreateDeleteJob(b)
    PROVE  TrackStep(b)
<1> DEFINE c == Unbound(b)
<1>1. pc[b] = "deleteJob" /\ UNCHANGED <<api, cache, ctx, buckets, links>>
      /\ jobs' = jobs \cup {Bucket(c)} /\ AfterUnbind(b)
  BY DEF CreateDeleteJob
<1>2. Tracked(b)'
  BY <1>1, AfterUnbindTracked DEF AfterUnbind
<1>3. ASSUME ~LosesTrack(b) PROVE Steps(b)
  <2>1. /\ BucketsOf(b) \subseteq BucketsOf(b)' \cup {Bucket(c)}
        /\ LinksOf(b) \subseteq LinksOf(b)' \cup {Link(c)}
    BY <1>1, <1>3, Released
  <2>2. Link(c) \notin LinksOf(b)
    BY <1>1 DEF LinksOf
  <2>3. BucketStep(b)
    BY <1>1, <2>1 DEF BucketStep, ForsakesBucket
  <2>4. LinkStep(b)
    BY <1>1, <2>1, <2>2 DEF LinkStep, ForsakesLink
  <2> QED
    BY <2>3, <2>4 DEF Steps
<1> QED
  BY <1>2, <1>3, LosesSteps DEF TrackStep

-------------------------------------------------------------------------------
(* Binding: what is made is what the spec names, and answered for.         *)

\* The binding work is on the bucket of the spec, which is still answered for.
LEMMA BindsSpec ==
    ASSUME Inv, NEW b \in Bindings, Tracked(b), pc[b] \in {"makeBucket", "sync"},
           ~LosesTrack(b), NEW c \in {"sync", "patchReady"}, Goto(b, c), api' = api
    PROVE  /\ Keeps(b)
           /\ Bucket(ctx[b]) \in BucketsOf(b)' /\ Link(ctx[b]) \in LinksOf(b)'
<1>1. b \in Objects /\ pc'[b] = c /\ snap'[b] = snap[b]
  BY GotoStep DEF Objects, Phases
<1>2. api[b].exists /\ api[b].finalizer
  BY <1>1, ReadyTarget DEF Binding, Same
<1>3. Keeps(b)
  BY <1>1, KeepsObject DEF Binding
<1>4. SpecContext(api[b]) \in AnswersFor(b)'
  BY <1>1, <1>2 DEF AnswersFor, SpecContext
<1>5. /\ ctx[b].model = api[b].spec.model /\ ctx[b].source = api[b].spec.source
      /\ ctx[b].target = api[b].spec.target
  BY DEF LosesTrack, Tracked, ContextFits, BindingPhases
<1>6. Bucket(ctx[b]) = Bucket(SpecContext(api[b])) /\ Link(ctx[b]) = Link(SpecContext(api[b]))
  BY <1>5 DEF Bucket, Link, SpecContext
<1> QED
  BY <1>1, <1>3, <1>4, <1>6 DEF BucketsOf, LinksOf

\* The context of binding work stays that of the spec.
LEMMA BindingTracked ==
    ASSUME Inv, NEW b \in Bindings, Tracked(b), pc[b] \in {"makeBucket", "sync"},
           NEW c \in {"sync", "patchReady"}, Goto(b, c), UNCHANGED <<api, cache, ctx>>
    PROVE  Tracked(b)'
<1>1. b \in Objects /\ snap'[b] = snap[b]
  BY GotoStep DEF Objects, Phases
<1> QED
  BY <1>1, TrackedOn DEF Tracked, ContextFits, BindingPhases

\* create_bucket makes the bucket that the spec names.
LEMMA MakeBucketTrack ==
    ASSUME Inv, NEW b \in Bindings, Tracked(b), MakeBucket(b)
    PROVE  TrackStep(b)
<1>1. pc[b] = "makeBucket" /\ UNCHANGED <<api, cache, ctx, links, jobs>>
      /\ buckets' = buckets \cup {Bucket(ctx[b])}
      /\ \E c \in {"sync", "patchReady"} : Goto(b, c)
  BY DEF MakeBucket
<1>2. Tracked(b)'
  BY <1>1, BindingTracked
<1>3. ASSUME ~LosesTrack(b) PROVE Steps(b)
  <2>1. Keeps(b) /\ Bucket(ctx[b]) \in BucketsOf(b)'
    BY <1>1, <1>3, BindsSpec
  <2>2. BucketStep(b)
    BY <1>1, <2>1 DEF BucketStep, ForsakesBucket, Keeps
  <2>3. LinkStep(b)
    BY <1>1, <2>1 DEF LinkStep, ForsakesLink, Keeps
  <2> QED
    BY <2>2, <2>3 DEF Steps
<1> QED
  BY <1>2, <1>3, LosesSteps DEF TrackStep

\* sync_bucket sets up the replication that the spec names.
LEMMA SyncBucketTrack ==
    ASSUME Inv, NEW b \in Bindings, Tracked(b), SyncBucket(b)
    PROVE  TrackStep(b)
<1>1. pc[b] = "sync" /\ UNCHANGED <<api, cache, buckets, jobs>>
  BY DEF SyncBucket
<1>2. CASE Requeue(b) /\ UNCHANGED links
  BY <1>1, <1>2, EndTrack DEF Requeue, Objects
<1>3. CASE links' = links \cup {Link(ctx[b])} /\ Goto(b, "patchReady") /\ UNCHANGED ctx
  <2>1. Tracked(b)'
    BY <1>1, <1>3, BindingTracked
  <2>2. ASSUME ~LosesTrack(b) PROVE Steps(b)
    <3>1. Keeps(b) /\ Link(ctx[b]) \in LinksOf(b)'
      BY <1>1, <1>3, <2>2, BindsSpec
    <3>2. BucketStep(b)
      BY <1>1, <3>1 DEF BucketStep, ForsakesBucket, Keeps
    <3>3. LinkStep(b)
      BY <1>1, <1>3, <3>1 DEF LinkStep, ForsakesLink, Keeps
    <3> QED
      BY <3>2, <3>3 DEF Steps
  <2> QED
    BY <2>1, <2>2, LosesSteps DEF TrackStep
<1> QED
  BY <1>2, <1>3 DEF SyncBucket

-------------------------------------------------------------------------------
(* The calls that write the object, and the users.                         *)

\* A reconciliation that writes the object ends; its copy in the cache stays.
LEMMA WriteTracked ==
    ASSUME NEW b \in Bindings, Tracked(b), Blank(api'[b]), cache' = cache, pc'[b] = "idle"
    PROVE  Tracked(b)'
  BY TrackedAnew DEF Tracked, BindingPhases, Loading

\* The status that is written back is that of the copy; if another has been written
\* since, track is lost.
LEMMA MarkDeletingTrack ==
    ASSUME Inv, NEW b \in Bindings, Tracked(b), MarkDeleting(b)
    PROVE  TrackStep(b)
<1>1. b \in Objects /\ pc[b] = "markDeleting" /\ UNCHANGED <<cache, buckets, links>>
      /\ pc'[b] = "idle"
  BY EndStep DEF MarkDeleting, Requeue, dataVars, Objects
<1>2. api'[b] = IF api[b].exists
                THEN [api[b] EXCEPT !.state = "Deleting", !.status = snap[b].status] ELSE api[b]
  BY <1>1, Types DEF MarkDeleting, PatchStatus, Inv, TypeOK
<1>3. api[b] \in Object
  BY <1>1, Types
<1>4. Tracked(b)'
  <2>1. CASE api[b].exists
    <3>1. api'[b].state = "Deleting"
      BY <1>2, <1>3, <2>1 DEF Object
    <3> QED
      BY <1>1, <3>1, WriteTracked DEF Blank
  <2>2. CASE ~api[b].exists
    BY <1>1, <1>2, <2>2, WriteTracked DEF Tracked, Blank
  <2> QED
    BY <2>1, <2>2
<1>5. ASSUME ~LosesTrack(b) PROVE Steps(b)
  <2>1. snap[b].status = api[b].status
    BY <1>1, <1>5 DEF LosesTrack
  <2>2. AnswersFor(b) \subseteq AnswersFor(b)'
    BY <1>1, <1>2, <1>3, <2>1 DEF AnswersFor, SpecContext, Binding, Object
  <2> QED
    BY <1>1, <2>2, KeepsMore, KeepsSteps
<1> QED
  BY <1>4, <1>5, LosesSteps DEF TrackStep

\* The finalizer only adds to what a binding answers for.
LEMMA AddFinalizerTrack ==
    ASSUME Inv, NEW b \in Bindings, Tracked(b), AddFinalizer(b)
    PROVE  TrackStep(b)
<1>1. b \in Objects /\ pc[b] = "addFinalizer" /\ UNCHANGED <<cache, buckets, links>>
      /\ pc'[b] = "idle"
  BY EndStep DEF AddFinalizer, Await, Requeue, dataVars, Objects
<1>2. api'[b] = IF api[b].exists THEN [api[b] EXCEPT !.finalizer = TRUE] ELSE api[b]
  BY <1>1 DEF Inv, TypeOK, AddFinalizer
<1>3. api[b] \in Object
  BY <1>1, Types
<1>4. Tracked(b)'
  BY <1>1, <1>2, <1>3, WriteTracked DEF Tracked, Blank, Object
<1>5. AnswersFor(b) \subseteq AnswersFor(b)'
  BY <1>1, <1>2, <1>3 DEF AnswersFor, SpecContext, Binding, Object
<1> QED
  BY <1>1, <1>4, <1>5, KeepsMore, KeepsSteps DEF TrackStep

\* The first status replaces none, that of an update one that has been unbound.
LEMMA PatchReadyTrack ==
    ASSUME Inv, NEW b \in Bindings, Tracked(b), PatchReady(b)
    PROVE  TrackStep(b)
<1>1. b \in Objects /\ pc[b] = "patchReady" /\ UNCHANGED <<cache, buckets, links>>
      /\ pc'[b] = "idle"
  BY EndStep DEF PatchReady, Requeue, dataVars, Objects
<1>2. api'[b] = IF api[b].exists
                THEN [api[b] EXCEPT !.state = "Ready", !.status = ctx[b]] ELSE api[b]
  BY <1>1 DEF PatchReady, PatchStatus, Inv, TypeOK
<1>3. api[b] \in Object /\ snap[b] \in Object /\ snap[b].state # "Deleting"
  BY <1>1, Types DEF ObjectInv, PhaseFits, Binding
<1>4. Tracked(b)'
  BY <1>1, <1>2, <1>3, WriteTracked DEF Tracked, Blank, Object
<1>5. ASSUME ~LosesTrack(b) PROVE Steps(b)
  <2>1. snap[b].status = api[b].status
    BY <1>1, <1>5 DEF LosesTrack
  <2>2. snap[b].state = "Ready" \/ api[b].status = None
    BY <1>1, <1>3, <2>1 DEF Tracked, Blank, Object, State
  <2>3. AnswersFor(b) \subseteq {SpecContext(api[b])}
    BY <1>1, <2>2 DEF AnswersFor, Binding
  <2>4. AnswersFor(b) \subseteq AnswersFor(b)'
    <3>1. CASE api[b].exists /\ api[b].finalizer
      BY <1>1, <1>2, <1>3, <2>3, <3>1 DEF AnswersFor, SpecContext, Object
    <3>2. CASE ~(api[b].exists /\ api[b].finalizer)
      BY <3>2 DEF AnswersFor
    <3> QED
      BY <3>1, <3>2
  <2> QED
    BY <1>1, <2>4, KeepsMore, KeepsSteps
<1> QED
  BY <1>4, <1>5, LosesSteps DEF TrackStep

\* When the finalizer goes, there is nothing left to answer for.
LEMMA RemoveFinalizerTrack ==
    ASSUME Inv, NEW b \in Bindings, Tracked(b), RemoveFinalizer(b)
    PROVE  TrackStep(b)
<1>1. b \in Objects /\ pc[b] = "removeFinalizer" /\ UNCHANGED <<cache, buckets, links>>
      /\ pc'[b] = "idle"
  BY EndStep DEF RemoveFinalizer, Await, Requeue, dataVars, Objects
<1>2. \/ api'[b] = api[b] \/ api'[b] = Absent(api[b].uid)
      \/ api'[b] = [api[b] EXCEPT !.finalizer = FALSE]
  BY <1>1 DEF RemoveFinalizer, Inv, TypeOK
<1>3. api[b] \in Object
  BY <1>1, Types
<1>4. Tracked(b)'
  BY <1>1, <1>2, <1>3, WriteTracked DEF Tracked, Blank, Object, Absent
<1>5. AnswersFor(b) = {}
  BY <1>1 DEF AnswersFor
<1> QED
  BY <1>1, <1>4, <1>5, KeepsNothing, KeepsSteps DEF TrackStep

\* A reconciliation that begins has done nothing yet.
LEMMA StartTrack ==
    ASSUME Inv, NEW b \in Bindings, Tracked(b), Start(b)
    PROVE  TrackStep(b)
<1>1. b \in Objects /\ b \notin Models /\ b \notin Storages /\ UNCHANGED <<api, cache, ctx, dataVars>>
  BY NamesAssumption DEF Start, Objects
<1>2. /\ pc'[b] \in {"markDeleting", "addFinalizer", "loadModel"}
      /\ snap'[b] = cache[b]
  BY <1>1 DEF Start, FirstCall, Inv, TypeOK
<1>3. Tracked(b)'
  BY <1>1, <1>2, TrackedAnew DEF Tracked, BindingPhases, Loading
<1>4. Keeps(b)
  BY <1>1, <1>2, KeepsObject DEF Binding
<1> QED
  BY <1>1, <1>3, <1>4, KeepsSteps DEF TrackStep, dataVars

\* A watch event brings a copy of an object that is tracked.
LEMMA WatchTrack ==
    ASSUME Inv, NEW b \in Bindings, Tracked(b), Watch(b)
    PROVE  TrackStep(b)
<1>1. b \in Objects /\ cache'[b] = api[b] /\ UNCHANGED <<api, pc, snap, ctx, dataVars>>
  BY DEF Watch, Inv, TypeOK, Objects
<1>2. Tracked(b)'
  BY <1>1 DEF Tracked, Blank, ContextFits
<1>3. AnswersFor(b)' = AnswersFor(b) /\ Unbound(b)' = Unbound(b)
  BY <1>1 DEF AnswersFor, SpecContext, Unbound
<1>4. Keeps(b)
  BY <1>1, <1>3 DEF Keeps, BucketsOf, LinksOf
<1> QED
  BY <1>1, <1>2, <1>4, KeepsSteps DEF TrackStep, dataVars

\* A created or deleted object has answered for nothing, or goes on to answer for
\* the same; an edited one loses track.
LEMMA UserTrack ==
    ASSUME Inv, NEW b \in Bindings, Tracked(b), User(b)
    PROVE  TrackStep(b)
<1>1. b \in Objects /\ api[b] \in Object /\ UNCHANGED <<cache, queue, pc, snap, ctx, dataVars>>
  BY Types DEF Objects, User, Create, Delete, Edit
<1>2. CASE Create(b)
  <2>1. PICK sp \in Specs(b) : api'[b] = Created(api[b].uid + 1, sp)
    BY <1>1, <1>2 DEF Create, Inv, TypeOK
  <2>2. api[b].uid + 1 \in Nat
    BY <1>1 DEF Object
  <2>3. Created(api[b].uid + 1, sp).status = None
    BY <2>2 DEF Created, Absent
  <2>4. Blank(api[b])'
    BY <2>1, <2>3 DEF Blank
  <2>5. AnswersFor(b) = {}
    BY <1>2 DEF Create, AnswersFor
  <2>6. Tracked(b)'
    BY <1>1, <2>4 DEF Tracked, Blank, ContextFits
  <2> QED
    BY <1>1, <2>5, <2>6, KeepsNothing, KeepsSteps DEF TrackStep, dataVars
<1>3. CASE Delete(b)
  <2>1. api'[b] = IF api[b].finalizer THEN [api[b] EXCEPT !.deleted = TRUE]
                  ELSE Absent(api[b].uid)
    BY <1>1, <1>3 DEF Delete, Inv, TypeOK
  <2>2. Blank(api[b])'
    BY <1>1, <2>1 DEF Tracked, Blank, Object, Absent
  <2>3. Tracked(b)'
    BY <1>1, <2>2 DEF Tracked, Blank, ContextFits
  <2>4. CASE api[b].finalizer
    <3>1. AnswersFor(b)' = AnswersFor(b)
      BY <1>1, <2>1, <2>4 DEF AnswersFor, SpecContext, Object
    <3>2. Unbound(b)' = Unbound(b)
      BY <1>1 DEF Unbound
    <3>3. Keeps(b)
      BY <1>1, <3>1, <3>2 DEF Keeps, BucketsOf, LinksOf
    <3> QED
      BY <1>1, <2>3, <3>3, KeepsSteps DEF TrackStep, dataVars
  <2>5. CASE ~api[b].finalizer
    <3>1. AnswersFor(b) = {}
      BY <2>5 DEF AnswersFor
    <3> QED
      BY <1>1, <2>3, <3>1, KeepsNothing, KeepsSteps DEF TrackStep, dataVars
  <2> QED
    BY <2>4, <2>5
<1>4. CASE Edit(b)
  <2>1. PICK sp \in Specs(b) \ {api[b].spec} : api'[b] = [api[b] EXCEPT !.spec = sp]
    BY <1>1, <1>4 DEF Edit, Inv, TypeOK
  <2>2. /\ api'[b].exists /\ api'[b].spec = sp
        /\ api'[b].state = api[b].state /\ api'[b].status = api[b].status
    BY <1>1, <1>4, <2>1 DEF Object, Edit
  <2>3. Tracked(b)'
    BY <1>1, <2>2 DEF Tracked, Blank, ContextFits
  <2>4. LosesTrack(b)
    BY <2>1, <2>2 DEF LosesTrack
  <2> QED
    BY <2>3, <2>4, LosesSteps DEF TrackStep
<1> QED
  BY <1>2, <1>3, <1>4 DEF User

-------------------------------------------------------------------------------
(* All steps.                                                              *)

\* A binding on which a step does not act is where it was.
LEMMA StillTrack ==
    ASSUME NEW b \in Bindings, Tracked(b), Still(b)
    PROVE  TrackStep(b)
<1>1. Keeps(b) /\ pc'[b] = pc[b]
  BY KeepsStill DEF Still
<1>2. Steps(b)
  BY <1>1 DEF Keeps, Steps, BucketStep, LinkStep, ForsakesBucket, ForsakesLink
<1> QED
  BY <1>2, TrackedStill DEF TrackStep

\* A step that moves one object is right for all bindings if it is for that one.
LEMMA MovesTrack ==
    ASSUME TrackInv, NEW o \in Objects, Moves(o), o \in Bindings => TrackStep(o)
    PROVE  \A b \in Bindings : TrackStep(b)
  BY StillTrack DEF TrackInv, Moves, Alone, Objects

\* A restart ends every reconciliation, and the next starts from what there is.
LEMMA RestartTrack ==
    ASSUME Inv, NEW b \in Bindings, Tracked(b), Restart
    PROVE  TrackStep(b)
<1>1. /\ b \in Objects /\ UNCHANGED <<api, dataVars>> /\ cache'[b] = api[b]
      /\ pc'[b] = "idle"
  BY DEF Restart, Objects
<1>2. Tracked(b)'
  BY <1>1, TrackedAnew DEF Tracked, BindingPhases, Loading
<1>3. Keeps(b)
  BY <1>1, KeepsObject DEF Binding
<1> QED
  BY <1>1, <1>2, <1>3, KeepsSteps DEF TrackStep, dataVars

\* What goes wrong is right for every binding.
LEMMA FaultTrack ==
    ASSUME Inv, TrackInv, Fault
    PROVE  \A b \in Bindings : TrackStep(b)
<1>1. \A b \in Bindings : Tracked(b)
  BY DEF TrackInv
<1>2. ASSUME NEW o \in Objects, Fail(o) PROVE \A b \in Bindings : TrackStep(b)
  BY <1>1, <1>2, FailInv, FailTrack, MovesTrack
<1>3. ASSUME NEW c \in Bindings, LoadFails(c) PROVE \A b \in Bindings : TrackStep(b)
  <2>1. pc[c] \in Loading /\ LoadError(c) /\ UNCHANGED <<api, cache, dataVars>> /\ c \in Objects
    BY <1>3 DEF LoadFails, Objects
  <2>2. Moves(c) /\ TrackStep(c)
    BY <1>1, <2>1, LoadErrorInv, LoadErrorTrack
  <2> QED
    BY <2>1, <2>2, MovesTrack
<1>4. CASE Restart
  BY <1>1, <1>4, RestartTrack
<1> QED
  BY <1>2, <1>3, <1>4 DEF Fault

\* What goes right is right for every binding.
LEMMA WorkTrack ==
    ASSUME Inv, TrackInv, Work
    PROVE  \A b \in Bindings : TrackStep(b)
<1>1. \A b \in Bindings : Tracked(b)
  BY DEF TrackInv
<1>2. ASSUME NEW o \in Objects, ReconcileObject(o) PROVE \A b \in Bindings : TrackStep(b)
  <2>1. Moves(o)
    BY <1>2, StartInv, MarkDeletingInv, AddFinalizerInv, PatchReadyInv, RemoveFinalizerInv
       DEF ReconcileObject
  <2>2. o \in Bindings => TrackStep(o)
    BY <1>1, <1>2, StartTrack, MarkDeletingTrack, AddFinalizerTrack, PatchReadyTrack,
       RemoveFinalizerTrack DEF ReconcileObject
  <2> QED
    BY <2>1, <2>2, MovesTrack
<1>3. ASSUME NEW o \in Objects, Watch(o) \/ User(o) PROVE \A b \in Bindings : TrackStep(b)
  <2>1. Moves(o)
    BY <1>3, WatchInv, CreateInv, DeleteInv, EditInv DEF User
  <2>2. o \in Bindings => TrackStep(o)
    BY <1>1, <1>3, WatchTrack, UserTrack
  <2> QED
    BY <2>1, <2>2, MovesTrack
<1>4. ASSUME NEW s \in Storages, ReconcileModelStorage(s) PROVE \A b \in Bindings : TrackStep(b)
  <2>1. s \in Objects /\ s \notin Bindings /\ Moves(s)
    BY <1>4, ValidateModelStorageInv, DeleteModelStorageInv, NamesAssumption
       DEF ReconcileModelStorage, Objects
  <2> QED
    BY <2>1, MovesTrack
<1>5. ASSUME NEW m \in Models, ReconcileModel(m) PROVE \A b \in Bindings : TrackStep(b)
  <2>1. m \in Objects /\ m \notin Bindings /\ Moves(m)
    BY <1>5, ModelInv, NamesAssumption DEF Objects
  <2> QED
    BY <2>1, MovesTrack
<1>6. ASSUME NEW c \in Bindings, ReconcileBinding(c) PROVE \A b \in Bindings : TrackStep(b)
  <2>1. c \in Objects /\ Moves(c)
    BY <1>6, LoadModelInv, LoadSourceInv, LoadTargetInv, UnsyncBucketInv, CreateDeleteJobInv,
       MakeBucketInv, SyncBucketInv DEF ReconcileBinding, Objects
  <2>2. TrackStep(c)
    BY <1>1, <1>6, LoadModelTrack, LoadSourceTrack, LoadTargetTrack, UnsyncBucketTrack,
       CreateDeleteJobTrack, MakeBucketTrack, SyncBucketTrack DEF ReconcileBinding
  <2> QED
    BY <2>1, <2>2, MovesTrack
<1>7. ASSUME NEW k \in jobs, RunJob(k) PROVE \A b \in Bindings : TrackStep(b)
  <2>1. \A b \in Bindings : Still(b)
    BY <1>7 DEF RunJob, kubeVars, Still
  <2> QED
    BY <1>1, <2>1, StillTrack
<1> QED
  BY <1>2, <1>3, <1>4, <1>5, <1>6, <1>7 DEF Work

\* The initial states are tracked: no binding is there.
LEMMA InitTrack == Init => TrackInv
<1> SUFFICES ASSUME Init, NEW b \in Bindings PROVE Tracked(b)
  BY DEF TrackInv
<1>1. b \in Objects /\ b \notin Settled
  BY NamesAssumption, SpecsAssumption DEF Objects
<1>2. api[b] = Absent(0) /\ cache[b] = api[b] /\ pc[b] = "idle"
  BY <1>1 DEF Init
<1> QED
  BY <1>2 DEF Tracked, Blank, ContextFits, BindingPhases, Loading, Absent

\* Every step keeps the bindings tracked, and forsakes nothing.
LEMMA NextTrack ==
    Inv /\ TrackInv /\ [Next]_vars => TrackInv' /\ \A b \in Bindings : Steps(b)
<1> SUFFICES ASSUME Inv, TrackInv, [Next]_vars PROVE \A b \in Bindings : TrackStep(b)
  BY DEF TrackInv, TrackStep
<1>1. CASE UNCHANGED vars
  <2>1. \A b \in Bindings : Still(b)
    BY <1>1 DEF vars, Still
  <2> QED
    BY <2>1, StillTrack DEF TrackInv
<1> QED
  BY <1>1, WorkTrack, FaultTrack DEF Next

\* The context of a reconciliation is that of the spec it works on, and a status is
\* written together with a state (ctx/model_storage_binding.rs).
THEOREM Tracking == Spec => []TrackInv
  BY InitTrack, NextTrack, Invariance, PTL DEF Spec

\* A binding walks away from a bucket that nobody answers for, and no Job deletes, only
\* in the ways LosesTrack lists or when it is to retain it (ctx/model_storage_binding.rs,
\* unbind_model and bind_model).
THEOREM NoLeak == Spec => NoSilentLeak
<1>1. Inv /\ TrackInv /\ [Next]_vars =>
        [\A b \in Bindings : \A k \in buckets' \ jobs' :
            ForsakesBucket(b, k) =>
               LosesTrack(b) \/ (pc[b] # "idle" /\ snap[b].spec.policy = "Retain")]_vars
  BY NextTrack DEF Steps, BucketStep
<1> QED
  BY <1>1, Invariance, Tracking, PTL DEF Spec, NoSilentLeak

\* A replication is left behind only in those ways, or when its bucket was gone.
THEOREM NoDangling == Spec => NoDanglingReplication
<1>1. Inv /\ TrackInv /\ [Next]_vars =>
        [\A b \in Bindings : \A l \in links' :
            ForsakesLink(b, l) =>
               LosesTrack(b) \/ (pc[b] = "unsync" /\ Bucket(Unbound(b)) \notin buckets)]_vars
  BY NextTrack DEF Steps, LinkStep
<1> QED
  BY <1>1, Invariance, Tracking, PTL DEF Spec, NoDanglingReplication
=============================================================================
