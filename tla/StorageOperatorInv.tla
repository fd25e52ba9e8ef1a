-------------------------- MODULE StorageOperatorInv --------------------------
(***************************************************************************)
(* The inductive invariant of StorageOperator: how the three copies of an  *)
(* object, on the API server, in the cache and in a reconciliation, can    *)
(* differ, and what a reconciliation may conclude from its own copy.       *)
(***************************************************************************)
EXTENDS StorageOperator

\* A copy of an object that the API server could have held at some time.
Sane(x) ==
    /\ x.deleted \/ x.state # "Pending" => x.finalizer
    /\ x.state = "Deleting" => x.deleted
    /\ ~x.exists => ~x.deleted /\ ~x.finalizer /\ x.state = "Pending"

\* x is an earlier copy than y: of an earlier incarnation, or of the same one
\* with less of what an object never loses.
Older(x, y) ==
    /\ x.uid <= y.uid
    /\ x.uid = y.uid /\ y.exists =>
          /\ x.exists
          /\ x.finalizer => y.finalizer
          /\ x.deleted => y.deleted
          /\ x.state = "Deleting" => y.state = "Deleting"

\* The two copies are of the same incarnation.
Same(x, y) == x.exists /\ y.exists /\ x.uid = y.uid

CopiesSane(o) ==
    /\ Sane(api[o]) /\ Sane(cache[o])
    /\ Older(cache[o], api[o])

\* A cached object with the finalizer is gone from the API server only when the
\* cache shows it as Deleting, and what has come in its place is untouched; an
\* object is Deleting only when the cache has its deletion request.
CacheTrusted(o) ==
    LET a == api[o]
        c == cache[o]
    IN  /\ c.finalizer /\ ~Same(c, a) => c.state = "Deleting" /\ ~a.finalizer
        /\ Same(c, a) /\ a.state = "Deleting" => c.deleted

\* A reconciliation works on a copy that its cache held.
SnapSane(o) ==
    pc[o] # "idle" =>
        /\ snap[o].exists /\ Sane(snap[o])
        /\ Older(snap[o], cache[o])

\* A reconciliation of an object that is not Deleting keeps the incarnation it
\* works on, and the one its cache shows, on the API server.
SnapTrusted(o) ==
    LET a == api[o]
        c == cache[o]
        s == snap[o]
    IN  pc[o] # "idle" =>
            /\ s.finalizer /\ ~Same(s, a) => s.state = "Deleting" /\ ~a.finalizer
            /\ c.finalizer /\ ~Same(c, a) => s.state = "Deleting"
            /\ s.finalizer /\ ~s.deleted => a.state # "Deleting"

\* The calls a reconciliation makes fit the copy it works on.
PhaseFits(o) ==
    LET s == snap[o]
    IN  /\ pc[o] = "markDeleting" => s.deleted /\ s.state # "Deleting"
        /\ pc[o] = "addFinalizer" => ~s.finalizer
        /\ pc[o] \notin {"idle", "markDeleting", "addFinalizer"} =>
              s.finalizer /\ (s.deleted => s.state = "Deleting")
        /\ pc[o] \in {"validate"} \cup Binding => s.state # "Deleting"
        /\ pc[o] \in {"removeFinalizer", "checkBindings", "checkClaims"} =>
              s.state = "Deleting"
        /\ pc[o] \in {"unsync", "deleteJob"} => s.state # "Pending"

\* A copy of an existing object has a spec of its kind, that of a Ready binding
\* a complete status.
ContentFits(o, x) ==
    /\ x.exists => x.spec \in Specs(o)
    /\ o \in Bindings /\ x.state = "Ready" => x.status \in Context

BindingPhases ==
    Loading \cup {"unsync", "deleteJob", "makeBucket", "sync"}

ContentsFit(o) ==
    /\ ContentFits(o, api[o])
    /\ ContentFits(o, cache[o])
    /\ pc[o] # "idle" => ContentFits(o, snap[o])
    /\ pc[o] \in BindingPhases => o \in Bindings
    /\ o \in Bindings /\ pc[o] \in (BindingPhases \ {"loadModel"}) \cup {"patchReady"} =>
          ctx[o] \in Context
    /\ pc[o] = "loadSource" => snap[o].spec.source # None
    /\ o \in Bindings /\ pc[o] = "sync" => ctx[o].source # None

\* What holds of every object.
ObjectInv(o) ==
    /\ CopiesSane(o) /\ CacheTrusted(o)
    /\ SnapSane(o) /\ SnapTrusted(o) /\ PhaseFits(o)
    /\ ContentsFit(o)

Inv == TypeOK /\ \A o \in Objects : ObjectInv(o)

-----------------------------------------------------------------------------
(* What keeps track of the buckets and replications of a binding.          *)

\* A status is only written together with a state.
Blank(x) == x.state = "Pending" => x.status = None

\* The context of a reconciliation is that of the spec it works on.
ContextFits(b) ==
    pc[b] \in (BindingPhases \ {"loadModel"}) \cup {"patchReady"} =>
        /\ ctx[b].model = snap[b].spec.model
        /\ ctx[b].source = snap[b].spec.source
        /\ ctx[b].target = snap[b].spec.target

Tracked(b) ==
    /\ Blank(api[b]) /\ Blank(cache[b])
    /\ pc[b] # "idle" => Blank(snap[b])
    /\ ContextFits(b)

TrackInv == \A b \in Bindings : Tracked(b)
=============================================================================
