--------------------------- MODULE ClaimOperatorInv ---------------------------
(***************************************************************************)
(* The inductive invariant of ClaimOperator.  What StorageOperatorInv says *)
(* of the copies of an object holds of those of a claim, because both      *)
(* controllers branch and cache alike; and the errand of a reconciliation  *)
(* fits the claim it works for.                                            *)
(***************************************************************************)
EXTENDS StorageOperatorInv, ClaimOperator

\* A copy of a claim that is there has a spec, with a policy somebody gave it.
Known(d) ==
    d.exists => /\ d.spec \in ClaimSpec
                /\ \E sp \in ClaimSpecs : sp.policy = d.spec.policy

ClaimCopiesSane(c) ==
    /\ Sane(claim[c]) /\ Sane(claimCache[c])
    /\ Older(claimCache[c], claim[c])
    /\ Known(claim[c]) /\ Known(claimCache[c])

\* See CacheTrusted.
ClaimCacheTrusted(c) ==
    LET a == claim[c]
        d == claimCache[c]
    IN  /\ d.finalizer /\ ~Same(d, a) => d.state = "Deleting" /\ ~a.finalizer
        /\ Same(d, a) /\ a.state = "Deleting" => d.deleted

ClaimSnapSane(c) ==
    claimPc[c] # "idle" =>
        /\ claimSnap[c].exists /\ Sane(claimSnap[c]) /\ Known(claimSnap[c])
        /\ Older(claimSnap[c], claimCache[c])

\* See SnapTrusted.
ClaimSnapTrusted(c) ==
    LET a == claim[c]
        d == claimCache[c]
        s == claimSnap[c]
    IN  claimPc[c] # "idle" =>
            /\ s.finalizer /\ ~Same(s, a) => s.state = "Deleting" /\ ~a.finalizer
            /\ d.finalizer /\ ~Same(d, a) => s.state = "Deleting"
            /\ s.finalizer /\ ~s.deleted => a.state # "Deleting"

\* The calls a reconciliation makes, and its errand, fit the copy it works on.
ErrandFits(c) ==
    LET s == claimSnap[c]
        call == claimPc[c]
    IN  /\ call = "addFinalizer" => ~s.finalizer
        /\ call \notin {"idle", "addFinalizer"} => s.finalizer
        /\ call \in ClaimBinding => s.state # "Deleting"
        /\ call \in {"findModel", "deleteModel", "removeFinalizer"} => s.state = "Deleting"
        /\ call \in {"listOld", "deleteOld"} => (s.deleted => s.state = "Deleting")
        /\ call \in ClaimBinding \ {"patchStatus", "patchSpec"} => ~s.deleted
        /\ call \in {"createBinding", "patchStatus", "patchSpec"} =>
              work[c].state = IF s.deleted THEN "Deleting" ELSE "Ready"

\* What holds of every claim.
ClaimObjectInv(c) ==
    /\ ClaimCopiesSane(c) /\ ClaimCacheTrusted(c)
    /\ ClaimSnapSane(c) /\ ClaimSnapTrusted(c)
    /\ ErrandFits(c)

ClaimInv == ClaimTypeOK /\ \A c \in Claims : ClaimObjectInv(c)

\* A reconciliation that has found the claim's model and will record the claim as Ready.
MakesReady(c) ==
    /\ claimPc[c] \in ClaimBinding \ {"getModel", "patchSpec"}
    /\ ~claimSnap[c].deleted

\* Between the last check of a model and its release no claim is Ready, nor about to be:
\* a claim only goes on with a model that is Ready or that is not there.
UnclaimedWhenReleased ==
    \A c \in Claims :
        LET m == ModelOf[c]
        IN  pc[m] = "removeFinalizer" /\ api[m].finalizer
            => claim[c].state # "Ready" /\ ~MakesReady(c)
===============================================================================
