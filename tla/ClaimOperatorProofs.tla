-------------------------- MODULE ClaimOperatorProofs --------------------------
(***************************************************************************)
(* Proofs about ClaimOperator for any number of claims and objects: its    *)
(* own invariant, and that claims do nothing to the other controllers'     *)
(* objects that StorageOperator does not allow its users.                  *)
(***************************************************************************)
EXTENDS ClaimOperatorInv, StorageOperatorProofs

\* A claim none of whose copies, nor its reconciliation, changes.
ClaimStill(c) ==
    /\ claim'[c] = claim[c] /\ claimCache'[c] = claimCache[c]
    /\ claimPc'[c] = claimPc[c] /\ claimSnap'[c] = claimSnap[c]
    /\ work'[c] = work[c]

ClaimAlone(c) == \A d \in Claims \ {c} : ClaimStill(d)

\* What each action's lemma shows.
ClaimMoves(c) == ClaimTypeOK' /\ ClaimObjectInv(c)' /\ ClaimAlone(c)

\* An action that leaves a claim alone keeps what holds of it.
LEMMA ClaimUnmoved ==
    ASSUME NEW c \in Claims, ClaimObjectInv(c), ClaimStill(c)
    PROVE  ClaimObjectInv(c)'
<1>1. (ClaimCopiesSane(c) /\ ClaimCacheTrusted(c))'
  BY DEF ClaimStill, ClaimObjectInv, ClaimCopiesSane, ClaimCacheTrusted, Sane, Older, Same, Known
<1>2. (ClaimSnapSane(c) /\ ClaimSnapTrusted(c))'
  BY DEF ClaimStill, ClaimObjectInv, ClaimSnapSane, ClaimSnapTrusted, Sane, Older, Same, Known
<1>3. ErrandFits(c)'
  BY DEF ClaimStill, ClaimObjectInv, ErrandFits
<1> QED
  BY <1>1, <1>2, <1>3 DEF ClaimObjectInv

\* If an action keeps what holds of the one claim it moves, it keeps the invariant.
LEMMA ClaimMovesInv ==
    ASSUME ClaimInv, NEW c \in Claims, ClaimMoves(c)
    PROVE  ClaimInv'
  BY ClaimUnmoved DEF ClaimInv, ClaimMoves, ClaimAlone

\* The parts of the type invariant for one claim.
LEMMA ClaimTypes ==
    ASSUME ClaimInv, NEW c \in Claims
    PROVE  /\ claim[c] \in ClaimObject /\ claimCache[c] \in ClaimObject
           /\ claimSnap[c] \in ClaimObject
           /\ claimPc[c] \in ClaimPhases /\ work[c] \in Errand
           /\ ClaimObjectInv(c)
  BY DEF ClaimInv, ClaimTypeOK

\* A claim that is not there, and no errand, have their types.
LEMMA NoClaimType ==
    /\ \A n \in Nat : NoClaim(n) \in ClaimObject
    /\ NoWork \in Errand
  BY DEF NoClaim, ClaimObject, NoWork, Errand, State

-------------------------------------------------------------------------------
(* The ways in which a reconciliation of a claim goes on or ends.          *)

\* The end of a reconciliation.
LEMMA ClaimEndStep ==
    ASSUME ClaimInv, NEW c \in Claims, NEW r \in SUBSET Claims, ClaimEnd(c, r)
    PROVE  /\ claimPc' \in [Claims -> ClaimPhases] /\ claimSnap' \in [Claims -> ClaimObject]
           /\ claimQueue' \subseteq Claims /\ work' \in [Claims -> Errand]
           /\ claimPc'[c] = "idle"
           /\ \A d \in Claims \ {c} :
                 /\ claimPc'[d] = claimPc[d] /\ claimSnap'[d] = claimSnap[d]
                 /\ work'[d] = work[d]
           /\ \A d \in Claims : claimPc'[d] = "createBinding" => work'[d].bound \in Storages
<1>1. /\ claimPc' \in [Claims -> ClaimPhases] /\ claimSnap' \in [Claims -> ClaimObject]
      /\ claimQueue' \subseteq Claims /\ work' \in [Claims -> Errand]
      /\ claimPc'[c] = "idle"
      /\ \A d \in Claims \ {c} :
            /\ claimPc'[d] = claimPc[d] /\ claimSnap'[d] = claimSnap[d]
            /\ work'[d] = work[d]
  BY NoClaimType DEF ClaimInv, ClaimTypeOK, ClaimEnd, ClaimPhases
<1> QED
  BY <1>1 DEF ClaimInv, ClaimTypeOK

\* A reconciliation that ends without a write keeps the invariant.
LEMMA ClaimEnds ==
    ASSUME ClaimInv, NEW c \in Claims, NEW r \in SUBSET Claims, ClaimEnd(c, r),
           UNCHANGED <<claim, claimCache>>
    PROVE  ClaimMoves(c)
<1>1. ClaimTypeOK'
  BY ClaimEndStep DEF ClaimInv, ClaimTypeOK
<1>2. ClaimAlone(c)
  BY ClaimEndStep DEF ClaimAlone, ClaimStill
<1>3. (ClaimCopiesSane(c) /\ ClaimCacheTrusted(c))'
  BY ClaimTypes
     DEF ClaimObjectInv, ClaimCopiesSane, ClaimCacheTrusted, Sane, Older, Same, Known
<1>4. (ClaimSnapSane(c) /\ ClaimSnapTrusted(c) /\ ErrandFits(c))'
  BY ClaimEndStep DEF ClaimSnapSane, ClaimSnapTrusted, ErrandFits, ClaimBinding
<1> QED
  BY <1>1, <1>2, <1>3, <1>4 DEF ClaimMoves, ClaimObjectInv

\* A call that goes on with an errand that fits keeps the invariant.
LEMMA ClaimGoesOn ==
    ASSUME ClaimInv, NEW c \in Claims, claimPc[c] \notin {"idle", "addFinalizer"},
           NEW call \in ClaimPhases \ {"idle", "addFinalizer"}, ClaimGoto(c, call),
           NEW w \in Errand, work' = [work EXCEPT ![c] = w],
           UNCHANGED <<claim, claimCache>>,
           call = "createBinding" => w.bound \in Storages,
           call \in ClaimBinding => claimSnap[c].state # "Deleting",
           call \in {"findModel", "deleteModel", "removeFinalizer"} =>
              claimSnap[c].state = "Deleting",
           call \in {"listOld", "deleteOld"} =>
              (claimSnap[c].deleted => claimSnap[c].state = "Deleting"),
           call \in ClaimBinding \ {"patchStatus", "patchSpec"} => ~claimSnap[c].deleted,
           call \in {"createBinding", "patchStatus", "patchSpec"} =>
              w.state = IF claimSnap[c].deleted THEN "Deleting" ELSE "Ready"
    PROVE  ClaimMoves(c)
<1>1. /\ claimPc' \in [Claims -> ClaimPhases] /\ claimSnap' = claimSnap
      /\ claimQueue' = claimQueue /\ work' \in [Claims -> Errand]
      /\ claimPc'[c] = call /\ work'[c] = w
      /\ \A d \in Claims \ {c} : claimPc'[d] = claimPc[d] /\ work'[d] = work[d]
  BY DEF ClaimInv, ClaimTypeOK, ClaimGoto
<1>2. ClaimTypeOK'
  BY <1>1 DEF ClaimInv, ClaimTypeOK
<1>3. ClaimAlone(c)
  BY <1>1 DEF ClaimAlone, ClaimStill
<1>4. (ClaimCopiesSane(c) /\ ClaimCacheTrusted(c))'
  BY ClaimTypes
     DEF ClaimObjectInv, ClaimCopiesSane, ClaimCacheTrusted, Sane, Older, Same, Known
<1>5. (ClaimSnapSane(c) /\ ClaimSnapTrusted(c))'
  BY <1>1, ClaimTypes
     DEF ClaimObjectInv, ClaimSnapSane, ClaimSnapTrusted, Sane, Older, Same, Known
<1>6. ErrandFits(c)'
  BY <1>1, ClaimTypes DEF ClaimObjectInv, ErrandFits
<1> QED
  BY <1>2, <1>3, <1>4, <1>5, <1>6 DEF ClaimMoves, ClaimObjectInv

\* Most calls take the same errand along.
LEMMA SameErrand ==
    ASSUME ClaimInv, NEW c \in Claims, UNCHANGED work
    PROVE  work' = [work EXCEPT ![c] = work[c]]
  BY DEF ClaimInv, ClaimTypeOK

-------------------------------------------------------------------------------
(* The calls of a reconciliation of a claim.                               *)

\* A failed call ends the reconciliation and writes nothing.
LEMMA ClaimFailInv ==
    ASSUME ClaimInv, NEW c \in Claims, ClaimFail(c)
    PROVE  ClaimMoves(c)
  BY ClaimEnds DEF ClaimFail, ClaimRequeue

\* A reconciliation starts with a call that fits the copy it works on.
LEMMA ClaimStartInv ==
    ASSUME ClaimInv, NEW c \in Claims, ClaimStart(c)
    PROVE  ClaimMoves(c)
<1> DEFINE d == claimCache[c]
           call == FirstClaimCall(d)
           w == IF call = "patchStatus" THEN Record("Deleting", d.bound) ELSE NoWork
<1>1. /\ d.exists /\ claim' = claim /\ claimCache' = claimCache
      /\ claimPc' = [claimPc EXCEPT ![c] = call]
      /\ claimSnap' = [claimSnap EXCEPT ![c] = IF call = "idle" THEN NoClaim(0) ELSE d]
      /\ claimQueue' \in {claimQueue, claimQueue \ {c}}
      /\ work' = [work EXCEPT ![c] = w]
  BY DEF ClaimStart
<1>2. d \in ClaimObject /\ ClaimObjectInv(c) /\ claim[c] \in ClaimObject
  BY ClaimTypes
<1>3. call \in ClaimPhases \ {"createBinding"}
  BY <1>2 DEF FirstClaimCall, ClaimPhases, ClaimObject, State
<1>4. w \in Errand /\ (call = "patchStatus" => w.state = "Deleting")
  BY <1>2 DEF Record, NoWork, Errand, ClaimObject, State
<1>5. /\ Sane(d)
      /\ call = "addFinalizer" => ~d.finalizer
      /\ call \notin {"idle", "addFinalizer"} => d.finalizer
      /\ call \in ClaimBinding => d.state # "Deleting"
      /\ call \in {"findModel", "deleteModel", "removeFinalizer"} => d.state = "Deleting"
      /\ call \in {"listOld", "deleteOld"} => (d.deleted => d.state = "Deleting")
      /\ call \in ClaimBinding \ {"patchStatus", "patchSpec"} => ~d.deleted
      /\ call = "patchStatus" => d.deleted
      /\ call \notin {"createBinding", "patchSpec"}
  BY <1>2 DEF ClaimObjectInv, ClaimCopiesSane, Sane, FirstClaimCall, ClaimBinding,
              ClaimObject, State
<1> HIDE DEF call, w, d
<1>6. /\ claimPc' \in [Claims -> ClaimPhases] /\ claimPc'[c] = call
      /\ work' \in [Claims -> Errand] /\ work'[c] = w
      /\ claimSnap' \in [Claims -> ClaimObject] /\ (call # "idle" => claimSnap'[c] = d)
      /\ \A e \in Claims \ {c} :
            /\ claimPc'[e] = claimPc[e] /\ claimSnap'[e] = claimSnap[e]
            /\ work'[e] = work[e]
  BY <1>1, <1>2, <1>3, <1>4, NoClaimType DEF ClaimInv, ClaimTypeOK
<1>7. ClaimTypeOK'
  BY <1>1, <1>3, <1>6 DEF ClaimInv, ClaimTypeOK
<1>8. ClaimAlone(c)
  BY <1>1, <1>6 DEF ClaimAlone, ClaimStill
<1>9. (ClaimCopiesSane(c) /\ ClaimCacheTrusted(c))'
  BY <1>1, <1>2 DEF ClaimObjectInv, ClaimCopiesSane, ClaimCacheTrusted, Sane, Older, Same, Known
<1>10. ClaimSnapSane(c)'
  BY <1>1, <1>2, <1>6
     DEF d, ClaimObjectInv, ClaimCopiesSane, ClaimSnapSane, Sane, Older, Known, ClaimObject
<1>11. ClaimSnapTrusted(c)'
  BY <1>1, <1>2, <1>6
     DEF d, ClaimObjectInv, ClaimCopiesSane, ClaimCacheTrusted, ClaimSnapTrusted, Sane, Older,
         Same, ClaimObject
<1>12. ErrandFits(c)'
  BY <1>4, <1>5, <1>6 DEF ErrandFits, ClaimBinding
<1> QED
  BY <1>7, <1>8, <1>9, <1>10, <1>11, <1>12 DEF ClaimMoves, ClaimObjectInv

\* The types after a write to the claim itself.
LEMMA ClaimWriteStep ==
    ASSUME ClaimInv, NEW c \in Claims, NEW v \in ClaimObject,
           claim' = [claim EXCEPT ![c] = v], claimCache' = claimCache
    PROVE  /\ claim' \in [Claims -> ClaimObject] /\ claim'[c] = v
           /\ \A d \in Claims \ {c} : claim'[d] = claim[d]
           /\ claimCache' \in [Claims -> ClaimObject]
  BY DEF ClaimInv, ClaimTypeOK

\* A write to a claim that ends its reconciliation.
LEMMA ClaimWriteEnds ==
    ASSUME ClaimInv, NEW c \in Claims, NEW v \in ClaimObject,
           claim' = [claim EXCEPT ![c] = v], claimCache' = claimCache,
           NEW r \in SUBSET Claims, ClaimEnd(c, r),
           Sane(v), Known(v), Older(claimCache[c], v),
           claimCache[c].finalizer /\ ~Same(claimCache[c], v) =>
              claimCache[c].state = "Deleting" /\ ~v.finalizer,
           Same(claimCache[c], v) /\ v.state = "Deleting" => claimCache[c].deleted
    PROVE  ClaimMoves(c)
<1>1. ClaimTypeOK'
  BY ClaimWriteStep, ClaimEndStep DEF ClaimTypeOK
<1>2. ClaimAlone(c)
  BY ClaimWriteStep, ClaimEndStep DEF ClaimAlone, ClaimStill
<1>3. (ClaimCopiesSane(c) /\ ClaimCacheTrusted(c))'
  BY ClaimWriteStep, ClaimTypes
     DEF ClaimObjectInv, ClaimCopiesSane, ClaimCacheTrusted, Sane, Older, Same, Known
<1>4. (ClaimSnapSane(c) /\ ClaimSnapTrusted(c) /\ ErrandFits(c))'
  BY ClaimEndStep DEF ClaimSnapSane, ClaimSnapTrusted, ErrandFits, ClaimBinding
<1> QED
  BY <1>1, <1>2, <1>3, <1>4 DEF ClaimMoves, ClaimObjectInv

\* add_finalizer protects the claim that was read, or finds another one untouched.
LEMMA ClaimAddFinalizerInv ==
    ASSUME ClaimInv, NEW c \in Claims, ClaimAddFinalizer(c)
    PROVE  ClaimMoves(c)
<1>1. CASE ~claim[c].exists
  BY <1>1, ClaimEnds DEF ClaimAddFinalizer, ClaimRequeue
<1>2. CASE claim[c].exists
  <2> DEFINE v == [claim[c] EXCEPT !.finalizer = TRUE]
  <2>1. ClaimObjectInv(c) /\ claim[c] \in ClaimObject /\ claimCache[c] \in ClaimObject
        /\ claimSnap[c] \in ClaimObject
    BY ClaimTypes
  <2>2. /\ claimPc[c] = "addFinalizer" /\ claimCache' = claimCache /\ ClaimEnd(c, {})
        /\ claim' = [claim EXCEPT ![c] = v]
    BY <1>2 DEF ClaimAddFinalizer, ClaimAwait, ClaimInv, ClaimTypeOK
  <2>3. /\ v \in ClaimObject /\ v.finalizer /\ v.exists = claim[c].exists
        /\ v.uid = claim[c].uid /\ v.deleted = claim[c].deleted
        /\ v.state = claim[c].state /\ v.spec = claim[c].spec
    BY <2>1 DEF ClaimObject
  <2> HIDE DEF v
  <2>4. Sane(v) /\ Known(v) /\ Older(claimCache[c], v)
    BY <1>2, <2>1, <2>3 DEF ClaimObjectInv, ClaimCopiesSane, Sane, Older, Known
  <2>5. /\ claimCache[c].finalizer /\ ~Same(claimCache[c], v) =>
              claimCache[c].state = "Deleting" /\ ~v.finalizer
        /\ Same(claimCache[c], v) /\ v.state = "Deleting" => claimCache[c].deleted
    BY <1>2, <2>1, <2>2, <2>3
       DEF ClaimObjectInv, ClaimCopiesSane, ClaimCacheTrusted, ClaimSnapSane, ClaimSnapTrusted,
           ErrandFits, Sane, Older, Same, ClaimObject
  <2> QED
    BY <2>2, <2>3, <2>4, <2>5, ClaimWriteEnds
<1> QED
  BY <1>1, <1>2

\* remove_finalizer is only reached when the claim, if still there, is Deleting.
LEMMA ClaimRemoveFinalizerInv ==
    ASSUME ClaimInv, NEW c \in Claims, ClaimRemoveFinalizer(c)
    PROVE  ClaimMoves(c)
<1>1. CASE ~claim[c].exists
  BY <1>1, ClaimEnds DEF ClaimRemoveFinalizer, ClaimRequeue
<1>2. CASE claim[c].exists
  <2>1. ClaimObjectInv(c) /\ claim[c] \in ClaimObject /\ claimCache[c] \in ClaimObject
        /\ claimSnap[c] \in ClaimObject
    BY ClaimTypes
  <2>2. /\ claimPc[c] = "removeFinalizer" /\ claimCache' = claimCache /\ ClaimEnd(c, {})
        /\ claim' = [claim EXCEPT ![c] = IF claim[c].deleted THEN NoClaim(claim[c].uid)
                                         ELSE [claim[c] EXCEPT !.finalizer = FALSE]]
    BY <1>2 DEF ClaimRemoveFinalizer, ClaimAwait, ClaimInv, ClaimTypeOK
  <2>3. ~claim[c].deleted => ~claim[c].finalizer
    BY <2>1, <2>2
       DEF ClaimObjectInv, ClaimSnapSane, ClaimSnapTrusted, ClaimCopiesSane, ErrandFits,
           Sane, Older, Same, ClaimObject
  <2>4. CASE ~claim[c].deleted
    <3>1. claim' = [claim EXCEPT ![c] = claim[c]]
      BY <2>1, <2>2, <2>3, <2>4 DEF ClaimObject
    <3>2. claim' = claim
      BY <3>1 DEF ClaimInv, ClaimTypeOK
    <3> QED
      BY <2>2, <3>2, ClaimEnds
  <2>5. CASE claim[c].deleted
    <3> DEFINE v == NoClaim(claim[c].uid)
    <3>1. /\ v \in ClaimObject /\ ~v.exists /\ ~v.deleted /\ ~v.finalizer
          /\ v.state = "Pending" /\ v.uid = claim[c].uid
      BY <2>1, NoClaimType DEF NoClaim, ClaimObject
    <3>2. claim' = [claim EXCEPT ![c] = v]
      BY <2>2, <2>5
    <3> HIDE DEF v
    <3>3. Sane(v) /\ Known(v) /\ Older(claimCache[c], v)
      BY <2>1, <3>1 DEF ClaimObjectInv, ClaimCopiesSane, Sane, Older, Known
    <3>4. claimCache[c].finalizer => claimCache[c].state = "Deleting"
      BY <2>1, <2>2
         DEF ClaimObjectInv, ClaimSnapSane, ClaimSnapTrusted, ErrandFits, ClaimCopiesSane,
             ClaimCacheTrusted, Sane, Older, Same, ClaimObject
    <3> QED
      BY <2>2, <3>1, <3>2, <3>3, <3>4, ClaimWriteEnds DEF Same
  <2> QED
    BY <2>4, <2>5
<1> QED
  BY <1>1, <1>2

\* A claim that is bound, or whose status is patched, is the one that was read.
LEMMA ClaimReadyTarget ==
    ASSUME ClaimInv, NEW c \in Claims, claimPc[c] \in ClaimBinding
    PROVE  /\ claim[c].exists /\ claim[c].uid = claimSnap[c].uid /\ claim[c].finalizer
           /\ Same(claimSnap[c], claim[c]) /\ Older(claimSnap[c], claimCache[c])
           /\ ~claimSnap[c].deleted => claim[c].state # "Deleting"
           /\ claimSnap[c].deleted => Same(claimCache[c], claim[c]) /\ claimCache[c].deleted
                                        /\ claim[c].deleted
<1>1. ClaimObjectInv(c) /\ claim[c] \in ClaimObject /\ claimCache[c] \in ClaimObject
      /\ claimSnap[c] \in ClaimObject
  BY ClaimTypes
<1>2. claimPc[c] \notin {"idle", "addFinalizer"}
  BY DEF ClaimBinding
<1>3. claimSnap[c].finalizer /\ claimSnap[c].state # "Deleting"
  BY <1>1, <1>2 DEF ClaimObjectInv, ErrandFits
<1>4. /\ Same(claimSnap[c], claim[c]) /\ Older(claimSnap[c], claimCache[c])
      /\ ~claimSnap[c].deleted => claim[c].state # "Deleting"
  BY <1>1, <1>2, <1>3 DEF ClaimObjectInv, ClaimSnapSane, ClaimSnapTrusted
<1>5. claimCache[c].uid = claim[c].uid /\ Same(claimCache[c], claim[c])
  BY <1>1, <1>4 DEF ClaimObjectInv, ClaimCopiesSane, Older, Same, ClaimObject
<1> QED
  BY <1>1, <1>3, <1>4, <1>5 DEF ClaimObjectInv, ClaimCopiesSane, Older, Same

\* The status that update_fields writes keeps the invariant: it is Deleting exactly
\* when the copy that was read has the deletion request.
LEMMA PatchClaimStatusInv ==
    ASSUME ClaimInv, NEW c \in Claims, PatchClaimStatus(c)
    PROVE  ClaimMoves(c)
<1> DEFINE v == [claim[c] EXCEPT !.state = work[c].state, !.bound = work[c].bound]
<1>1. ClaimObjectInv(c) /\ claim[c] \in ClaimObject /\ claimCache[c] \in ClaimObject
      /\ claimSnap[c] \in ClaimObject /\ work[c] \in Errand
  BY ClaimTypes
<1>2. claimPc[c] = "patchStatus" /\ claimPc[c] \in ClaimBinding
  BY DEF PatchClaimStatus, ClaimBinding
<1>3. /\ claim[c].exists /\ claim[c].finalizer /\ Same(claimSnap[c], claim[c])
      /\ ~claimSnap[c].deleted => claim[c].state # "Deleting"
      /\ claimSnap[c].deleted => Same(claimCache[c], claim[c]) /\ claimCache[c].deleted
                                        /\ claim[c].deleted
  BY <1>2, ClaimReadyTarget
<1>4. /\ claim' = [claim EXCEPT ![c] = v] /\ claimCache' = claimCache
      /\ claimPc' = [claimPc EXCEPT ![c] = "patchSpec"]
      /\ UNCHANGED <<claimSnap, claimQueue, work>>
  BY <1>3 DEF PatchClaimStatus, ClaimGoto, ClaimInv, ClaimTypeOK
<1>5. /\ v \in ClaimObject /\ v.exists = claim[c].exists /\ v.uid = claim[c].uid
      /\ v.deleted = claim[c].deleted /\ v.finalizer = claim[c].finalizer
      /\ v.spec = claim[c].spec /\ v.state = work[c].state
  BY <1>1 DEF ClaimObject, Errand
<1> HIDE DEF v
<1>6. work[c].state = IF claimSnap[c].deleted THEN "Deleting" ELSE "Ready"
  BY <1>1, <1>2 DEF ClaimObjectInv, ErrandFits
<1>7. /\ claim'[c] = v /\ claim' \in [Claims -> ClaimObject]
      /\ \A d \in Claims \ {c} : claim'[d] = claim[d]
      /\ claimPc' \in [Claims -> ClaimPhases] /\ claimPc'[c] = "patchSpec"
      /\ \A d \in Claims \ {c} : claimPc'[d] = claimPc[d]
  BY <1>4, <1>5 DEF ClaimInv, ClaimTypeOK, ClaimPhases
<1>8. ClaimTypeOK'
  BY <1>4, <1>7 DEF ClaimInv, ClaimTypeOK
<1>9. ClaimAlone(c)
  BY <1>4, <1>7 DEF ClaimAlone, ClaimStill
<1>10. ClaimCopiesSane(c)'
  <2>1. Sane(v) /\ Known(v) /\ Older(claimCache[c], v)
    BY <1>1, <1>3, <1>5, <1>6
       DEF ClaimObjectInv, ClaimCopiesSane, Sane, Older, Same, Known, ClaimObject
  <2> QED
    BY <1>1, <1>4, <1>7, <2>1 DEF ClaimObjectInv, ClaimCopiesSane
<1>14. ClaimCacheTrusted(c)'
  BY <1>1, <1>3, <1>4, <1>5, <1>6, <1>7
     DEF ClaimObjectInv, ClaimCacheTrusted, ClaimSnapTrusted, Same, ClaimObject
<1>11. ClaimSnapSane(c)'
  BY <1>1, <1>2, <1>4, <1>7 DEF ClaimObjectInv, ClaimSnapSane, Sane, Older, Known
<1>12. ClaimSnapTrusted(c)'
  BY <1>1, <1>2, <1>3, <1>4, <1>5, <1>6, <1>7 DEF ClaimObjectInv, ClaimSnapTrusted, Same
<1>13. ErrandFits(c)'
  BY <1>1, <1>2, <1>4, <1>6, <1>7 DEF ClaimObjectInv, ErrandFits, ClaimBinding
<1> QED
  BY <1>8, <1>9, <1>10, <1>11, <1>12, <1>13, <1>14 DEF ClaimMoves, ClaimObjectInv

\* The storage name in the spec disturbs nothing else.
LEMMA PatchClaimSpecInv ==
    ASSUME ClaimInv, NEW c \in Claims, PatchClaimSpec(c)
    PROVE  ClaimMoves(c)
<1> DEFINE sp == [claim[c].spec EXCEPT !.storage = work[c].bound]
           v == [claim[c] EXCEPT !.spec = sp]
<1>1. ClaimObjectInv(c) /\ claim[c] \in ClaimObject /\ work[c] \in Errand
  BY ClaimTypes
<1>2. claim[c].exists
  BY ClaimReadyTarget DEF PatchClaimSpec, ClaimBinding
<1>3. claim[c].spec \in ClaimSpec /\ \E p \in ClaimSpecs : p.policy = claim[c].spec.policy
  BY <1>1, <1>2 DEF ClaimObjectInv, ClaimCopiesSane, Known
<1>4. sp \in ClaimSpec /\ sp.policy = claim[c].spec.policy
  BY <1>1, <1>3 DEF ClaimSpec, Errand
<1>5. /\ claim' = [claim EXCEPT ![c] = v] /\ claimCache' = claimCache /\ ClaimEnd(c, {c})
  BY <1>2 DEF PatchClaimSpec, ClaimRequeue, ClaimInv, ClaimTypeOK
<1> HIDE DEF sp
<1>6. /\ v \in ClaimObject /\ v.exists = claim[c].exists /\ v.uid = claim[c].uid
      /\ v.deleted = claim[c].deleted /\ v.finalizer = claim[c].finalizer
      /\ v.spec = sp /\ v.state = claim[c].state
  BY <1>1, <1>4 DEF ClaimObject
<1> HIDE DEF v
<1>7. Sane(v) /\ Known(v) /\ Older(claimCache[c], v)
  BY <1>1, <1>3, <1>4, <1>6 DEF ClaimObjectInv, ClaimCopiesSane, Sane, Older, Known
<1>8. /\ claimCache[c].finalizer /\ ~Same(claimCache[c], v) =>
            claimCache[c].state = "Deleting" /\ ~v.finalizer
      /\ Same(claimCache[c], v) /\ v.state = "Deleting" => claimCache[c].deleted
  BY <1>1, <1>6 DEF ClaimObjectInv, ClaimCacheTrusted, Same
<1> QED
  BY <1>5, <1>6, <1>7, <1>8, ClaimWriteEnds

\* The calls that read or write other objects keep what holds of the claim.
LEMMA ClaimCallsInv ==
    ASSUME ClaimInv, NEW c \in Claims,
           \/ GetModel(c) \/ CreateModel(c) \/ ListBindings(c) \/ ChooseStorage(c)
           \/ CreateBinding(c) \/ FindModel(c) \/ ListOld(c) \/ DeleteOld(c) \/ DeleteModel(c)
    PROVE  ClaimMoves(c)
<1>1. ClaimObjectInv(c) /\ claimSnap[c] \in ClaimObject /\ work[c] \in Errand
      /\ ErrandFits(c)
  BY ClaimTypes DEF ClaimObjectInv
<1>2. claimPc[c] \notin {"idle", "addFinalizer"} /\ UNCHANGED <<claim, claimCache>>
  BY DEF GetModel, CreateModel, ListBindings, ChooseStorage, CreateBinding, FindModel, ListOld,
         DeleteOld, DeleteModel
<1>3. CASE ClaimRequeue(c)
  BY <1>2, <1>3, ClaimEnds DEF ClaimRequeue
<1>4. CASE GetModel(c) /\ ~ClaimRequeue(c)
  <2>1. PICK call \in {"listBindings", "createModel"} : ClaimGoto(c, call)
    BY <1>4 DEF GetModel
  <2> QED
    BY <1>1, <1>2, <1>4, <2>1, ClaimGoesOn, SameErrand
       DEF GetModel, ErrandFits, ClaimBinding, ClaimPhases
<1>5. CASE CreateModel(c) /\ ~ClaimRequeue(c)
  BY <1>1, <1>2, <1>5, ClaimGoesOn, SameErrand
     DEF CreateModel, Make, ErrandFits, ClaimBinding, ClaimPhases
<1>6. CASE ListBindings(c) /\ ModelBindings(c) = {}
  BY <1>1, <1>2, <1>6, ClaimGoesOn, SameErrand
     DEF ListBindings, ErrandFits, ClaimBinding, ClaimPhases
<1>7. CASE ListBindings(c) /\ ModelBindings(c) # {}
  <2>1. Record("Ready", None) \in Errand /\ Record("Ready", None).state = "Ready"
    BY DEF Record, NoWork, Errand, State
  <2> QED
    BY <1>1, <1>2, <1>7, <2>1, ClaimGoesOn
       DEF ListBindings, ErrandFits, ClaimBinding, ClaimPhases
<1>8. CASE ChooseStorage(c) /\ ~ClaimRequeue(c)
  <2>1. PICK s \in PublishedStorages : /\ work' = [work EXCEPT ![c] = Record("Ready", s)]
                                       /\ ClaimGoto(c, "createBinding")
    BY <1>8 DEF ChooseStorage
  <2>2. /\ Record("Ready", s) \in Errand /\ Record("Ready", s).state = "Ready"
        /\ Record("Ready", s).bound \in Storages
    BY DEF Record, NoWork, Errand, State, PublishedStorages
  <2>3. claimSnap[c].state # "Deleting" /\ ~claimSnap[c].deleted
    BY <1>1, <1>8 DEF ChooseStorage, ErrandFits, ClaimBinding
  <2> DEFINE w == Record("Ready", s)
  <2>4. "createBinding" \in ClaimPhases \ {"idle", "addFinalizer"}
    BY DEF ClaimPhases
  <2> HIDE DEF w
  <2> QED
    BY <1>2, <2>1, <2>2, <2>3, <2>4, ClaimGoesOn DEF w
<1>9. CASE CreateBinding(c) /\ ~ClaimRequeue(c)
  BY <1>1, <1>2, <1>9, ClaimGoesOn, SameErrand
     DEF CreateBinding, Make, ErrandFits, ClaimBinding, ClaimPhases
<1>10. CASE FindModel(c) /\ ~ClaimRequeue(c)
  <2>1. PICK call \in {"listOld", "removeFinalizer"} : ClaimGoto(c, call)
    BY <1>10 DEF FindModel
  <2> QED
    BY <1>1, <1>2, <1>10, <2>1, ClaimGoesOn, SameErrand
       DEF FindModel, ErrandFits, ClaimBinding, ClaimPhases
<1>11. CASE ListOld(c)
  <2> DEFINE w == [work[c] EXCEPT !.old = ModelBindings(c)]
  <2>1. w \in Errand
    BY <1>1 DEF Errand, ModelBindings, ReadyBindings
  <2>2. work' = [work EXCEPT ![c] = w]
    BY <1>11 DEF ListOld, ClaimInv, ClaimTypeOK
  <2> HIDE DEF w
  <2>3. /\ ClaimGoto(c, "deleteOld")
        /\ claimSnap[c].deleted => claimSnap[c].state = "Deleting"
    BY <1>1, <1>11 DEF ListOld, ErrandFits
  <2>4. "deleteOld" \in ClaimPhases \ {"idle", "addFinalizer"} /\ "deleteOld" \notin ClaimBinding
    BY DEF ClaimPhases, ClaimBinding
  <2> QED
    BY <1>2, <2>1, <2>2, <2>3, <2>4, ClaimGoesOn
<1>12. CASE DeleteOld(c) /\ work[c].old = {} /\ ~ClaimRequeue(c)
  <2>1. PICK call \in {"deleteModel", "getModel"} :
            /\ ClaimGoto(c, call) /\ UNCHANGED work
            /\ call = "deleteModel" <=> claimSnap[c].state = "Deleting"
    BY <1>12 DEF DeleteOld
  <2> QED
    BY <1>1, <1>2, <1>12, <2>1, ClaimGoesOn, SameErrand
       DEF DeleteOld, ErrandFits, ClaimBinding, ClaimPhases
<1>13. CASE DeleteOld(c) /\ work[c].old # {} /\ ~ClaimRequeue(c)
  <2>1. PICK b \in work[c].old : /\ work' = [work EXCEPT ![c].old = @ \ {b}]
                                 /\ ClaimGoto(c, "deleteOld")
    BY <1>13 DEF DeleteOld
  <2> DEFINE w == [work[c] EXCEPT !.old = @ \ {b}]
  <2>2. w \in Errand
    BY <1>1 DEF Errand
  <2>3. work' = [work EXCEPT ![c] = w]
    BY <2>1 DEF ClaimInv, ClaimTypeOK
  <2> HIDE DEF w
  <2> QED
    BY <1>1, <1>2, <1>13, <2>1, <2>2, <2>3, ClaimGoesOn
       DEF DeleteOld, ErrandFits, ClaimBinding, ClaimPhases
<1>14. CASE DeleteModel(c) /\ ~ClaimRequeue(c)
  BY <1>1, <1>2, <1>14, ClaimGoesOn, SameErrand
     DEF DeleteModel, ErrandFits, ClaimBinding, ClaimPhases
<1> QED
  BY <1>3, <1>4, <1>5, <1>6, <1>7, <1>8, <1>9, <1>10, <1>11, <1>12, <1>13, <1>14

-------------------------------------------------------------------------------
(* What the users do with claims, the watch and the restart.               *)

\* A watch event makes the cached copy of a claim the current one.
LEMMA ClaimWatchInv ==
    ASSUME ClaimInv, NEW c \in Claims, ClaimWatch(c)
    PROVE  ClaimMoves(c)
<1>1. ClaimObjectInv(c) /\ claim[c] \in ClaimObject /\ claimCache[c] \in ClaimObject
      /\ claimSnap[c] \in ClaimObject
  BY ClaimTypes
<1>2. /\ claimCache' = [claimCache EXCEPT ![c] = claim[c]] /\ claimCache'[c] = claim[c]
      /\ \A d \in Claims \ {c} : claimCache'[d] = claimCache[d]
      /\ UNCHANGED <<claim, claimPc, claimSnap, work>>
      /\ claimQueue' \subseteq Claims
  BY DEF ClaimWatch, ClaimInv, ClaimTypeOK
<1>3. ClaimTypeOK'
  BY <1>1, <1>2 DEF ClaimInv, ClaimTypeOK
<1>4. ClaimAlone(c)
  BY <1>2 DEF ClaimAlone, ClaimStill
<1>5. (ClaimCopiesSane(c) /\ ClaimCacheTrusted(c))'
  BY <1>1, <1>2
     DEF ClaimObjectInv, ClaimCopiesSane, ClaimCacheTrusted, Sane, Older, Same, Known, ClaimObject
<1>6. ClaimSnapSane(c)'
  BY <1>1, <1>2
     DEF ClaimObjectInv, ClaimCopiesSane, ClaimSnapSane, Sane, Older, Known, ClaimObject
<1>7. ClaimSnapTrusted(c)'
  BY <1>1, <1>2 DEF ClaimObjectInv, ClaimCopiesSane, ClaimSnapTrusted, Sane, Same
<1>8. ErrandFits(c)'
  BY <1>1, <1>2 DEF ClaimObjectInv, ErrandFits
<1> QED
  BY <1>3, <1>4, <1>5, <1>6, <1>7, <1>8 DEF ClaimMoves, ClaimObjectInv

\* What the two requests of a user share.
LEMMA ClaimRequestStep ==
    ASSUME ClaimInv, NEW c \in Claims, NEW v \in ClaimObject,
           claim' = [claim EXCEPT ![c] = v],
           UNCHANGED <<claimCache, claimQueue, claimPc, claimSnap, work>>
    PROVE  ClaimTypeOK' /\ ClaimAlone(c) /\ claim'[c] = v /\ ErrandFits(c)'
<1>1. /\ claim'[c] = v /\ claim' \in [Claims -> ClaimObject]
      /\ \A d \in Claims \ {c} : claim'[d] = claim[d]
  BY DEF ClaimInv, ClaimTypeOK
<1>2. ClaimTypeOK'
  BY <1>1 DEF ClaimInv, ClaimTypeOK
<1>3. ClaimAlone(c)
  BY <1>1 DEF ClaimAlone, ClaimStill
<1>4. ErrandFits(c)'
  BY ClaimTypes DEF ClaimObjectInv, ErrandFits
<1> QED
  BY <1>1, <1>2, <1>3, <1>4

\* A new claim is of a new incarnation, which no copy shows yet.
LEMMA CreateClaimInv ==
    ASSUME ClaimInv, NEW c \in Claims, CreateClaim(c)
    PROVE  ClaimMoves(c)
<1>1. ClaimObjectInv(c) /\ claim[c] \in ClaimObject /\ claimCache[c] \in ClaimObject
      /\ claimSnap[c] \in ClaimObject
  BY ClaimTypes
<1>2. PICK sp \in ClaimSpecs :
         claim' = [claim EXCEPT ![c] =
                     [NoClaim(claim[c].uid + 1) EXCEPT !.exists = TRUE, !.spec = sp]]
  BY DEF CreateClaim, ClaimInv, ClaimTypeOK
<1>3. ~claim[c].exists /\ UNCHANGED <<claimCache, claimQueue, claimPc, claimSnap, work>>
  BY DEF CreateClaim
<1> DEFINE n == NoClaim(claim[c].uid + 1)
           v == [n EXCEPT !.exists = TRUE, !.spec = sp]
<1>4. /\ n \in ClaimObject /\ n.uid = claim[c].uid + 1 /\ n.state = "Pending"
      /\ ~n.deleted /\ ~n.finalizer
  <2>1. claim[c].uid + 1 \in Nat
    BY <1>1 DEF ClaimObject
  <2> QED
    BY <2>1, NoClaimType DEF NoClaim
<1> HIDE DEF n
<1>5. sp \in ClaimSpec
  BY ClaimsAssumption
<1>6. /\ v \in ClaimObject /\ v.exists /\ v.uid = claim[c].uid + 1 /\ v.spec = sp
      /\ ~v.deleted /\ ~v.finalizer /\ v.state = "Pending"
  BY <1>4, <1>5 DEF ClaimObject
<1>7. claim' = [claim EXCEPT ![c] = v]
  BY <1>2 DEF n
<1> HIDE DEF v
<1>8. ClaimTypeOK' /\ ClaimAlone(c) /\ claim'[c] = v /\ ErrandFits(c)'
  BY <1>3, <1>6, <1>7, ClaimRequestStep
<1>9. (ClaimCopiesSane(c) /\ ClaimCacheTrusted(c))'
  BY <1>1, <1>3, <1>5, <1>6, <1>8
     DEF ClaimObjectInv, ClaimCopiesSane, ClaimCacheTrusted, Sane, Older, Same, Known, ClaimObject
<1>10. (ClaimSnapSane(c) /\ ClaimSnapTrusted(c))'
  BY <1>1, <1>3, <1>6, <1>8
     DEF ClaimObjectInv, ClaimSnapSane, ClaimSnapTrusted, ClaimCopiesSane, Sane, Older, Same,
         ClaimObject
<1> QED
  BY <1>8, <1>9, <1>10 DEF ClaimMoves, ClaimObjectInv

\* A deletion request only removes a claim without the finalizer.
LEMMA DeleteClaimInv ==
    ASSUME ClaimInv, NEW c \in Claims, DeleteClaim(c)
    PROVE  ClaimMoves(c)
<1>1. ClaimObjectInv(c) /\ claim[c] \in ClaimObject /\ claimCache[c] \in ClaimObject
      /\ claimSnap[c] \in ClaimObject
  BY ClaimTypes
<1> DEFINE v == IF claim[c].finalizer THEN [claim[c] EXCEPT !.deleted = TRUE]
                ELSE NoClaim(claim[c].uid)
<1>2. /\ claim[c].exists /\ ~claim[c].deleted
      /\ claim' = [claim EXCEPT ![c] = v]
      /\ UNCHANGED <<claimCache, claimQueue, claimPc, claimSnap, work>>
  BY DEF DeleteClaim, ClaimInv, ClaimTypeOK
<1>3. v \in ClaimObject /\ v.uid = claim[c].uid
  BY <1>1, NoClaimType DEF ClaimObject, NoClaim
<1>4. claim[c].finalizer =>
        /\ v.exists = claim[c].exists /\ v.deleted /\ v.finalizer = claim[c].finalizer
        /\ v.state = claim[c].state /\ v.spec = claim[c].spec
  BY <1>1 DEF ClaimObject
<1>5. ~claim[c].finalizer =>
        ~v.exists /\ ~v.deleted /\ ~v.finalizer /\ v.state = "Pending"
  BY DEF NoClaim
<1> HIDE DEF v
<1>6. ClaimTypeOK' /\ ClaimAlone(c) /\ claim'[c] = v /\ ErrandFits(c)'
  BY <1>2, <1>3, ClaimRequestStep
<1>7. (ClaimCopiesSane(c) /\ ClaimCacheTrusted(c))'
  <2>1. Sane(v) /\ Known(v) /\ Older(claimCache[c], v)
    BY <1>1, <1>2, <1>3, <1>4, <1>5 DEF ClaimObjectInv, ClaimCopiesSane, Sane, Older, Known
  <2>2. ClaimCopiesSane(c)'
    BY <1>1, <1>2, <1>6, <2>1 DEF ClaimObjectInv, ClaimCopiesSane
  <2>3. ClaimCacheTrusted(c)'
    BY ZenonT(60), <1>1, <1>2, <1>3, <1>4, <1>5, <1>6
       DEF ClaimObjectInv, ClaimCopiesSane, ClaimCacheTrusted, Older, Same, ClaimObject
  <2> QED
    BY <2>2, <2>3
<1>8. ClaimSnapSane(c)'
  BY <1>1, <1>2 DEF ClaimObjectInv, ClaimSnapSane, Sane, Older, Known
<1>9. ClaimSnapTrusted(c)'
  <2>1. claimCache[c].finalizer /\ Same(claimCache[c], claim[c]) => claim[c].finalizer
    BY <1>1 DEF ClaimObjectInv, ClaimCopiesSane, Older, Same
  <2>2. claimPc[c] # "idle" /\ claimSnap[c].finalizer /\ Same(claimSnap[c], claim[c])
           => claim[c].finalizer
    BY <1>1 DEF ClaimObjectInv, ClaimCopiesSane, ClaimSnapSane, Older, Same, ClaimObject
  <2> QED
    BY <1>1, <1>2, <1>3, <1>4, <1>5, <1>6, <2>1, <2>2 DEF ClaimObjectInv, ClaimSnapTrusted, Same
<1> QED
  BY <1>6, <1>7, <1>8, <1>9 DEF ClaimMoves, ClaimObjectInv

\* A restart leaves no reconciliation of a claim behind.
LEMMA RestartAllInv ==
    ASSUME ClaimInv, RestartAll
    PROVE  ClaimInv'
<1>1. ClaimTypeOK'
  BY NoClaimType DEF RestartAll, ClaimInv, ClaimTypeOK, ClaimPhases
<1>2. ASSUME NEW c \in Claims PROVE ClaimObjectInv(c)'
  <2>1. /\ claim'[c] = claim[c] /\ claimCache'[c] = claim[c] /\ claimPc'[c] = "idle"
        /\ claim[c] \in ClaimObject /\ ClaimObjectInv(c)
    BY ClaimTypes DEF RestartAll
  <2>2. (ClaimCopiesSane(c) /\ ClaimCacheTrusted(c))'
    BY <2>1
       DEF ClaimObjectInv, ClaimCopiesSane, ClaimCacheTrusted, Sane, Older, Same, Known,
           ClaimObject
  <2>3. (ClaimSnapSane(c) /\ ClaimSnapTrusted(c) /\ ErrandFits(c))'
    BY <2>1 DEF ClaimSnapSane, ClaimSnapTrusted, ErrandFits, ClaimBinding
  <2> QED
    BY <2>2, <2>3 DEF ClaimObjectInv
<1> QED
  BY <1>1, <1>2 DEF ClaimInv

\* No claim is there at first.
LEMMA ClaimInitInv == ClaimInit => ClaimInv
<1> SUFFICES ASSUME ClaimInit PROVE ClaimInv
  OBVIOUS
<1>1. ClaimTypeOK
  BY NoClaimType DEF ClaimInit, ClaimTypeOK, ClaimPhases
<1>2. ASSUME NEW c \in Claims PROVE ClaimObjectInv(c)
  <2>1. claim[c] = NoClaim(0) /\ claimCache[c] = NoClaim(0) /\ claimPc[c] = "idle"
    BY DEF ClaimInit
  <2>2. /\ ~claim[c].exists /\ ~claim[c].deleted /\ ~claim[c].finalizer
        /\ claim[c].state = "Pending" /\ claim[c].uid = 0 /\ claimCache[c] = claim[c]
    BY <2>1 DEF NoClaim
  <2>3. ClaimCopiesSane(c) /\ ClaimCacheTrusted(c)
    BY <2>2 DEF ClaimCopiesSane, ClaimCacheTrusted, Sane, Older, Same, Known
  <2>4. ClaimSnapSane(c) /\ ClaimSnapTrusted(c) /\ ErrandFits(c)
    BY <2>1 DEF ClaimSnapSane, ClaimSnapTrusted, ErrandFits, ClaimBinding
  <2> QED
    BY <2>3, <2>4 DEF ClaimObjectInv
<1> QED
  BY <1>1, <1>2 DEF ClaimInv

\* Every step keeps the invariant of the claims.
LEMMA ClaimNextInv == ClaimInv /\ [ClaimNext]_<<vars, claimVars>> => ClaimInv'
<1> SUFFICES ASSUME ClaimInv, [ClaimNext]_<<vars, claimVars>> PROVE ClaimInv'
  OBVIOUS
<1>1. CASE UNCHANGED claimVars
  <2>1. ClaimTypeOK'
    BY <1>1 DEF claimVars, ClaimInv, ClaimTypeOK
  <2>2. \A c \in Claims : ClaimStill(c)
    BY <1>1 DEF claimVars, ClaimStill
  <2> QED
    BY <2>1, <2>2, ClaimUnmoved DEF ClaimInv
<1>2. CASE RestartAll
  BY <1>2, RestartAllInv
<1>3. ASSUME NEW c \in Claims, ReconcileClaim(c) PROVE ClaimInv'
  <2>1. CASE \/ ClaimStart(c) \/ ClaimAddFinalizer(c) \/ ClaimRemoveFinalizer(c)
             \/ PatchClaimStatus(c) \/ PatchClaimSpec(c)
    BY <2>1, ClaimMovesInv, ClaimStartInv, ClaimAddFinalizerInv, ClaimRemoveFinalizerInv,
       PatchClaimStatusInv, PatchClaimSpecInv
  <2>2. CASE \/ GetModel(c) \/ CreateModel(c) \/ ListBindings(c) \/ ChooseStorage(c)
             \/ CreateBinding(c) \/ FindModel(c) \/ ListOld(c) \/ DeleteOld(c) \/ DeleteModel(c)
    BY <2>2, ClaimMovesInv, ClaimCallsInv
  <2> QED
    BY <1>3, <2>1, <2>2 DEF ReconcileClaim
<1>4. ASSUME NEW c \in Claims, ClaimWatch(c) \/ ClaimUser(c) \/ ClaimFail(c) PROVE ClaimInv'
  BY <1>4, ClaimMovesInv, ClaimWatchInv, CreateClaimInv, DeleteClaimInv, ClaimFailInv
     DEF ClaimUser
<1>5. CASE ClaimNext /\ ~UNCHANGED claimVars
  BY <1>5, <1>2, <1>3, <1>4 DEF ClaimNext, OtherWork, ClaimWork, ClaimFault
<1> QED
  BY <1>1, <1>5 DEF claimVars

\* The copies of a claim are never further apart than ClaimInv says, and the errand of
\* its reconciliation fits it.
THEOREM ClaimInvariance == ClaimsSpec => []ClaimInv
  BY ClaimInitInv, ClaimNextInv, PTL DEF ClaimsSpec

\* Every variable keeps its type, and no binding is made without a storage.
THEOREM ClaimTypeCorrect == ClaimsSpec => []ClaimTypeOK
<1>1. ClaimInv => ClaimTypeOK
  BY DEF ClaimInv
<1> QED
  BY <1>1, ClaimInvariance, PTL

\* Nothing is made or patched for a claim that is gone or that lost its finalizer.
THEOREM ClaimProtectedWork == ClaimsSpec => []ClaimWorkIsProtected
<1>1. ClaimInv => ClaimWorkIsProtected
  BY ClaimReadyTarget DEF ClaimWorkIsProtected
<1> QED
  BY <1>1, ClaimInvariance, PTL

-------------------------------------------------------------------------------
(* What claims do to the objects of StorageOperator.                       *)

\* A claim's calls change only the API server's copies of the other objects.
Untouched == <<cache, queue, pc, snap, ctx, buckets, links, jobs>>

\* What a claim makes is what a user could have made.
LEMMA MakeCreates ==
    ASSUME NEW c \in Claims, NEW o \in Objects, NEW sp \in Specs(o), NEW next,
           Make(c, o, sp, next), UNCHANGED Untouched
    PROVE  Create(o) \/ UNCHANGED vars
  BY DEF Make, Create, Untouched, dataVars, vars

\* A deletion by a claim is one by a user, or repeats one.
LEMMA DoomDeletes ==
    ASSUME Inv, NEW o \in Deletable, o \in Objects, api[o].exists, Doom(o),
           UNCHANGED Untouched
    PROVE  Delete(o) \/ UNCHANGED vars
<1>1. api[o] \in Object /\ Sane(api[o])
  BY Types DEF ObjectInv, CopiesSane
<1>2. CASE ~api[o].deleted
  BY <1>2 DEF Doom, Delete, Untouched, dataVars
<1>3. CASE api[o].deleted
  <2>1. api[o].finalizer
    BY <1>1, <1>3 DEF Sane
  <2>2. [api[o] EXCEPT !.deleted = TRUE] = api[o]
    BY <1>1, <1>3 DEF Object
  <2>3. api' = api
    BY <2>1, <2>2 DEF Doom, Inv, TypeOK
  <2> QED
    BY <2>3 DEF Untouched, vars
<1> QED
  BY <1>2, <1>3

\* A claim's model and binding are objects that may be made and deleted.
LEMMA OwnedObjects ==
    ASSUME NEW c \in Claims
    PROVE  /\ ModelOf[c] \in Claimed /\ ModelOf[c] \in Models /\ BindingOf[c] \in Bindings
           /\ Claimed \cup Bindings \subseteq Deletable
  BY ClaimsAssumption, SpecsAssumption

\* The calls of a claim that write other objects.
LEMMA ClaimCreates ==
    ASSUME ClaimInv, NEW c \in Claims, CreateModel(c) \/ CreateBinding(c)
    PROVE  [Next]_vars
<1>1. CASE CreateModel(c)
  <2>1. Make(c, ModelOf[c], Dynamic, "listBindings") /\ UNCHANGED Untouched
    BY <1>1 DEF CreateModel, Untouched, dataVars
  <2>2. ModelOf[c] \in Objects /\ Dynamic \in Specs(ModelOf[c])
    BY OwnedObjects, ClaimsAssumption, NamesAssumption DEF Objects, Specs
  <2> QED
    BY <2>1, <2>2, MakeCreates DEF Next, Work, User
<1>2. CASE CreateBinding(c)
  <2> DEFINE sp == Owned(ModelOf[c], work[c].bound, claimSnap[c].spec.policy)
  <2>1. Make(c, BindingOf[c], sp, "patchStatus") /\ UNCHANGED Untouched
    BY <1>2 DEF CreateBinding, Untouched, dataVars
  <2>2. claimPc[c] = "createBinding"
    BY <1>2 DEF CreateBinding
  <2>3. work[c].bound \in Storages
    BY <2>2 DEF ClaimInv, ClaimTypeOK
  <2>4. PICK p \in ClaimSpecs : p.policy = claimSnap[c].spec.policy
    BY <2>2 DEF ClaimInv, ClaimObjectInv, ClaimSnapSane, Known
  <2>5. sp \in BindingSpecs[BindingOf[c]]
    BY <2>3, <2>4, ClaimsAssumption
  <2> HIDE DEF sp
  <2>6. BindingOf[c] \in Objects /\ sp \in Specs(BindingOf[c])
    BY <2>5, OwnedObjects DEF Objects, Specs
  <2> QED
    BY <2>1, <2>6, MakeCreates DEF Next, Work, User
<1> QED
  BY <1>1, <1>2

\* The deletions of a claim, of its bindings and of its model.
LEMMA ClaimDeletes ==
    ASSUME Inv, ClaimInv, NEW c \in Claims, DeleteOld(c) \/ DeleteModel(c)
    PROVE  [Next]_vars
<1>1. UNCHANGED Untouched
  BY DEF DeleteOld, DeleteModel, Untouched, dataVars
<1>2. work[c].old \subseteq Bindings
  BY ClaimTypes DEF Errand
<1>3. ASSUME NEW o \in Claimed \cup Bindings, api[o].exists, Doom(o) PROVE [Next]_vars
  <2>1. o \in Objects /\ o \in Deletable
    BY SpecsAssumption, ClaimsAssumption DEF Objects
  <2> QED
    BY <1>1, <1>3, <2>1, DoomDeletes DEF Next, Work, User
<1>4. CASE DeleteOld(c)
  <2>1. CASE api' = api
    BY <1>1, <2>1 DEF Untouched, vars
  <2>2. CASE \E b \in work[c].old : api[b].exists /\ Doom(b)
    BY <1>2, <1>3, <2>2
  <2> QED
    BY <1>4, <2>1, <2>2 DEF DeleteOld
<1>5. CASE DeleteModel(c)
  <2>1. CASE api' = api
    BY <1>1, <2>1 DEF Untouched, vars
  <2>2. CASE api[ModelOf[c]].exists /\ Doom(ModelOf[c])
    BY <1>3, <2>2, OwnedObjects
  <2> QED
    BY <1>5, <2>1, <2>2 DEF DeleteModel
<1> QED
  BY <1>4, <1>5

\* What a model's controller learns of its claim is one of the claim's states.
LEMMA ClaimStateType ==
    ASSUME ClaimInv, NEW m \in Models
    PROVE  ClaimState(m) \in ClaimStates(m)
<1>1. CASE m \notin Claimed
  BY <1>1 DEF ClaimState, ClaimStates
<1>2. CASE m \in Claimed
  <2> DEFINE c == CHOOSE c \in Claims : ModelOf[c] = m
  <2>1. \E d \in Claims : ModelOf[d] = m
    BY <1>2, ClaimsAssumption
  <2>2. c \in Claims
    BY <2>1
  <2> HIDE DEF c
  <2>3. claim[c].state \in State
    BY <2>2, ClaimTypes DEF ClaimObject
  <2>4. ClaimState(m) = IF ~claim[c].exists THEN "Absent" ELSE claim[c].state
    BY <1>2 DEF ClaimState, c
  <2> QED
    BY <1>2, <2>3, <2>4 DEF ClaimStates
<1> QED
  BY <1>1, <1>2

\* Every step next to claims is a step without them, or none.
LEMMA ClaimStepSimulated ==
    ASSUME Inv, ClaimInv, [ClaimNext]_<<vars, claimVars>>
    PROVE  [Next]_vars
<1>1. CASE UNCHANGED vars
  BY <1>1
<1>2. CASE OtherWork
  <2>1. ASSUME NEW o \in Objects, ReconcileOther(o) PROVE Next
    BY <2>1, ClaimStateType
       DEF ReconcileOther, Next, Work, ReconcileModel
  <2>2. ASSUME NEW o \in Objects, Watch(o) PROVE Next
    BY <2>2 DEF Next, Work
  <2>3. ASSUME NEW o \in Manual, User(o) PROVE Next
    BY <2>3, ClaimsAssumption DEF Next, Work
  <2>4. ASSUME NEW k \in jobs, RunJob(k) PROVE Next
    BY <2>4 DEF Next, Work
  <2> QED
    BY <1>2, <2>1, <2>2, <2>3, <2>4 DEF OtherWork
<1>3. ASSUME NEW c \in Claims, ReconcileClaim(c) \/ ClaimWatch(c) \/ ClaimUser(c) \/ ClaimFail(c)
      PROVE  [Next]_vars
  <2>1. CASE CreateModel(c) \/ CreateBinding(c)
    BY <2>1, ClaimCreates
  <2>2. CASE DeleteOld(c) \/ DeleteModel(c)
    BY <2>2, ClaimDeletes
  <2>3. CASE \/ ClaimStart(c) \/ ClaimAddFinalizer(c) \/ ClaimRemoveFinalizer(c)
             \/ PatchClaimStatus(c) \/ PatchClaimSpec(c)
    BY <2>3 DEF ClaimStart, ClaimAddFinalizer, ClaimRemoveFinalizer, PatchClaimStatus,
                PatchClaimSpec
  <2>4. CASE \/ GetModel(c) \/ ListBindings(c) \/ ChooseStorage(c) \/ FindModel(c) \/ ListOld(c)
    BY <2>4 DEF GetModel, ListBindings, ChooseStorage, FindModel, ListOld
  <2>5. CASE ClaimWatch(c) \/ ClaimUser(c) \/ ClaimFail(c)
    BY <2>5 DEF ClaimWatch, ClaimUser, CreateClaim, DeleteClaim, ClaimFail
  <2> QED
    BY <1>3, <2>1, <2>2, <2>3, <2>4, <2>5 DEF ReconcileClaim
<1>4. CASE ClaimWork
  BY <1>3, <1>4 DEF ClaimWork
<1>5. CASE ClaimFault
  BY <1>3, <1>5 DEF ClaimFault, RestartAll, Next, Fault
<1> QED
  BY <1>1, <1>2, <1>4, <1>5 DEF ClaimNext

\* Both invariants hold next to claims, because every step is one of StorageOperator.
LEMMA BothInvariants == ClaimsSpec => [](Inv /\ ClaimInv)
<1>1. ClaimInit => Inv /\ ClaimInv
  BY InitInv, ClaimInitInv DEF ClaimInit
<1>2. Inv /\ ClaimInv /\ [ClaimNext]_<<vars, claimVars>> => (Inv /\ ClaimInv)'
  BY ClaimNextInv, ClaimStepSimulated, NextInv
<1> QED
  BY <1>1, <1>2, PTL DEF ClaimsSpec

\* Claims do nothing to models, bindings and storages that users could not do: the
\* system with the ModelClaim controller implements StorageOperator.
THEOREM ClaimsRefine == ClaimsSpec => StorageSpec
<1>1. ClaimInit => Init
  BY DEF ClaimInit
<1>2. Inv /\ ClaimInv /\ [ClaimNext]_<<vars, claimVars>> => [Next]_vars
  BY ClaimStepSimulated
<1> QED
  BY <1>1, <1>2, BothInvariants, PTL DEF ClaimsSpec, StorageSpec, Spec
----------------------------------------------------------------------------
(* Every claim lives the life of ObjectLifecycle, as the other objects do;  *)
(* and the operator does not let a model go while its claim is Ready.      *)

\* An action that moves one claim's phase as its life allows implements a step.
LEMMA ClaimLifecycleStep ==
    ASSUME ClaimTypeOK', NEW c \in Claims, \A d \in Claims \ {c} : claim'[d] = claim[d],
           Lives(claim[c], claim'[c])
    PROVE  [LifecycleOfClaims!Next]_(LifecycleOfClaims!vars)
<1> DEFINE P == [d \in Claims |-> Phase(claim[d])]
           D == [d \in Claims |-> claim[d].deleted]
<1>1. /\ P' = [P EXCEPT ![c] = Phase(claim'[c])]
      /\ D' = [D EXCEPT ![c] = claim'[c].deleted]
      /\ P[c] = Phase(claim[c]) /\ D[c] = claim[c].deleted
  BY DEF Phase
<1>2. /\ Phase(claim'[c]) = Phase(claim[c]) => P' = P
      /\ claim'[c].deleted = claim[c].deleted => D' = D
  BY DEF Phase
<1>3. claim'[c].deleted \in BOOLEAN
  BY DEF ClaimTypeOK, ClaimObject
<1> HIDE DEF P, D
<1> SUFFICES ASSUME ~(P' = P /\ D' = D)
             PROVE  \E d \in Claims :
                      \/ LifecycleOfClaims!Create(d) \/ LifecycleOfClaims!Protect(d)
                      \/ LifecycleOfClaims!Discard(d) \/ LifecycleOfClaims!RequestDeletion(d)
                      \/ LifecycleOfClaims!BecomeReady(d) \/ LifecycleOfClaims!RecordDeletion(d)
                      \/ LifecycleOfClaims!Release(d)
  BY DEF LifecycleOfClaims!Next, LifecycleOfClaims!vars, P, D
<1> DEFINE p == Phase(claim[c])
           q == Phase(claim'[c])
<1>4. \/ claim'[c].deleted = claim[c].deleted /\ p = "absent" /\ q = "created"
      \/ claim'[c].deleted = claim[c].deleted /\ p = "created" /\ q \in {"protected", "absent"}
      \/ claim'[c].deleted = claim[c].deleted /\ p = "protected" /\ q = "ready"
      \/ /\ claim'[c].deleted = claim[c].deleted /\ claim[c].deleted
         /\ p \in {"protected", "ready"} /\ q = "deleting"
      \/ p \in {"protected", "ready"} /\ q = p /\ claim'[c].deleted
      \/ p = "deleting" /\ q = "absent" /\ ~claim'[c].deleted
  BY <1>2 DEF Lives
<1> HIDE DEF p, q
<1>5. P' = [P EXCEPT ![c] = q] /\ P[c] = p /\ D[c] = claim[c].deleted
  BY <1>1 DEF p, q
<1>6. CASE claim'[c].deleted = claim[c].deleted
  <2>1. D' = D
    BY <1>2, <1>6
  <2>2. CASE p = "absent" /\ q = "created"
    BY <1>5, <2>1, <2>2 DEF LifecycleOfClaims!Create, P, D
  <2>3. CASE p = "created" /\ q \in {"protected", "absent"}
    BY <1>5, <2>1, <2>3 DEF LifecycleOfClaims!Protect, LifecycleOfClaims!Discard, P, D
  <2>4. CASE p = "protected" /\ q = "ready"
    BY <1>5, <2>1, <2>4 DEF LifecycleOfClaims!BecomeReady, P, D
  <2>5. CASE claim[c].deleted /\ p \in {"protected", "ready"} /\ q = "deleting"
    BY <1>5, <2>1, <2>5 DEF LifecycleOfClaims!RecordDeletion, P, D
  <2>6. ~(q = p)
    BY <1>2, <2>1 DEF p, q
  <2>7. ASSUME p = "deleting", q = "absent", ~claim'[c].deleted
        PROVE  LifecycleOfClaims!Release(c)
    <3>1. claim'[c].deleted = FALSE
      BY <1>3, <2>7
    <3> QED
      BY <1>1, <1>5, <2>7, <3>1 DEF LifecycleOfClaims!Release, P, D
  <2> QED
    BY <1>4, <2>2, <2>3, <2>4, <2>5, <2>6, <2>7
<1>7. CASE p \in {"protected", "ready"} /\ q = p /\ claim'[c].deleted
  <2>1. P' = P
    BY <1>2, <1>7 DEF p, q
  <2>2. claim'[c].deleted = TRUE
    BY <1>3, <1>7
  <2> QED
    BY <1>1, <1>5, <1>7, <2>1, <2>2 DEF LifecycleOfClaims!RequestDeletion, P, D
<1>8. CASE p = "deleting" /\ q = "absent" /\ ~claim'[c].deleted
  <2>1. claim'[c].deleted = FALSE
    BY <1>3, <1>8
  <2> QED
    BY <1>1, <1>5, <1>8, <2>1 DEF LifecycleOfClaims!Release, P, D
<1> QED
  BY <1>4, <1>6, <1>7, <1>8

\* add_finalizer protects a claim, or leaves it as it is.
LEMMA ClaimAddFinalizerLives ==
    ASSUME ClaimInv, NEW c \in Claims, ClaimAddFinalizer(c)
    PROVE  Lives(claim[c], claim'[c])
<1>1. claim[c] \in ClaimObject /\ Sane(claim[c])
  BY ClaimTypes DEF ClaimObjectInv, ClaimCopiesSane
<1>2. claim'[c] = IF claim[c].exists THEN [claim[c] EXCEPT !.finalizer = TRUE] ELSE claim[c]
  BY DEF ClaimInv, ClaimTypeOK, ClaimAddFinalizer
<1> QED
  BY <1>1, <1>2 DEF Lives, Phase, Sane, ClaimObject

\* The finalizer of a claim is removed only once it is recorded as Deleting.
LEMMA ClaimRemoveFinalizerLives ==
    ASSUME ClaimInv, NEW c \in Claims, ClaimRemoveFinalizer(c)
    PROVE  Lives(claim[c], claim'[c])
<1>1. /\ ClaimObjectInv(c) /\ claim[c] \in ClaimObject /\ claimCache[c] \in ClaimObject
      /\ claimSnap[c] \in ClaimObject /\ claimPc[c] = "removeFinalizer"
  BY ClaimTypes DEF ClaimRemoveFinalizer
<1>2. claimSnap[c].finalizer /\ claimSnap[c].state = "Deleting"
  BY <1>1 DEF ClaimObjectInv, ErrandFits
<1>3. claimSnap[c].exists /\ Older(claimSnap[c], claim[c])
  BY <1>1 DEF ClaimObjectInv, ClaimSnapSane, ClaimCopiesSane, Older, Same, ClaimObject
<1>4. ~claim[c].deleted => ~claim[c].finalizer
  BY <1>1, <1>2, <1>3
     DEF ClaimObjectInv, ClaimSnapSane, ClaimSnapTrusted, Sane, Older, Same
<1>5. claim[c].deleted => claim[c].exists /\ claim[c].state = "Deleting"
  BY <1>1, <1>2, <1>3
     DEF ClaimObjectInv, ClaimSnapTrusted, ClaimCopiesSane, Sane, Older, Same
<1>6. claim[c].deleted => claim'[c] = NoClaim(claim[c].uid)
  BY <1>5 DEF ClaimInv, ClaimTypeOK, ClaimRemoveFinalizer
<1>7. ~claim[c].deleted => claim'[c] \in {claim[c], [claim[c] EXCEPT !.finalizer = FALSE]}
  BY DEF ClaimInv, ClaimTypeOK, ClaimRemoveFinalizer
<1> QED
  BY <1>1, <1>4, <1>5, <1>6, <1>7 DEF Lives, Phase, NoClaim, ClaimObject

\* update_fields records a deletion that has been requested, or that the claim is Ready.
LEMMA PatchClaimStatusLives ==
    ASSUME ClaimInv, NEW c \in Claims, PatchClaimStatus(c)
    PROVE  Lives(claim[c], claim'[c])
<1>1. /\ ClaimObjectInv(c) /\ claim[c] \in ClaimObject /\ work[c] \in Errand
      /\ claimPc[c] = "patchStatus" /\ claimPc[c] \in ClaimBinding
  BY ClaimTypes DEF PatchClaimStatus, ClaimBinding
<1>2. /\ claim[c].exists /\ claim[c].finalizer
      /\ ~claimSnap[c].deleted => claim[c].state # "Deleting"
      /\ claimSnap[c].deleted => claim[c].deleted
  BY <1>1, ClaimReadyTarget
<1>3. work[c].state = IF claimSnap[c].deleted THEN "Deleting" ELSE "Ready"
  BY <1>1 DEF ClaimObjectInv, ErrandFits
<1>4. claim'[c] = [claim[c] EXCEPT !.state = work[c].state, !.bound = work[c].bound]
  BY <1>2 DEF PatchClaimStatus, ClaimInv, ClaimTypeOK
<1>5. /\ claim'[c].exists /\ claim'[c].finalizer
      /\ claim'[c].deleted = claim[c].deleted /\ claim'[c].state = work[c].state
  BY <1>1, <1>2, <1>4 DEF ClaimObject
<1> QED
  BY <1>1, <1>2, <1>3, <1>5 DEF Lives, Phase, ClaimObject, State

\* The storage name in the spec is no matter of the claim's life.
LEMMA PatchClaimSpecLives ==
    ASSUME ClaimInv, NEW c \in Claims, PatchClaimSpec(c)
    PROVE  Lives(claim[c], claim'[c])
<1> DEFINE sp == [claim[c].spec EXCEPT !.storage = work[c].bound]
<1>1. claim[c] \in ClaimObject
  BY ClaimTypes
<1>2. claim[c].exists
  BY ClaimReadyTarget DEF PatchClaimSpec, ClaimBinding
<1>3. claim'[c] = [claim[c] EXCEPT !.spec = sp]
  BY <1>2 DEF PatchClaimSpec, ClaimInv, ClaimTypeOK
<1> HIDE DEF sp
<1> QED
  BY <1>1, <1>3 DEF Lives, Phase, ClaimObject

\* What users do to a claim is a step of its life.
LEMMA ClaimUserLives ==
    ASSUME ClaimInv, NEW c \in Claims, ClaimUser(c)
    PROVE  Lives(claim[c], claim'[c])
<1>1. claim[c] \in ClaimObject /\ Sane(claim[c]) /\ claim[c].deleted \in BOOLEAN
  BY ClaimTypes DEF ClaimObjectInv, ClaimCopiesSane, ClaimObject
<1>2. CASE CreateClaim(c)
  <2>1. PICK sp \in ClaimSpecs :
            claim'[c] = [NoClaim(claim[c].uid + 1) EXCEPT !.exists = TRUE, !.spec = sp]
    BY <1>2 DEF CreateClaim, ClaimInv, ClaimTypeOK
  <2>2. /\ claim'[c].exists /\ claim'[c].deleted = FALSE
        /\ claim'[c].finalizer = FALSE /\ claim'[c].state = "Pending"
    BY <2>1 DEF NoClaim
  <2>3. ~claim[c].exists /\ claim[c].deleted = FALSE
    BY <1>1, <1>2 DEF CreateClaim, Sane
  <2> QED
    BY <2>2, <2>3 DEF Lives, Phase
<1>3. CASE DeleteClaim(c)
  <2>1. /\ claim[c].exists /\ claim[c].deleted = FALSE
        /\ claim'[c] = IF claim[c].finalizer THEN [claim[c] EXCEPT !.deleted = TRUE]
                       ELSE NoClaim(claim[c].uid)
    BY <1>1, <1>3 DEF DeleteClaim, ClaimInv, ClaimTypeOK
  <2>2. CASE claim[c].finalizer
    BY <1>1, <2>1, <2>2 DEF Lives, Phase, Sane, ClaimObject, State
  <2>3. CASE ~claim[c].finalizer
    <3>1. claim[c].state = "Pending"
      BY <1>1, <2>3 DEF Sane
    <3>2. claim'[c].exists = FALSE /\ claim'[c].deleted = FALSE
      BY <2>1, <2>3 DEF NoClaim
    <3>3. Phase(claim[c]) = "created" /\ Phase(claim'[c]) = "absent"
      BY <2>1, <2>3, <3>1, <3>2 DEF Phase
    <3> QED
      BY <2>1, <3>2, <3>3 DEF Lives
  <2> QED
    BY <2>2, <2>3
<1> QED
  BY <1>2, <1>3 DEF ClaimUser

\* A step that changes no claim is a stutter of the abstract specification.
LEMMA ClaimStutterStep ==
    ASSUME claim' = claim
    PROVE  [LifecycleOfClaims!Next]_(LifecycleOfClaims!vars)
  BY DEF LifecycleOfClaims!vars, Phase

\* Only these actions write a claim, and each writes one.
LEMMA ClaimWriters ==
    ASSUME ClaimInv, [ClaimNext]_<<vars, claimVars>>, claim' # claim
    PROVE  \E c \in Claims :
              /\ \/ ClaimAddFinalizer(c) \/ ClaimRemoveFinalizer(c)
                 \/ PatchClaimStatus(c) \/ PatchClaimSpec(c) \/ ClaimUser(c)
              /\ \A d \in Claims \ {c} : claim'[d] = claim[d]
<1>1. ClaimWork
  BY DEF ClaimNext, OtherWork, ClaimFault, RestartAll, ClaimFail, claimVars
<1>2. ASSUME NEW c \in Claims, ClaimWatch(c) \/ ClaimStart(c) PROVE FALSE
  BY <1>2 DEF ClaimWatch, ClaimStart
<1>3. ASSUME NEW c \in Claims,
             \/ GetModel(c) \/ CreateModel(c) \/ ListBindings(c) \/ ChooseStorage(c)
             \/ CreateBinding(c) \/ FindModel(c) \/ ListOld(c) \/ DeleteOld(c) \/ DeleteModel(c)
      PROVE  FALSE
  BY <1>3 DEF GetModel, CreateModel, ListBindings, ChooseStorage, CreateBinding, FindModel,
              ListOld, DeleteOld, DeleteModel
<1>4. PICK c \in Claims : \/ ClaimAddFinalizer(c) \/ ClaimRemoveFinalizer(c)
                          \/ PatchClaimStatus(c) \/ PatchClaimSpec(c) \/ ClaimUser(c)
  BY <1>1, <1>2, <1>3 DEF ClaimWork, ReconcileClaim
<1>5. \A d \in Claims \ {c} : claim'[d] = claim[d]
  BY <1>4 DEF ClaimAddFinalizer, ClaimRemoveFinalizer, PatchClaimStatus, PatchClaimSpec,
              ClaimUser, CreateClaim, DeleteClaim, ClaimInv, ClaimTypeOK
<1> QED
  BY <1>4, <1>5

\* Every step implements a step of ObjectLifecycle or a stutter.
LEMMA ClaimLifecycleNext ==
    ClaimInv /\ [ClaimNext]_<<vars, claimVars>>
    => [LifecycleOfClaims!Next]_(LifecycleOfClaims!vars)
<1> SUFFICES ASSUME ClaimInv, [ClaimNext]_<<vars, claimVars>>, claim' # claim
             PROVE  [LifecycleOfClaims!Next]_(LifecycleOfClaims!vars)
  BY ClaimStutterStep
<1>1. ClaimTypeOK'
  BY ClaimNextInv DEF ClaimInv
<1>2. PICK c \in Claims :
          /\ \/ ClaimAddFinalizer(c) \/ ClaimRemoveFinalizer(c)
             \/ PatchClaimStatus(c) \/ PatchClaimSpec(c) \/ ClaimUser(c)
          /\ \A d \in Claims \ {c} : claim'[d] = claim[d]
  BY ClaimWriters
<1>3. Lives(claim[c], claim'[c])
  BY <1>2, ClaimAddFinalizerLives, ClaimRemoveFinalizerLives, PatchClaimStatusLives,
     PatchClaimSpecLives, ClaimUserLives
<1> QED
  BY <1>1, <1>2, <1>3, ClaimLifecycleStep

\* No claim is there at first.
LEMMA ClaimLifecycleInit == ClaimInit => LifecycleOfClaims!Init
  BY DEF ClaimInit, NoClaim, LifecycleOfClaims!Init, Phase

\* Every claim lives the life that ObjectLifecycle promises, next to the other three
\* controllers, whatever its cache shows, whichever calls fail and whenever the
\* operator is restarted.
THEOREM ClaimRefinement == ClaimsSpec => ClaimLifecycle
  BY ClaimLifecycleInit, ClaimLifecycleNext, ClaimInvariance, PTL
     DEF ClaimsSpec, ClaimLifecycle, LifecycleOfClaims!Spec
-------------------------------------------------------------------------------
(* Models of Ready claims.                                                 *)

\* A model that is about to be released and has its finalizer is the one recorded
\* as Deleting.
LEMMA ReleasedIsDeleting ==
    ASSUME Inv, NEW m \in Models, pc[m] = "removeFinalizer", api[m].finalizer
    PROVE  api[m].exists /\ api[m].state = "Deleting"
<1>1. m \in Objects
  BY DEF Objects
<1>2. ObjectInv(m) /\ snap[m].finalizer /\ snap[m].state = "Deleting" /\ Older(snap[m], api[m])
  BY <1>1, Types, SnapOlder DEF ObjectInv, PhaseFits
<1>3. Same(snap[m], api[m])
  BY <1>2 DEF ObjectInv, SnapTrusted
<1> QED
  BY <1>2, <1>3 DEF Older, Same

\* No object gets its finalizer back while it is about to be released.
LEMMA NoNewFinalizer ==
    ASSUME Inv, [Next]_vars, NEW m \in Models,
           pc'[m] = "removeFinalizer", api'[m].finalizer
    PROVE  api[m].finalizer
<1>1. m \in Objects /\ api[m] \in Object /\ Sane(api[m])
  BY Types DEF Objects, ObjectInv, CopiesSane
<1>2. CASE api' = api
  BY <1>2
<1>3. CASE api' # api
  <2>1. PICK o \in Objects :
            /\ \/ AddFinalizer(o) \/ RemoveFinalizer(o) \/ MarkDeleting(o) \/ PatchReady(o)
               \/ User(o)
            /\ \A p \in Objects \ {o} : api'[p] = api[p]
    BY <1>3, Writers
  <2>2. CASE o # m
    BY <1>1, <2>1, <2>2
  <2>3. CASE o = m /\ ~User(o)
    BY <1>1, <2>1, <2>3
       DEF AddFinalizer, RemoveFinalizer, MarkDeleting, PatchReady, Await, Requeue, End,
           Inv, TypeOK
  <2>4. CASE o = m /\ Create(o)
    BY <1>1, <2>4 DEF Create, Created, Absent, Inv, TypeOK
  <2>5. CASE o = m /\ (Delete(o) \/ Edit(o))
    BY <1>1, <2>5 DEF Delete, Edit, Absent, Object, Inv, TypeOK
  <2> QED
    BY <2>1, <2>2, <2>3, <2>4, <2>5 DEF User
<1> QED
  BY <1>2, <1>3

\* A model is only released after its controller has looked for its claim.
LEMMA ReleaseFollowsCheck ==
    ASSUME Inv, [ClaimNext]_<<vars, claimVars>>, NEW m \in Models,
           pc'[m] = "removeFinalizer", pc[m] # "removeFinalizer"
    PROVE  /\ AssertEmptyClaims(m, ClaimState(m)) /\ ClaimState(m) \in {"Absent", "Deleting"}
           /\ UNCHANGED claimVars
<1>1. m \in Objects /\ m \notin Bindings /\ m \notin Storages /\ pc \in [Objects -> Phases]
  BY NamesAssumption DEF Objects, Inv, TypeOK
<1>2. ASSUME NEW o \in Objects, ReconcileObject(o) \/ Fail(o) PROVE FALSE
  BY <1>1, <1>2
     DEF ReconcileObject, Start, FirstCall, MarkDeleting, AddFinalizer, PatchReady,
         RemoveFinalizer, Fail, Await, Requeue, End
<1>3. ASSUME NEW o \in Objects, Watch(o) \/ User(o) PROVE FALSE
  BY <1>3 DEF Watch, User, Create, Delete, Edit
<1>4. ASSUME NEW b \in Bindings, ReconcileBinding(b) \/ LoadFails(b) PROVE pc'[m] = pc[m]
  <2>1. b # m
    BY <1>1
  <2>2. ASSUME NEW call, Goto(b, call) PROVE pc'[m] = pc[m]
    BY <1>1, <2>1, <2>2 DEF Goto
  <2>3. ASSUME NEW r, End(b, r) PROVE pc'[m] = pc[m]
    BY <1>1, <2>1, <2>3 DEF End
  <2>4. CASE LoadModel(b)
    BY <2>2, <2>3, <2>4 DEF LoadModel, LoadError, Requeue
  <2>5. CASE LoadSource(b) \/ LoadTarget(b)
    <3>1. snap[b].state \in State
      BY Types DEF Object, Objects
    <3>2. ASSUME NEW x, AfterLoad(b, x) PROVE pc'[m] = pc[m]
      BY <2>2, <2>3, <3>1, <3>2 DEF AfterLoad, Await, Requeue, State
    <3> QED
      BY <2>2, <2>3, <2>5, <3>2 DEF LoadSource, LoadTarget, LoadError, Requeue
  <2>6. CASE UnsyncBucket(b) \/ CreateDeleteJob(b)
    BY <2>2, <2>3, <2>6 DEF UnsyncBucket, CreateDeleteJob, AfterUnbind, Requeue
  <2>7. CASE MakeBucket(b) \/ SyncBucket(b) \/ LoadFails(b)
    BY <2>2, <2>3, <2>7 DEF MakeBucket, SyncBucket, LoadFails, LoadError, Requeue
  <2> QED
    BY <1>4, <2>4, <2>5, <2>6, <2>7 DEF ReconcileBinding
<1>5. ASSUME NEW s \in Storages, ReconcileModelStorage(s) PROVE FALSE
  BY <1>1, <1>5
     DEF ReconcileModelStorage, ValidateModelStorage, DeleteModelStorage, Goto, Requeue, End
<1>6. ASSUME NEW k \in jobs, RunJob(k) PROVE FALSE
  BY <1>6 DEF RunJob, kubeVars
<1>7. ASSUME NEW c \in Claims, ReconcileClaim(c) \/ ClaimWatch(c) \/ ClaimUser(c) PROVE FALSE
  <2>1. CASE \/ ClaimStart(c) \/ ClaimAddFinalizer(c) \/ ClaimRemoveFinalizer(c)
             \/ PatchClaimStatus(c) \/ PatchClaimSpec(c)
    BY <2>1 DEF ClaimStart, ClaimAddFinalizer, ClaimRemoveFinalizer, PatchClaimStatus,
                PatchClaimSpec, vars
  <2>2. CASE \/ GetModel(c) \/ CreateModel(c) \/ ListBindings(c) \/ ChooseStorage(c)
             \/ CreateBinding(c)
    BY <2>2 DEF GetModel, CreateModel, ListBindings, ChooseStorage, CreateBinding, vars
  <2>3. CASE FindModel(c) \/ ListOld(c) \/ DeleteOld(c) \/ DeleteModel(c)
    BY <2>3 DEF FindModel, ListOld, DeleteOld, DeleteModel, vars
  <2>4. CASE ClaimWatch(c) \/ ClaimUser(c)
    BY <2>4 DEF ClaimWatch, ClaimUser, CreateClaim, DeleteClaim, vars
  <2> QED
    BY <1>7, <2>1, <2>2, <2>3, <2>4 DEF ReconcileClaim
<1>8. ~ClaimFault
  BY <1>1, <1>2, <1>4 DEF ClaimFault, RestartAll, Restart, ClaimFail, vars
<1>9. OtherWork
  BY <1>7, <1>8 DEF ClaimNext, ClaimWork, vars
<1>10. UNCHANGED claimVars
  BY <1>9 DEF OtherWork
<1>11. PICK o \in Models : AssertEmptyBindings(o) \/ AssertEmptyClaims(o, ClaimState(o))
  BY <1>2, <1>3, <1>4, <1>5, <1>6, <1>9, ClaimsAssumption DEF OtherWork, ReconcileOther
<1> QED
  BY <1>1, <1>10, <1>11 DEF AssertEmptyBindings, AssertEmptyClaims, Goto, Requeue, End

\* When that look finds no claim to respect, none is Ready or about to be.
LEMMA CheckFindsClaim ==
    ASSUME ClaimInv, NEW c \in Claims, ClaimState(ModelOf[c]) \in {"Absent", "Deleting"}
    PROVE  claim[c].state # "Ready" /\ ~MakesReady(c)
<1>1. ModelOf[c] \in Claimed /\ (CHOOSE d \in Claims : ModelOf[d] = ModelOf[c]) = c
  BY ClaimsAssumption
<1>2. ClaimState(ModelOf[c]) = IF ~claim[c].exists THEN "Absent" ELSE claim[c].state
  BY <1>1 DEF ClaimState
<1>3. Sane(claim[c]) /\ claim[c].state \in State
  BY ClaimTypes DEF ClaimObjectInv, ClaimCopiesSane, ClaimObject
<1>4. claim[c].state # "Ready"
  BY <1>2, <1>3 DEF Sane, State
<1>5. MakesReady(c) => claim[c].exists /\ claim[c].state # "Deleting"
  BY ClaimReadyTarget DEF MakesReady
<1> QED
  BY <1>2, <1>3, <1>4, <1>5 DEF State

\* While its model is recorded as Deleting, a claim does not set out to become Ready.
LEMMA ClaimStaysUnready ==
    ASSUME Inv, ClaimInv, [ClaimNext]_<<vars, claimVars>>, NEW c \in Claims,
           api[ModelOf[c]].exists, api[ModelOf[c]].state = "Deleting",
           claim[c].state # "Ready", ~MakesReady(c)
    PROVE  claim'[c].state # "Ready" /\ ~MakesReady(c)'
<1>1. /\ claim \in [Claims -> ClaimObject] /\ claimPc \in [Claims -> ClaimPhases]
      /\ claimSnap \in [Claims -> ClaimObject] /\ ClaimObjectInv(c)
  BY ClaimTypes DEF ClaimInv, ClaimTypeOK
<1>2. CASE claim'[c] = claim[c] /\ claimPc'[c] = claimPc[c] /\ claimSnap'[c] = claimSnap[c]
  BY <1>2 DEF MakesReady
<1>3. CASE claim'[c] = claim[c] /\ claimPc'[c] = "idle"
  BY <1>3 DEF MakesReady, ClaimBinding
<1>4. CASE ClaimStart(c)
  <2> DEFINE d == claimCache[c]
  <2>1. d.state \in State
    BY ClaimTypes DEF ClaimObject
  <2>2. FirstClaimCall(d) \in ClaimBinding => FirstClaimCall(d) = "getModel" \/ d.deleted
    BY <2>1 DEF FirstClaimCall, ClaimBinding, State
  <2>3. /\ claim' = claim /\ claimPc'[c] = FirstClaimCall(d)
        /\ FirstClaimCall(d) # "idle" => claimSnap'[c] = d
    BY <1>1, <1>4 DEF ClaimStart
  <2> QED
    BY <2>2, <2>3 DEF MakesReady, ClaimBinding
<1>5. CASE \/ CreateModel(c) \/ ListBindings(c) \/ ChooseStorage(c) \/ CreateBinding(c)
  <2>1. claimPc[c] \in ClaimBinding \ {"getModel", "patchStatus", "patchSpec"}
    BY <1>5 DEF CreateModel, ListBindings, ChooseStorage, CreateBinding, ClaimBinding
  <2> QED
    BY <1>1, <2>1 DEF ClaimObjectInv, ErrandFits, MakesReady
<1>6. CASE GetModel(c)
  BY <1>1, <1>3, <1>6 DEF GetModel, IsReady, ClaimRequeue, ClaimEnd
<1>7. CASE FindModel(c) \/ ListOld(c) \/ DeleteOld(c) \/ DeleteModel(c)
  BY <1>1, <1>7
     DEF FindModel, ListOld, DeleteOld, DeleteModel, ClaimGoto, ClaimRequeue, ClaimEnd,
         MakesReady, ClaimBinding
<1>8. CASE PatchClaimStatus(c)
  <2>1. claimPc[c] = "patchStatus" /\ claimSnap[c].deleted
    BY <1>8 DEF PatchClaimStatus, MakesReady, ClaimBinding
  <2>2. work[c].state = "Deleting"
    BY <1>1, <2>1 DEF ClaimObjectInv, ErrandFits
  <2>3. claim'[c].state \in {claim[c].state, "Deleting"}
    BY <1>1, <1>8, <2>2 DEF PatchClaimStatus, ClaimObject
  <2>4. claimPc'[c] \in {"patchSpec", "idle"}
    BY <1>1, <1>8 DEF PatchClaimStatus, ClaimGoto, ClaimRequeue, ClaimEnd
  <2> QED
    BY <2>3, <2>4 DEF MakesReady, ClaimBinding
<1>9. CASE ClaimAddFinalizer(c) \/ ClaimRemoveFinalizer(c) \/ PatchClaimSpec(c)
  <2>1. claim'[c].state \in {claim[c].state, "Pending"}
    BY <1>1, <1>9 DEF ClaimAddFinalizer, ClaimRemoveFinalizer, PatchClaimSpec, NoClaim,
                      ClaimObject
  <2>2. claimPc'[c] = "idle"
    BY <1>1, <1>9 DEF ClaimAddFinalizer, ClaimRemoveFinalizer, PatchClaimSpec, ClaimAwait,
                      ClaimRequeue, ClaimEnd
  <2> QED
    BY <2>1, <2>2 DEF MakesReady, ClaimBinding
<1>10. CASE ClaimUser(c)
  <2>1. claim'[c].state \in {claim[c].state, "Pending"}
    <3>1. CASE CreateClaim(c)
      <4>1. PICK sp \in ClaimSpecs :
                claim'[c] = [NoClaim(claim[c].uid + 1) EXCEPT !.exists = TRUE, !.spec = sp]
        BY <1>1, <3>1 DEF CreateClaim
      <4> QED
        BY <4>1 DEF NoClaim
    <3>2. CASE DeleteClaim(c)
      BY <1>1, <3>2 DEF DeleteClaim, NoClaim, ClaimObject
    <3> QED
      BY <1>10, <3>1, <3>2 DEF ClaimUser
  <2>2. UNCHANGED <<claimPc, claimSnap>>
    BY <1>10 DEF ClaimUser, CreateClaim, DeleteClaim
  <2> QED
    BY <2>1, <2>2 DEF MakesReady
<1>11. CASE ClaimWatch(c) \/ ClaimFail(c) \/ RestartAll \/ UNCHANGED claimVars
  BY <1>1, <1>2, <1>3, <1>11
     DEF ClaimWatch, ClaimFail, RestartAll, ClaimRequeue, ClaimEnd, claimVars
<1>12. ASSUME NEW d \in Claims \ {c},
              ReconcileClaim(d) \/ ClaimWatch(d) \/ ClaimUser(d) \/ ClaimFail(d)
       PROVE  claim'[c] = claim[c] /\ claimPc'[c] = claimPc[c] /\ claimSnap'[c] = claimSnap[c]
  BY <1>1, <1>12
     DEF ReconcileClaim, ClaimStart, ClaimAddFinalizer, ClaimRemoveFinalizer,
         PatchClaimStatus, PatchClaimSpec, GetModel, CreateModel, Make, ListBindings,
         ChooseStorage, CreateBinding, FindModel, ListOld, DeleteOld, DeleteModel,
         ClaimWatch, ClaimUser, CreateClaim, DeleteClaim, ClaimFail, ClaimGoto, ClaimAwait,
         ClaimRequeue, ClaimEnd
<1>13. CASE ClaimNext /\ ~UNCHANGED claimVars
  <2>1. CASE RestartAll
    BY <1>11, <2>1
  <2>2. CASE \E d \in Claims : ReconcileClaim(d) \/ ClaimWatch(d) \/ ClaimUser(d) \/ ClaimFail(d)
    BY <1>2, <1>4, <1>5, <1>6, <1>7, <1>8, <1>9, <1>10, <1>11, <1>12, <2>2 DEF ReconcileClaim
  <2> QED
    BY <1>13, <2>1, <2>2 DEF ClaimNext, OtherWork, ClaimWork, ClaimFault
<1> QED
  BY <1>11, <1>13 DEF claimVars

\* No claim becomes Ready between the last check of its model and its release.
LEMMA UnclaimedNext ==
    ASSUME Inv, ClaimInv, UnclaimedWhenReleased, [ClaimNext]_<<vars, claimVars>>
    PROVE  UnclaimedWhenReleased'
<1> SUFFICES ASSUME NEW c \in Claims, pc'[ModelOf[c]] = "removeFinalizer",
                    api'[ModelOf[c]].finalizer
             PROVE  claim'[c].state # "Ready" /\ ~MakesReady(c)'
  BY DEF UnclaimedWhenReleased
<1>1. ModelOf[c] \in Models
  BY OwnedObjects
<1>2. api[ModelOf[c]].finalizer
  BY <1>1, ClaimStepSimulated, NoNewFinalizer
<1>3. CASE pc[ModelOf[c]] = "removeFinalizer"
  BY <1>1, <1>2, <1>3, ReleasedIsDeleting, ClaimStaysUnready DEF UnclaimedWhenReleased
<1>4. CASE pc[ModelOf[c]] # "removeFinalizer"
  <2>1. UNCHANGED claimVars /\ ClaimState(ModelOf[c]) \in {"Absent", "Deleting"}
    BY <1>1, <1>4, ReleaseFollowsCheck
  <2>2. claim[c].state # "Ready" /\ ~MakesReady(c)
    BY <2>1, CheckFindsClaim
  <2> QED
    BY <2>1, <2>2 DEF claimVars, MakesReady
<1> QED
  BY <1>3, <1>4

\* The check of a model's claims and its release are two calls, and still no claim is
\* Ready, or about to be, when the model is released.
THEOREM Unclaimed == ClaimsSpec => []UnclaimedWhenReleased
<1>1. ClaimInit => UnclaimedWhenReleased
  BY OwnedObjects DEF ClaimInit, Init, Objects, UnclaimedWhenReleased
<1>2. Inv /\ ClaimInv /\ UnclaimedWhenReleased /\ [ClaimNext]_<<vars, claimVars>>
         => UnclaimedWhenReleased'
  BY UnclaimedNext
<1> QED
  BY <1>1, <1>2, BothInvariants, PTL DEF ClaimsSpec

\* Only the release takes an object with the finalizer from the API server.
LEMMA OnlyReleaseRemoves ==
    ASSUME Inv, [Next]_vars, NEW m \in Objects, api[m].finalizer, ~api'[m].exists
    PROVE  pc[m] = "removeFinalizer"
<1>1. api[m] \in Object /\ api[m].exists
  BY Types DEF ObjectInv, CopiesSane, Sane
<1>2. api' # api
  BY <1>1
<1>3. PICK o \in Objects :
          /\ \/ AddFinalizer(o) \/ RemoveFinalizer(o) \/ MarkDeleting(o) \/ PatchReady(o)
             \/ User(o)
          /\ \A p \in Objects \ {o} : api'[p] = api[p]
  BY <1>2, Writers
<1>4. o = m
  BY <1>1, <1>3
<1>5. ASSUME AddFinalizer(m) \/ MarkDeleting(m) \/ PatchReady(m) \/ Edit(m) \/ Delete(m)
      PROVE  api'[m].exists
  <2>1. api \in [Objects -> Object]
    BY DEF Inv, TypeOK
  <2>2. CASE AddFinalizer(m)
    BY <1>1, <2>1, <2>2 DEF AddFinalizer, Object
  <2>3. CASE MarkDeleting(m) \/ PatchReady(m)
    BY <1>1, <2>1, <2>3 DEF MarkDeleting, PatchReady, PatchStatus, Object
  <2>4. CASE Edit(m)
    BY <1>1, <2>1, <2>4 DEF Edit, Object
  <2>5. CASE Delete(m)
    BY <1>1, <2>1, <2>5 DEF Delete, Object
  <2> QED
    BY <1>5, <2>2, <2>3, <2>4, <2>5
<1>6. ~Create(m)
  BY <1>1 DEF Create
<1> QED
  BY <1>3, <1>4, <1>5, <1>6 DEF User, RemoveFinalizer

\* "model claim is binded": a model under the finalizer is not let go while its claim
\* is Ready.
THEOREM ReadyClaimsKeep == ClaimsSpec => ReadyClaimKeepsModel
<1>1. Inv /\ ClaimInv /\ UnclaimedWhenReleased /\ [ClaimNext]_<<vars, claimVars>>
         => [\A c \in Claims :
                claim[c].state = "Ready" /\ api[ModelOf[c]].finalizer
                => api'[ModelOf[c]].exists]_<<vars, claimVars>>
  <2> SUFFICES ASSUME Inv, ClaimInv, UnclaimedWhenReleased, [ClaimNext]_<<vars, claimVars>>,
                      NEW c \in Claims, claim[c].state = "Ready", api[ModelOf[c]].finalizer,
                      ~api'[ModelOf[c]].exists
               PROVE  FALSE
    OBVIOUS
  <2>1. ModelOf[c] \in Objects
    BY OwnedObjects DEF Objects
  <2>2. pc[ModelOf[c]] = "removeFinalizer"
    BY <2>1, ClaimStepSimulated, OnlyReleaseRemoves
  <2> QED
    BY <2>2 DEF UnclaimedWhenReleased
<1> QED
  BY <1>1, Unclaimed, BothInvariants, PTL DEF ClaimsSpec, ReadyClaimKeepsModel
===============================================================================
