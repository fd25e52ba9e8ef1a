------------------------ MODULE ClaimOperatorLiveness ------------------------
(***************************************************************************)
(* What ClaimOperator must eventually do once the calls of claims stop     *)
(* failing (`calm', as in StorageOperatorLiveness, which covers the calls  *)
(* of the other controllers).                                              *)
(***************************************************************************)
EXTENDS ClaimOperator

VARIABLE calm

allVars == <<vars, claimVars, calm>>

CalmInit == ClaimInit /\ calm = FALSE

BecomeCalm ==
    /\ ~calm
    /\ calm' = TRUE
    /\ UNCHANGED <<vars, claimVars>>

CalmNext ==
    \/ (OtherWork \/ ClaimWork) /\ UNCHANGED calm
    \/ ~calm /\ (\E c \in Claims : ClaimFail(c)) /\ UNCHANGED calm
    \/ BecomeCalm

\* As in StorageOperatorLiveness, with the controller of claims next to the others.
Fairness ==
    /\ \A o \in Objects :
          /\ WF_allVars(ReconcileOther(o) /\ UNCHANGED <<claimVars, calm>>)
          /\ WF_allVars(Watch(o) /\ UNCHANGED <<claimVars, calm>>)
    /\ \A c \in Claims :
          /\ WF_allVars(ReconcileClaim(c) /\ UNCHANGED calm)
          /\ WF_allVars(ClaimWatch(c) /\ UNCHANGED calm)

FairSpec == CalmInit /\ [][CalmNext]_allVars /\ Fairness

-------------------------------------------------------------------------------
\* The model is being deleted and a Ready binding keeps it.
Held(m) ==
    /\ api[m].deleted
    /\ \E b \in ReadyBindings : api[b].spec.model = m

\* The deletion of a claim is eventually carried through, and that of its model does
\* not wait for it in turn; but a claim whose model was deleted by hand while it is
\* bound waits for the binding, as the model does (validator/model_claim.rs, delete).
ClaimDeletionCompletes ==
    \A c \in Claims :
        (calm /\ claim[c].deleted) ~> (~claim[c].deleted \/ Held(ModelOf[c]))
==============================================================================
