---------------------- MODULE MCClaimOperatorLiveness ----------------------
(* Small instances of ClaimOperatorLiveness for TLC. *)
EXTENDS MCClaimOperator, ClaimOperatorLiveness
============================================================================
