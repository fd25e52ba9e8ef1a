--------------------- MODULE MCStorageOperatorLiveness ---------------------
(* Small instances of StorageOperatorLiveness for TLC. *)
EXTENDS MCStorageOperator, StorageOperatorLiveness
=============================================================================
