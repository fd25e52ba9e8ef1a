--------------------------- MODULE MCCachedStore ---------------------------
(* Small instances of CachedStore for TLC. *)
EXTENDS CachedStoreInv, TLC

CONSTANTS r1, r2, large, small

\* One object that counts as large, one that does not; either fills the cache.
Sizes == (large :> 3) @@ (small :> 2)
=============================================================================
