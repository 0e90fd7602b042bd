-------------------------- MODULE MCCacheTransfer --------------------------
(* Instances of CacheTransfer for TLC. *)
EXTENDS CacheTransfer

CONSTANTS r0, r1, r2
=============================================================================
