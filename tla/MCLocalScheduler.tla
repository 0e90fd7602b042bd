-------------------------- MODULE MCLocalScheduler --------------------------
(* Instances of LocalScheduler for TLC. *)
EXTENDS LocalScheduler, TLC

CONSTANTS r1, r2, r3, r4

(* A long prompt among short ones. *)
Lens == r1 :> 1 @@ r2 :> 3 @@ r3 :> 1 @@ r4 :> 1
=============================================================================
