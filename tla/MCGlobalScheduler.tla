------------------------- MODULE MCGlobalScheduler -------------------------
(* Instances of GlobalScheduler for TLC. *)
EXTENDS GlobalScheduler, TLC

CONSTANTS s1, s2, qa, qb

\* two requests for one scheduler, none for the other
MCHome == qa :> s1 @@ qb :> s1
MCLength == qa :> 2 @@ qb :> 1
=============================================================================
