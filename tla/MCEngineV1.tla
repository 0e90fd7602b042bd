----------------------------- MODULE MCEngineV1 -----------------------------
(* Instances of EngineV1 for TLC. *)
EXTENDS EngineV1, TLC

CONSTANTS r1, r2, r3

Prompt1 == [r \in Requests |-> 1]
Prompt31 == r1 :> 3 @@ r2 :> 1
Arrive12 == <<r1, r2>>
Arrive123 == <<r1, r2, r3>>

(* Bound: a behaviour is followed up to the first reschedule of a request    *)
(* that has not drained, or the first stray token.                           *)
UntilTrouble == ~premature /\ ~stray
=============================================================================
