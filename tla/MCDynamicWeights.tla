------------------------- MODULE MCDynamicWeights -------------------------
(* Instances of DynamicWeights for TLC. *)
EXTENDS DynamicWeights

CONSTANTS r0, r1, r2, k1, k2

\* the properties claim nothing once a wish is written out of turn
UntilRaced == ~raced
=============================================================================
