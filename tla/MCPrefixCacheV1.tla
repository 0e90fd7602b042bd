-------------------------- MODULE MCPrefixCacheV1 --------------------------
(* One prompt extends the other. *)
EXTENDS PrefixCacheV1, TLC

CONSTANTS r1, r2, tA, tB

MCPrompt == r1 :> <<tA>> @@ r2 :> <<tA, tB>>
=============================================================================
