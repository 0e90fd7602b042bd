-------------------------- MODULE MCPrefixCacheV0 --------------------------
(* Prompts that extend, repeat and branch off one another.                 *)
EXTENDS PrefixCacheV0, TLC

CONSTANTS r1, r2, r3, r4, r5, tA, tB, tC

MCPrompt == r1 :> <<tA, tB>> @@ r2 :> <<tA, tB>> @@ r3 :> <<tA, tC>> @@ r4 :> << >> @@ r5 :> <<tC>>
MCUnfilled == {r4}
=============================================================================
