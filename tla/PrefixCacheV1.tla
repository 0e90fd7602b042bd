--------------------------- MODULE PrefixCacheV1 ---------------------------
(***************************************************************************)
(* The prefix cache under the v1 resource manager, GPU tier only: matching *)
(* when a waiting request is looked at, publication of its blocks when     *)
(* schedule() finds its prefill computed, and _free_blocks when it ends or *)
(* is preempted.  The token processor adds the first token at any time     *)
(* after the prefill is scheduled.                                         *)
(***************************************************************************)
EXTENDS PrefixCacheManager

CONSTANTS
    Dec,            \* enc_dec_block_num: blocks for further decoding
    MaxTable,       \* bound: blocks of a table
    MaxMatch        \* bound: request_match_blocks calls per request
\* Hierarchical is FALSE, Dec is positive

VARIABLES
    state,          \* "waiting", "matched", "prefill", "decode", "preempted", "ended"
    running,        \* self.running
    table,          \* request.block_tables
    cached,         \* num_cached_tokens, in blocks
    prefill_num,    \* prefill_block_num, -1 for None
    matches         \* request_match_blocks calls so far

callerVars == <<state, running, table, cached, prefill_num, matches>>
vars == <<cacheVars, callerVars>>

Init ==
    /\ CacheInit
    /\ state = [r \in Requests |-> "waiting"] /\ running = << >>
    /\ table = [r \in Requests |-> << >>]
    /\ cached = [r \in Requests |-> 0]
    /\ prefill_num = [r \in Requests |-> -1]
    /\ matches = [r \in Requests |-> 0]

-----------------------------------------------------------------------------
PromptBlocks(r) == Len(Prompt[r]) + (IF r \in Unfilled THEN 1 ELSE 0)
\* check_and_free_block_tables, called by get_new_block_nums, has run
Checked == Cardinality(gpu_free) >= MaxSeqBlocks \/ gpu_lru = {}

\* schedule(), a waiting request: get_prefix_cached_blocks, request_match_blocks
RequestMatchBlocks(r) ==
    /\ state[r] = "waiting" /\ holder = Nobody /\ matches[r] < MaxMatch
    /\ \A q \in Requests : state[q] # "matched"
    /\ matches' = [matches EXCEPT ![r] = @ + 1]
    /\ MatchLeaves(r)
    /\ tree' = MatchedTree(r)
    /\ cache_info' = [cache_info EXCEPT ![r] = LastOf(MatchedNodes(r))]
    /\ table' = [table EXCEPT ![r] = BlocksOf(MatchedGpu(r))]
    /\ cached' = [cached EXCEPT ![r] = Len(MatchedGpu(r))]
    /\ state' = [state EXCEPT ![r] = "matched"]
    /\ UNCHANGED <<poolVars, node_map, req_leaf_map, unfilled, releases,
                   evictVars, swapVars, holder, running, prefill_num>>

\* the rest of the pass: the request gets its blocks, or stays waiting
Admit(r) ==
    /\ state[r] = "matched" /\ holder = Nobody /\ Checked
    /\ LET n == PromptBlocks(r) - Len(table[r])
           ids == Allocate(gpu_free, n)
       IN  IF n <= Cardinality(gpu_free)
           THEN /\ gpu_free' = gpu_free \ Range(ids)
                /\ table' = [table EXCEPT ![r] = @ \o ids]
                /\ state' = [state EXCEPT ![r] = "prefill"]
                /\ running' = Append(running, r)
           ELSE /\ state' = [state EXCEPT ![r] = "waiting"]
                /\ UNCHANGED <<gpu_free, table, running>>
    /\ UNCHANGED <<cpu_free, treeVars, reqVars, evictVars, swapVars, holder,
                   cached, prefill_num, matches>>

\* schedule(), prefill finished and no token yet: update_cache_blocks
UpdateCacheBlocks(r) ==
    /\ state[r] = "prefill" /\ prefill_num[r] = -1 /\ holder = Nobody
    /\ prefill_num' = [prefill_num EXCEPT ![r] = Len(table[r])]
    /\ BuildPath(tree, r, cache_info[r], cached[r],
                 SubSeq(table[r], cached[r] + 1, Len(table[r])), 0)
    /\ cache_info' = [cache_info EXCEPT ![r] = req_leaf_map'[r]]
    /\ UNCHANGED <<poolVars, gpu_lru, cpu_lru, releases, evictVars, swapVars,
                   holder, state, running, table, cached, matches>>

\* the token processor appends the first output token
FirstToken(r) ==
    /\ state[r] = "prefill"
    /\ state' = [state EXCEPT ![r] = "decode"]
    /\ UNCHANGED <<cacheVars, running, table, cached, prefill_num, matches>>

\* schedule(), a running request: blocks for further decoding
GrowTable(r) ==
    /\ state[r] \in {"prefill", "decode"}
    /\ state[r] = "prefill" => Len(table[r]) = prefill_num[r]
    /\ Dec <= Cardinality(gpu_free) /\ Len(table[r]) + Dec <= MaxTable
    /\ LET ids == Allocate(gpu_free, Dec)
       IN  /\ gpu_free' = gpu_free \ Range(ids)
           /\ table' = [table EXCEPT ![r] = @ \o ids]
    /\ UNCHANGED <<cpu_free, treeVars, reqVars, evictVars, swapVars, holder,
                   state, running, cached, prefill_num, matches>>

\* _free_blocks: block_tables[prefill_block_num:], where None is the start
FreeBlocks(r, from) ==
    /\ releases' = Append(releases, r)
    /\ gpu_free' = gpu_free \cup
         {table[r][i] : i \in (IF from = -1 THEN 1 ELSE from + 1) .. Len(table[r])}
    /\ table' = [table EXCEPT ![r] = << >>]
    /\ UNCHANGED <<cpu_free, treeVars, req_leaf_map, cache_info, unfilled,
                   evictVars, swapVars, holder>>

\* _trigger_preempt: the last running request loses its blocks
TriggerPreempt ==
    /\ running # << >> /\ Cardinality(gpu_free) < Dec
    /\ LET v == running[Len(running)]
       IN  /\ FreeBlocks(v, 0)
           /\ prefill_num' = [prefill_num EXCEPT ![v] = 0]
           /\ state' = [state EXCEPT ![v] = "preempted"]
    /\ running' = SubSeq(running, 1, Len(running) - 1)
    /\ UNCHANGED <<cached, matches>>

\* schedule(), a preempted request is prefilled again without matching
ResumePreempted(r) ==
    /\ state[r] = "preempted" /\ holder = Nobody /\ Checked
    /\ PromptBlocks(r) <= Cardinality(gpu_free)
    /\ LET ids == Allocate(gpu_free, PromptBlocks(r))
       IN  /\ gpu_free' = gpu_free \ Range(ids)
           /\ table' = [table EXCEPT ![r] = ids]
    /\ state' = [state EXCEPT ![r] = "decode"]
    /\ running' = Append(running, r)
    /\ UNCHANGED <<cpu_free, treeVars, reqVars, evictVars, swapVars, holder,
                   cached, prefill_num, matches>>

\* finish_requests
Finish(r) ==
    /\ state[r] = "decode"
    /\ FreeBlocks(r, prefill_num[r])
    /\ state' = [state EXCEPT ![r] = "ended"]
    /\ running' = SelectSeq(running, LAMBDA q : q # r)
    /\ UNCHANGED <<cached, prefill_num, matches>>

\* a step of the manager's own threads
Own(A) == A /\ UNCHANGED callerVars

Next ==
    \/ Own(ReleaseBlockIds) \/ Own(FreeStart) \/ Own(FreeVictim) \/ Own(FreeEnd)
    \/ TriggerPreempt
    \/ \E r \in Requests :
         \/ RequestMatchBlocks(r) \/ Admit(r) \/ UpdateCacheBlocks(r)
         \/ FirstToken(r) \/ GrowTable(r) \/ ResumePreempted(r) \/ Finish(r)

Spec == Init /\ [][Next]_vars

-----------------------------------------------------------------------------
(* Properties.                                                             *)

(* The blocks a request gets beyond those it matched are "exclusively      *)
(* allocated" (request_match_blocks): two requests have a block in common  *)
(* only where their prompts agree up to and including it.                  *)
SharedOnlyAsPrefix ==
    \A q, r \in Requests : q # r =>
        \A i \in DOMAIN table[q], j \in DOMAIN table[r] : table[q][i] = table[r][j] =>
            /\ i = j /\ i <= Len(Prompt[q]) /\ i <= Len(Prompt[r])
            /\ SubSeq(Prompt[q], 1, i) = SubSeq(Prompt[r], 1, i)
=============================================================================
