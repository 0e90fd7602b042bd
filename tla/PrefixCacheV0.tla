--------------------------- MODULE PrefixCacheV0 ---------------------------
(***************************************************************************)
(* The prefix cache under the v0 resource manager: request_block_ids when  *)
(* a request is admitted (matching, swapping in, allocating and building   *)
(* its path), release_block_ids_async when it ends, and                    *)
(* check_and_free_block_tables in between.                                 *)
(***************************************************************************)
EXTENDS PrefixCacheManager

CONSTANT Dec        \* enc_dec_block_num: blocks reserved for decoding

ASSUME DecAssumption == Dec \in Nat

VARIABLES
    state,          \* request -> "new", "swapping", "running" or "ended"
    table           \* task.block_tables

vars == <<cacheVars, state, table>>

Init ==
    /\ CacheInit
    /\ state = [r \in Requests |-> "new"]
    /\ table = [r \in Requests |-> << >>]

-----------------------------------------------------------------------------
BlockNum(r) == Len(Prompt[r]) + (IF r \in Unfilled THEN 1 ELSE 0) + Dec

(* request_block_ids.  The scheduler hands out a request only when         *)
(* BlockNum(r) blocks are free, and no other thread allocates GPU blocks,  *)
(* so _check_validity passes.  Matched CPU blocks are swapped in while the *)
(* lock is held.                                                           *)
CommonBlocks(g, recv) == g \o recv

RequestBlockIds(r) ==
    /\ state[r] = "new" /\ holder = Nobody
    /\ BlockNum(r) <= Cardinality(gpu_free)
    /\ LET g == MatchedGpu(r)
           c == MatchedCpu(r)
           ids == Allocate(gpu_free, BlockNum(r) - Len(g))
           recv == SubSeq(ids, 1, Len(c))
           extra == SubSeq(ids, Len(c) + 1, Len(ids))
       IN  /\ gpu_free' = gpu_free \ Range(ids)
           /\ MatchLeaves(r)
           /\ table' = [table EXCEPT ![r] = CommonBlocks(BlocksOf(g), recv) \o extra]
           /\ IF c = << >>
              THEN /\ BuildPath(MatchedTree(r), r, LastOf(MatchedNodes(r)),
                                Len(g), extra, Dec)
                   /\ state' = [state EXCEPT ![r] = "running"]
                   /\ UNCHANGED <<transfers, holder, cache_info>>
              ELSE /\ tree' = MatchedTree(r)
                   /\ IssueSwapIn(r, recv)
                   /\ holder' = r
                   /\ cache_info' = [cache_info EXCEPT ![r] = LastOf(MatchedNodes(r))]
                   /\ state' = [state EXCEPT ![r] = "swapping"]
                   /\ UNCHANGED <<node_map, req_leaf_map, unfilled>>
    /\ UNCHANGED <<cpu_free, releases, evictVars, result>>

(* The swap is done: the rest of request_block_ids.  cache_info only       *)
(* carries the local match_block_node over the wait.                       *)
SwappedIn(r) ==
    /\ result # << >> /\ result[1].items = << >> /\ result[1].for = r
    /\ result' = << >>
    /\ LET last == cache_info[r]
           from == tree[last].depth
           extra == SubSeq(table[r], from + 1, Len(table[r]))
       IN  BuildPath(tree, r, last, from, extra, Dec)
    /\ cache_info' = [cache_info EXCEPT ![r] = NoNode]
    /\ holder' = Nobody
    /\ state' = [state EXCEPT ![r] = "running"]
    /\ UNCHANGED <<poolVars, gpu_lru, cpu_lru, releases, evictVars, transfers, table>>

\* _recycle_block_tables: release_block_ids_async
Recycle(r) ==
    /\ state[r] = "running"
    /\ state' = [state EXCEPT ![r] = "ended"]
    /\ releases' = Append(releases, r)
    /\ table' = [table EXCEPT ![r] = << >>]
    /\ UNCHANGED <<poolVars, treeVars, req_leaf_map, cache_info, unfilled,
                   evictVars, swapVars, holder>>

\* a step of the manager's own threads
Own(A) == A /\ UNCHANGED <<state, table>>

Next ==
    \/ Own(ReleaseBlockIds)
    \/ Own(FreeStart) \/ Own(FreeVictim) \/ Own(FreeEnd)
    \/ Own(FreeCpuStart) \/ Own(FreeCpuVictim) \/ Own(FreeCpuEnd)
    \/ Own(EvictCacheAsync)
    \/ Own(TakeResult) \/ Own(HandleSwapResult) \/ Own(EvictionDone)
    \/ \E r \in Requests : RequestBlockIds(r) \/ SwappedIn(r) \/ Recycle(r)

(* The receiving thread and the threads of the pools keep running; waiting *)
(* requests keep being offered, running ones end, and the free blocks keep *)
(* being checked by the engine's loop; whoever wants the lock gets it in   *)
(* the end.  A request is admitted once, so fairness to "some request"     *)
(* leaves none out.                                                        *)
Fairness ==
    /\ WF_vars(Own(TakeResult \/ HandleSwapResult \/ EvictionDone)
                \/ \E r \in Requests : SwappedIn(r))
    /\ WF_vars(Own(EvictCacheAsync))
    /\ WF_vars(Own(FreeVictim \/ FreeEnd \/ FreeCpuVictim \/ FreeCpuEnd))
    /\ SF_vars(Own(ReleaseBlockIds)) /\ SF_vars(Own(FreeCpuStart))
    /\ SF_vars(Own(FreeStart))
    /\ SF_vars(\E r \in Requests : RequestBlockIds(r))
    /\ WF_vars(\E r \in Requests : Recycle(r))

Spec == Init /\ [][Next]_vars /\ Fairness

-----------------------------------------------------------------------------
(* Properties.                                                             *)
NodeRecord == [parent : {NoNode, Root} \cup Nodes, key : {<< >>} \cup UNION {Range(Prompt[r]) : r \in Requests},
               depth : 0 .. MaxNodes, block : Int, status : {"GPU", "SWAP2CPU", "SWAP2GPU", "CPU"},
               shared : Int, reserved : SUBSET GpuBlocks, kids : SUBSET Nodes,
               input : {<< >>} \cup Range(Prompt)]

(* The types of the manager's fields: blocks are numbered as               *)
(* __init__ numbers them, and every map of nodes refers to nodes.          *)
TypeOK ==
    /\ gpu_free \subseteq GpuBlocks /\ cpu_free \subseteq CpuBlocks
    /\ node_map \subseteq Nodes /\ tree \in [{Root} \cup Nodes -> NodeRecord]
    /\ gpu_lru \subseteq Nodes /\ cpu_lru \subseteq Nodes
    /\ req_leaf_map \in [Requests -> {Root, NoNode} \cup Nodes]
    /\ cache_info \in [Requests -> {Root, NoNode} \cup Nodes]
    /\ unfilled \in [Requests -> SUBSET GpuBlocks]
    /\ releases \in Seq(Requests)
    /\ holder \in {Nobody, "free_gpu", "free_cpu"} \cup Requests
    /\ future \in {"none", "free_cpu", "evict", "swap", "done", "failed"}
    /\ freed \in 0 .. MaxSeqBlocks

\* the blocks that each part of the manager accounts for
InFlight == transfers \cup Range(result)
ItemsOf(t) == Range(t.items)
Resident == {n \in node_map : tree[n].status \in {"GPU", "SWAP2CPU"}}
Pending(r) ==   \* blocks of a request that waits for its swap
    IF state[r] = "swapping"
    THEN {table[r][i] : i \in tree[cache_info[r]].depth + 1 .. Len(table[r])}
           \cup UNION {{it.gpu : it \in ItemsOf(t)} : t \in {u \in InFlight : u.for = r}}
    ELSE {}

GpuShares ==
    {<<<<"free", Root>>, gpu_free>>}
      \cup {<<<<"node", n>>, {tree[n].block}>> : n \in Resident}
      \cup {<<<<"reserved", n>>, tree[n].reserved>> : n \in node_map}
      \cup {<<<<"unfilled", r>>, unfilled[r]>> : r \in Requests}
      \cup {<<<<"pending", r>>, Pending(r)>> : r \in Requests}
CpuShares ==
    {<<<<"free", Root>>, cpu_free>>}
      \cup {<<<<"node", n>>, {tree[n].block}>> : n \in node_map \ Resident}
      \cup {<<<<"task", t>>, {it.cpu : it \in ItemsOf(t)}>> :
              t \in {u \in InFlight : u.for = Nobody}}

Partitions(shares, blocks) ==
    /\ UNION {s[2] : s \in shares} = blocks
    /\ \A s, t \in shares : s # t => s[2] \cap t[2] = {}

(* Every GPU block has one owner: the free list, a node of the tree, the   *)
(* reserve of a node or request, or a request that waits for its swap.  No *)
(* order of matching, swapping, release and eviction loses a block of      *)
(* gpu_free_block_list or puts one there twice.                            *)
GpuBlocksOwnedOnce == Partitions(GpuShares, GpuBlocks)

(* The same of CPU blocks, owned by cpu_free_block_list, by a node that is *)
(* (or still is) on the CPU, or by a running swap-out; a node reused while *)
(* it is swapped out gives the CPU block back.                             *)
CpuBlocksOwnedOnce == Partitions(CpuShares, CpuBlocks)

Uses(r, n) ==
    \/ req_leaf_map[r] # NoNode /\ n \in PathUp(req_leaf_map[r])
    \/ state[r] = "swapping" /\ n \in PathUp(cache_info[r])

(* shared_count is the number of requests that use the node (the docstring *)
(* of BlockNode), so that decrement_shared_count reaches 0 exactly when    *)
(* the last of them is released.                                           *)
SharedCountsUsers ==
    \A n \in node_map : tree[n].shared = Cardinality({r \in Requests : Uses(r, n)})

(* While a request runs, the blocks of its table that hold its prompt are  *)
(* the GPU blocks of the nodes on its path, none of them evicted, swapped  *)
(* or given to another prompt.                                             *)
PromptBlocksKept ==
    \A r \in Requests : state[r] = "running" =>
        LET path == PathUp(req_leaf_map[r])
            own == {table[r][i] : i \in 1 .. Len(Prompt[r])}
        IN  /\ \A n \in path : n \in node_map /\ tree[n].status = "GPU"
            /\ {tree[n].block : n \in path} = own
            /\ {tree[n].key : n \in path} = Range(Prompt[r])

(* The i-th block of a running request's table holds the i-th block of its *)
(* prompt: "reusing cached intermediate results" (prefix_caching.md) means *)
(* the results of that position.                                           *)
TableInPromptOrder ==
    \A r \in Requests : state[r] = "running" =>
        \A n \in PathUp(req_leaf_map[r]) : table[r][tree[n].depth] = tree[n].block

(* No node becomes unevictable: with the lock free, every unused leaf on   *)
(* the GPU is in gpu_lru_leaf_heap and every unused leaf on the CPU in     *)
(* cpu_lru_leaf_heap.                                                      *)
UnusedLeavesEvictable ==
    holder = Nobody => \A n \in node_map : tree[n].shared = 0 =>
        /\ IsGpuLeaf(tree, n) => n \in gpu_lru
        /\ IsCpuLeaf(tree, n) => n \in cpu_lru

(* allocate_cpu_blocks never fails its assertion in an eviction: what      *)
(* free_cpu_block_ids frees is enough.                                     *)
EvictionFindsRoom == future # "failed"

(* Every request is admitted in the end: blocks of ended requests come     *)
(* back through release, eviction and swapping, without a deadlock between *)
(* request_block_ids, which waits for a swap under the lock, and the       *)
(* threads that evict.                                                     *)
EveryRequestAdmitted == <>(\A r \in Requests : state[r] = "ended")
=============================================================================
