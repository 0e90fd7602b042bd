-------------------------- MODULE PrefixCacheManager --------------------------
(***************************************************************************)
(* fastdeploy/cache_manager/prefix_cache_manager.py and cache_data.py: the *)
(* radix tree of cached prompt blocks, its reference counts, eviction from *)
(* GPU and, with hierarchical caching, the tier of CPU blocks behind it.   *)
(*                                                                         *)
(* Every method but the handling of swap results runs under                *)
(* request_release_lock; "holder" names the method that keeps the lock     *)
(* over several steps.  Swap results are handled by a thread of their own, *)
(* one node at a time, under cache_status_lock only.                       *)
(*                                                                         *)
(* A prompt is the sequence of its full token blocks, each a model value   *)
(* for the hash of the block, and a flag for a last, unfilled block.  A    *)
(* BlockNode object is a number; a number is given to a new node only when *)
(* nothing refers to the old one.  The free lists and leaf heaps are sets. *)
(* last_used_time is left out: any leaf of the LRU heap may be the next    *)
(* victim.                                                                 *)
(***************************************************************************)
EXTENDS Integers, Sequences, FiniteSets, SequencesExt, ListOps

CONSTANTS
    Requests,       \* request ids
    Prompt,         \* request -> its full token blocks
    Unfilled,       \* requests whose prompt ends in an unfilled block
    NumGpu,         \* num_gpu_blocks
    NumCpu,         \* num_cpu_blocks
    MaxSeqBlocks,   \* max_block_num_per_seq: free blocks to keep
    Hierarchical,   \* enable_hierarchical_cache
    MaxNodes,       \* bound: BlockNode objects that exist at a time
    NoNode,         \* no entry in a map of nodes
    Nobody          \* request_release_lock is not held

ASSUME CacheAssumption ==
    /\ NumGpu \in Nat \ {0} /\ NumCpu \in Nat /\ MaxSeqBlocks \in Nat \ {0}
    /\ MaxNodes \in Nat \ {0} /\ Hierarchical \in BOOLEAN
    /\ Unfilled \subseteq Requests
    /\ DOMAIN Prompt = Requests
    /\ \A r \in Requests : Prompt[r] \in Seq(Range(Prompt[r]))

\* the names for "none" are not names of nodes, requests or methods
ASSUME NamesAssumption ==
    /\ NoNode \notin 0 .. MaxNodes
    /\ Nobody \notin Requests \cup {"free_gpu", "free_cpu"}
    /\ Requests \cap {"free_gpu", "free_cpu"} = {}

GpuBlocks == 0 .. NumGpu - 1
CpuBlocks == 0 .. NumCpu - 1
Root == 0
Nodes == 1 .. MaxNodes

VARIABLES
    gpu_free,       \* gpu_free_block_list
    cpu_free,       \* cpu_free_block_list
    node_map,       \* the nodes of node_map
    tree,           \* node -> its BlockNode record
    gpu_lru,        \* gpu_lru_leaf_heap and gpu_lru_leaf_set
    cpu_lru,        \* cpu_lru_leaf_heap and cpu_lru_leaf_set
    req_leaf_map,   \* request -> leaf node
    cache_info,     \* request -> last node matched or built
    unfilled,       \* unfilled_req_block_map
    releases,       \* executor_pool: requests to release, in order
    holder,         \* who holds request_release_lock across steps
    future,         \* gpu_free_task_future and how far its task is
    victims,        \* the lists of hash_value_.._map, one after the other
    freed,          \* total_gpu_free_count or total_cpu_free_count
    transfers,      \* swap tasks given to the cache transfer manager
    result          \* the swap result that is being handled, or << >>

poolVars == <<gpu_free, cpu_free>>
treeVars == <<node_map, tree, gpu_lru, cpu_lru>>
reqVars == <<req_leaf_map, cache_info, unfilled, releases>>
evictVars == <<future, victims, freed>>
swapVars == <<transfers, result>>
cacheVars == <<poolVars, treeVars, reqVars, evictVars, swapVars, holder>>

NewRoot == [parent |-> NoNode, key |-> << >>, depth |-> 0, block |-> -1,
            status |-> "GPU", shared |-> 0, reserved |-> {}, kids |-> {},
            input |-> << >>]

CacheInit ==
    /\ gpu_free = GpuBlocks /\ cpu_free = CpuBlocks
    /\ node_map = {}
    /\ tree = [n \in {Root} \cup Nodes |-> NewRoot]
    /\ gpu_lru = {} /\ cpu_lru = {}
    /\ req_leaf_map = [r \in Requests |-> NoNode]
    /\ cache_info = [r \in Requests |-> NoNode]
    /\ unfilled = [r \in Requests |-> {}]
    /\ releases = << >>
    /\ holder = Nobody
    /\ future = "none" /\ victims = << >> /\ freed = 0
    /\ transfers = {} /\ result = << >>

-----------------------------------------------------------------------------
(* Helpers: block lists, nodes and paths.                                  *)

\* allocate_gpu_blocks, allocate_cpu_blocks: the n smallest of a heap
Allocate(free, n) ==
    [i \in 1 .. n |-> CHOOSE b \in free :
                        Cardinality({c \in free : c < b}) = i - 1]

IsGpuLeaf(t, n) ==
    t[n].status = "GPU" /\ \A k \in t[n].kids : t[k].status # "GPU"
IsCpuLeaf(t, n) == t[n].status = "CPU" /\ t[n].kids = {}

\* a node and its ancestors below the root, as the loops over .parent visit them
PathUp(n) ==
    LET up[i \in 0 .. tree[n].depth] ==
            IF i = 0 THEN n ELSE tree[up[i - 1]].parent
    IN  {up[i] : i \in 0 .. tree[n].depth} \ {Root}

Child(n, k) ==
    IF \E m \in tree[n].kids : tree[m].key = k
    THEN CHOOSE m \in tree[n].kids : tree[m].key = k
    ELSE NoNode

\* match_block: the nodes that agree with the prompt, from the root down
MatchedNodes(r) ==
    LET p == Prompt[r]
        at[i \in 0 .. Len(p)] ==
            IF i = 0 THEN Root
            ELSE IF at[i - 1] = NoNode THEN NoNode ELSE Child(at[i - 1], p[i])
        d == CHOOSE i \in 0 .. Len(p) : /\ at[i] # NoNode
                                        /\ i = Len(p) \/ at[i + 1] = NoNode
    IN  [i \in 1 .. d |-> at[i]]

LastOf(m) == IF m = << >> THEN Root ELSE m[Len(m)]
InGpuOrLeaving == {n \in DOMAIN tree : tree[n].status \in {"GPU", "SWAP2CPU"}}
OnCpu == {n \in DOMAIN tree : tree[n].status = "CPU"}
MatchedGpu(r) == Kept(MatchedNodes(r), InGpuOrLeaving)
MatchedCpu(r) == Kept(MatchedNodes(r), OnCpu)
BlocksOf(s) == [i \in DOMAIN s |-> tree[s[i]].block]

\* objects that nothing refers to any more
Unreferenced ==
    {n \in Nodes \ node_map :
        /\ \A m \in node_map : tree[m].parent # n
        /\ \A r \in Requests : n \notin {req_leaf_map[r], cache_info[r]}}

-----------------------------------------------------------------------------
\* a node that is swapped out stays so
MatchedTreeStillLeaving(r) ==
    [n \in DOMAIN tree |->
        IF n \notin Range(MatchedNodes(r)) THEN tree[n]
        ELSE [tree[n] EXCEPT !.status = IF @ = "CPU" THEN "SWAP2GPU" ELSE @,
                             !.shared = @ + 1]]

\* only nodes on the GPU are counted
MatchedTreeCountsGpu(r) ==
    [n \in DOMAIN tree |->
        IF n \notin Range(MatchedNodes(r)) THEN tree[n]
        ELSE [tree[n] EXCEPT
                !.status = CASE @ = "SWAP2CPU" -> "GPU"
                             [] @ = "CPU" -> "SWAP2GPU"
                             [] OTHER -> @,
                !.shared = IF tree[n].status = "GPU" THEN @ + 1 ELSE @]]

(* match_block and _update_matched_node_info: the matched nodes leave the  *)
(* LRU heaps, change state, and are counted once more.                     *)
MatchedTree(r) ==
    [n \in DOMAIN tree |->
        IF n \notin Range(MatchedNodes(r)) THEN tree[n]
        ELSE [tree[n] EXCEPT
                !.status = CASE @ = "SWAP2CPU" -> "GPU"
                             [] @ = "CPU" -> "SWAP2GPU"
                             [] OTHER -> @,
                !.shared = @ + 1]]

MatchLeaves(r) ==
    /\ gpu_lru' = gpu_lru \ Range(MatchedNodes(r))
    /\ cpu_lru' = cpu_lru \ Range(MatchedNodes(r))

(* _prepare_cpu_cache: swap the matched CPU blocks into the GPU blocks     *)
(* "to"; the caller waits for the result and keeps the lock.               *)
IssueSwapIn(r, to) ==
    transfers' = transfers \cup
        {[type |-> "SWAP2GPU", for |-> r,
          items |-> [i \in DOMAIN MatchedCpu(r) |->
                        [node |-> MatchedCpu(r)[i], gpu |-> to[i],
                         cpu |-> tree[MatchedCpu(r)[i]].block]]]}

(* build_path: one node per full block after the first "from" ones, below  *)
(* "last" in the tree t; the blocks left over (of the unfilled block and   *)
(* for decoding) are reserved by the last node, or by the request when     *)
(* there is none.  MaxNodes bounds the objects that can be created.        *)
BuildPath(t, r, last, from, ids, dec) ==
    LET k == Len(Prompt[r]) - from
        new == Allocate(Unreferenced, k)
        leaf == IF k = 0 THEN last ELSE new[k]
        spare == {ids[i] : i \in k + 1 ..
                             k + dec + (IF r \in Unfilled THEN 1 ELSE 0)}
        key(i) == Prompt[r][from + i]
        node(i) == [parent |-> IF i = 1 THEN last ELSE new[i - 1],
                    key |-> key(i), depth |-> t[last].depth + i,
                    block |-> ids[i], status |-> "GPU", shared |-> 1,
                    reserved |-> IF i = k THEN spare ELSE {},
                    kids |-> IF i = k THEN {} ELSE {new[i + 1]},
                    input |-> Prompt[r]]
        above == [t[last] EXCEPT
                    !.kids = IF k = 0 THEN @
                             ELSE {m \in @ : t[m].key # key(1)} \cup {new[1]},
                    !.reserved = IF leaf = last /\ last # Root
                                 THEN @ \cup spare ELSE @]
    IN  /\ k <= Cardinality(Unreferenced)
        /\ tree' = [n \in DOMAIN t |->
                        IF \E i \in 1 .. k : new[i] = n
                        THEN node(CHOOSE i \in 1 .. k : new[i] = n)
                        ELSE IF n = last THEN above ELSE t[n]]
        /\ node_map' = node_map \cup Range(new)
        /\ req_leaf_map' = [req_leaf_map EXCEPT ![r] = leaf]
        /\ unfilled' = [unfilled EXCEPT ![r] = IF leaf = Root THEN spare ELSE @]

-----------------------------------------------------------------------------
(* release_block_ids, run by the single thread of executor_pool.  A        *)
(* request without a leaf raises KeyError, which nobody looks at.          *)
ReleaseBlockIds ==
    /\ releases # << >> /\ holder = Nobody
    /\ releases' = Tail(releases)
    /\ LET r == Head(releases)
           leaf == req_leaf_map[r]
           t == [n \in DOMAIN tree |-> IF n \in PathUp(leaf)
                    THEN [tree[n] EXCEPT !.shared = @ - 1] ELSE tree[n]]
       IN  IF leaf = NoNode
           THEN UNCHANGED <<req_leaf_map, cache_info, unfilled, tree, gpu_lru, gpu_free>>
           ELSE /\ req_leaf_map' = [req_leaf_map EXCEPT ![r] = NoNode]
                /\ cache_info' = [cache_info EXCEPT ![r] = NoNode]
                /\ tree' = t
                /\ gpu_free' = gpu_free \cup
                                 (IF leaf = Root THEN unfilled[r] ELSE {})
                /\ unfilled' = [unfilled EXCEPT ![r] = IF leaf = Root THEN {} ELSE @]
                /\ gpu_lru' = IF leaf # Root /\ t[leaf].shared = 0 /\ IsGpuLeaf(t, leaf)
                              THEN gpu_lru \cup {leaf} ELSE gpu_lru
    /\ UNCHANGED <<cpu_free, node_map, cpu_lru, holder, evictVars, swapVars>>

-----------------------------------------------------------------------------
(* free_block_ids_async, called by check_and_free_block_tables.            *)
WithoutCpu == ~Hierarchical \/ NumCpu < MaxSeqBlocks

\* the finished future of the last eviction is not cleared
FreeStartOnce ==
    /\ Cardinality(gpu_free) < MaxSeqBlocks
    /\ holder = Nobody /\ future = "none" /\ gpu_lru # {}
    /\ holder' = "free_gpu" /\ freed' = 0
    /\ UNCHANGED <<poolVars, treeVars, reqVars, swapVars, victims, future>>

FreeStart ==
    /\ Cardinality(gpu_free) < MaxSeqBlocks
    /\ holder = Nobody
    /\ future \in {"none", "done"}
    /\ gpu_lru # {}
    /\ holder' = "free_gpu" /\ future' = "none" /\ freed' = 0
    /\ UNCHANGED <<poolVars, treeVars, reqVars, swapVars, victims>>

\* the node is freed at once, or queued to be swapped to the CPU
Detached(n) ==
    LET p == tree[n].parent
    IN  [tree EXCEPT ![n].status = "CPU", ![n].reserved = {},
                     ![p].kids = {m \in @ : tree[m].key # tree[n].key}]
LeavingKeepsReserved(n) == [tree EXCEPT ![n].status = "SWAP2CPU"]
Leaving(n) == [tree EXCEPT ![n].status = "SWAP2CPU", ![n].reserved = {}]

\* grouped by the prompt that built the node; each group is issued reversed
AddVictim(vs, n) ==
    LET same == {i \in DOMAIN vs : tree[vs[i].node].input = tree[n].input}
        at == IF same = {} THEN Len(vs) + 1
              ELSE CHOOSE i \in same : \A j \in same : i <= j
    IN  InsertAt(vs, at, [node |-> n, gpu |-> tree[n].block])

\* the root becomes a candidate too
PushParentEvenRoot(t, n, rest) ==
    LET p == t[n].parent
    IN  IF t[p].shared = 0 /\ IsGpuLeaf(t, p) THEN rest \cup {p} ELSE rest

\* only a parent without children becomes a candidate, as without CPU blocks
PushParentChildless(t, n, rest) ==
    LET p == t[n].parent
    IN  IF p # Root /\ t[p].kids = {} /\ t[p].shared = 0 /\ IsGpuLeaf(t, p)
        THEN rest \cup {p} ELSE rest

\* the parent of an evicted node becomes a candidate itself
PushParent(t, n, rest) ==
    LET p == t[n].parent
    IN  IF /\ WithoutCpu => t[p].kids = {}
           /\ p # Root /\ t[p].shared = 0 /\ IsGpuLeaf(t, p)
        THEN rest \cup {p} ELSE rest

FreeVictim ==
    /\ holder = "free_gpu" /\ freed < MaxSeqBlocks
    /\ \E n \in gpu_lru :
        LET t == IF WithoutCpu THEN Detached(n) ELSE Leaving(n)
            back == tree[n].reserved \cup
                      (IF WithoutCpu THEN {tree[n].block} ELSE {})
        IN  IF tree[n].shared = 0 /\ IsGpuLeaf(tree, n)
            THEN /\ tree' = t
                 /\ freed' = freed + 1
                 /\ gpu_free' = gpu_free \cup back
                 /\ node_map' = IF WithoutCpu THEN node_map \ {n} ELSE node_map
                 /\ victims' = IF WithoutCpu THEN victims ELSE AddVictim(victims, n)
                 /\ gpu_lru' = PushParent(t, n, gpu_lru \ {n})
            ELSE /\ gpu_lru' = gpu_lru \ {n}
                 /\ UNCHANGED <<tree, freed, gpu_free, node_map, victims>>
    /\ UNCHANGED <<cpu_free, cpu_lru, reqVars, swapVars, holder, future>>

\* no room is made on the CPU first
FreeEndStraightOn ==
    /\ holder = "free_gpu"
    /\ gpu_lru = {} \/ freed >= MaxSeqBlocks
    /\ holder' = Nobody
    /\ future' = IF victims = << >> THEN "none" ELSE "evict"
    /\ UNCHANGED <<poolVars, treeVars, reqVars, swapVars, victims, freed>>

FreeEnd ==
    /\ holder = "free_gpu"
    /\ gpu_lru = {} \/ freed >= MaxSeqBlocks
    /\ holder' = Nobody
    /\ future' = IF victims = << >> THEN "none"
                 ELSE IF freed > Cardinality(cpu_free) THEN "free_cpu" ELSE "evict"
    /\ UNCHANGED <<poolVars, treeVars, reqVars, swapVars, victims, freed>>

(* free_cpu_block_ids, in free_cpu_executor_pool.  The count it is given   *)
(* is at least MaxSeqBlocks, so "freed" may start again from 0.            *)
FreeCpuStart ==
    /\ future = "free_cpu" /\ holder = Nobody
    /\ holder' = "free_cpu" /\ freed' = 0
    /\ UNCHANGED <<poolVars, treeVars, reqVars, swapVars, victims, future>>

FreeCpuVictim ==
    /\ holder = "free_cpu" /\ freed < MaxSeqBlocks
    /\ \E n \in cpu_lru :
        LET p == tree[n].parent
            t == [tree EXCEPT ![p].kids = {m \in @ : tree[m].key # tree[n].key}]
        IN  IF tree[n].shared = 0 /\ IsCpuLeaf(tree, n)
            THEN /\ tree' = t
                 /\ freed' = freed + 1
                 /\ cpu_free' = cpu_free \cup {tree[n].block}
                 /\ node_map' = node_map \ {n}
                 /\ cpu_lru' = IF p # Root /\ t[p].shared = 0 /\ IsCpuLeaf(t, p)
                               THEN (cpu_lru \ {n}) \cup {p} ELSE cpu_lru \ {n}
            ELSE /\ cpu_lru' = cpu_lru \ {n}
                 /\ UNCHANGED <<tree, freed, cpu_free, node_map>>
    /\ UNCHANGED <<gpu_free, gpu_lru, reqVars, swapVars, holder, future, victims>>

FreeCpuEnd ==
    /\ holder = "free_cpu"
    /\ cpu_lru = {} \/ freed >= MaxSeqBlocks
    /\ holder' = Nobody /\ future' = "evict"
    /\ UNCHANGED <<poolVars, treeVars, reqVars, swapVars, victims, freed>>

(* _evict_cache_async, in free_gpu_executor_pool.  Too few CPU blocks fail *)
(* the assertion of allocate_cpu_blocks: the future holds the exception.   *)
EvictCacheAsync ==
    /\ future = "evict"
    /\ LET to == Allocate(cpu_free, Len(victims))
       IN  IF Len(victims) <= Cardinality(cpu_free)
           THEN /\ future' = "swap"
                /\ cpu_free' = cpu_free \ Range(to)
                /\ transfers' = transfers \cup
                     {[type |-> "SWAP2CPU", for |-> Nobody,
                       items |-> [i \in DOMAIN victims |->
                                    [node |-> victims[i].node,
                                     gpu |-> victims[i].gpu, cpu |-> to[i]]]]}
           ELSE future' = "failed" /\ UNCHANGED <<cpu_free, transfers>>
    /\ victims' = << >>
    /\ UNCHANGED <<gpu_free, treeVars, reqVars, holder, freed, result>>

-----------------------------------------------------------------------------
(* recv_data_transfer_result: a finished task is taken, its nodes are      *)
(* handled one by one, and then whoever waits for it is woken.             *)
TakeResult ==
    /\ result = << >>
    /\ \E t \in transfers : result' = <<t>> /\ transfers' = transfers \ {t}
    /\ UNCHANGED <<poolVars, treeVars, reqVars, evictVars, holder>>

\* the CPU block of a result: given back unless the node now lives there
CpuGivenBackNotIfReused(toCpu, reused, it) == IF toCpu THEN {} ELSE {it.cpu}
CpuGivenBack(toCpu, reused, it) == IF toCpu /\ ~reused THEN {} ELSE {it.cpu}

\* _handle_swap_result
HandleSwapResult ==
    /\ result # << >> /\ result[1].items # << >>
    /\ LET it == Head(result[1].items)
           n == it.node
           toCpu == result[1].type = "SWAP2CPU"
           reused == toCpu /\ tree[n].status = "GPU"
           t == CASE reused -> tree
                  [] toCpu /\ ~reused ->
                       [tree EXCEPT ![n].status = "CPU", ![n].block = it.cpu]
                  [] OTHER -> [tree EXCEPT ![n].status = "GPU", ![n].block = it.gpu]
       IN  /\ n \in node_map
           /\ tree' = t
           /\ cpu_lru' = IF /\ toCpu /\ ~reused
                            /\ tree[n].shared = 0 /\ IsCpuLeaf(t, n)
                         THEN cpu_lru \cup {n} ELSE cpu_lru
           /\ gpu_free' = IF toCpu /\ ~reused THEN gpu_free \cup {it.gpu} ELSE gpu_free
           /\ cpu_free' = cpu_free \cup CpuGivenBack(toCpu, reused, it)
    /\ result' = <<[result[1] EXCEPT !.items = Tail(@)]>>
    /\ UNCHANGED <<node_map, gpu_lru, reqVars, evictVars, transfers, holder>>

\* task_swapping_event.set() for an eviction: its future is done
EvictionDone ==
    /\ result # << >> /\ result[1].items = << >> /\ result[1].for = Nobody
    /\ result' = << >> /\ future' = "done"
    /\ UNCHANGED <<poolVars, treeVars, reqVars, victims, freed, transfers, holder>>
=============================================================================
