------------------------ MODULE PrefixCacheV0Proofs ------------------------
(***************************************************************************)
(* PrefixCacheV0 for every pool, prompt and block size: blocks are owned   *)
(* once on both media, counts are the numbers of users, a running request  *)
(* keeps the blocks of its prompt, unused leaves can be evicted and the    *)
(* eviction finds room.                                                    *)
(***************************************************************************)
EXTENDS PrefixCacheV0, ListOpsProofs, FunctionTheorems

-----------------------------------------------------------------------------
(* The parts of the inductive invariant.                                   *)

\* t links the nodes of L to the root and back
Linked(t, L) ==
    /\ t[Root].depth = 0
    /\ \A n \in L : /\ t[n].parent \in L \cup {Root}
                    /\ n \in t[t[n].parent].kids
                    /\ t[n].depth = t[t[n].parent].depth + 1
    /\ \A n \in L \cup {Root} : \A m \in t[n].kids : m \in L /\ t[m].parent = n
    /\ \A n \in L \cup {Root} : \A m1, m2 \in t[n].kids : t[m1].key = t[m2].key => m1 = m2

\* PathUp in the tree t
PathIn(t, n) ==
    LET up[i \in 0 .. t[n].depth] ==
            IF i = 0 THEN n ELSE t[up[i - 1]].parent
    IN  {up[i] : i \in 0 .. t[n].depth} \ {Root}

TreeInv ==
    /\ Linked(tree, node_map)
    /\ tree[Root].status = "GPU" /\ tree[Root].shared = 0

Item == [node : Nodes, gpu : GpuBlocks, cpu : CpuBlocks]
Task == [type : {"SWAP2CPU", "SWAP2GPU"}, for : Requests \cup {Nobody}, items : Seq(Item)]
Victim == [node : Nodes, gpu : GpuBlocks]

SwapTypes ==
    /\ transfers \subseteq Task
    /\ result \in Seq(Task) /\ Len(result) <= 1
    /\ victims \in Seq(Victim)
    /\ \A t \in InFlight : t.type = "SWAP2CPU" <=> t.for = Nobody

OneTask ==
    /\ \A t, u \in InFlight : t.for = u.for => t = u
    /\ result # << >> => result[1] \notin transfers

Waits ==
    /\ future = "swap" <=> \E t \in InFlight : t.for = Nobody
    /\ \A r \in Requests : state[r] = "swapping" <=> holder = r
    /\ \A r \in Requests : holder = r <=> \E t \in InFlight : t.for = r

Distinct(items) ==
    \A i, j \in DOMAIN items : i # j => /\ items[i].node # items[j].node
                                        /\ items[i].gpu # items[j].gpu
                                        /\ items[i].cpu # items[j].cpu

OutItems == UNION {ItemsOf(t) : t \in {u \in InFlight : u.for = Nobody}}
InItems == UNION {ItemsOf(t) : t \in {u \in InFlight : u.for # Nobody}}
OutNodes == {it.node : it \in OutItems}
InNodes == {it.node : it \in InItems}
VictimNodes == {victims[i].node : i \in DOMAIN victims}

ItemsInv ==
    /\ \A t \in InFlight : Distinct(t.items)
    /\ \A it \in OutItems : /\ it.node \in node_map
                            /\ tree[it.node].status \in {"SWAP2CPU", "GPU"}
                            /\ tree[it.node].block = it.gpu
    /\ \A it \in InItems : /\ it.node \in node_map
                           /\ tree[it.node].status = "SWAP2GPU"
                           /\ tree[it.node].block = it.cpu

VictimsInv ==
    /\ \A i \in DOMAIN victims : /\ victims[i].node \in node_map
                                 /\ tree[victims[i].node].status \in {"SWAP2CPU", "GPU"}
                                 /\ tree[victims[i].node].block = victims[i].gpu
                                 /\ holder = "free_gpu" => tree[victims[i].node].status = "SWAP2CPU"
    /\ \A i, j \in DOMAIN victims : victims[i].node = victims[j].node => i = j

StatusInv ==
    /\ \A n \in node_map : tree[n].status = "SWAP2CPU" => n \in VictimNodes \cup OutNodes
    /\ \A n \in node_map : tree[n].status = "SWAP2GPU" => n \in InNodes
    /\ \A n \in node_map :
        LET p == tree[n].parent
        IN  /\ tree[p].status \in {"CPU", "SWAP2CPU"} => tree[n].status \in {"CPU", "SWAP2CPU"}
            /\ tree[p].status = "CPU" /\ tree[n].status = "SWAP2CPU" => n \in OutNodes

PhaseInv ==
    /\ victims # << >> => holder = "free_gpu" \/ future \in {"free_cpu", "evict"}
    /\ holder = "free_gpu" => future = "none"
    /\ holder = "free_cpu" => future = "free_cpu"
    /\ WithoutCpu => /\ \A n \in node_map : tree[n].status = "GPU"
                     /\ victims = << >> /\ InFlight = {}
                     /\ future \notin {"free_cpu", "evict"}

RoomInv ==
    /\ holder = "free_gpu" => (~WithoutCpu => freed = Len(victims))
    /\ holder = "free_cpu" => freed <= Cardinality(cpu_free)
    /\ Len(victims) <= MaxSeqBlocks
    /\ future = "evict" => Len(victims) <= Cardinality(cpu_free)
    /\ future # "failed"

\* a leaf whose path holds the first blocks of r's prompt
OnPrompt(r, leaf) ==
    /\ leaf \in node_map \cup {Root}
    /\ tree[leaf].depth <= Len(Prompt[r])
    /\ \A n \in PathIn(tree, leaf) : tree[n].key = Prompt[r][tree[n].depth]

BlocksAt(S) == {tree[n].block : n \in S}
TableSet(r, d) == {table[r][i] : i \in 1 .. d}

NewInv(r) ==
    state[r] = "new" =>
        req_leaf_map[r] = NoNode /\ cache_info[r] = NoNode /\ unfilled[r] = {}

SwappingInv(r) ==
    state[r] = "swapping" =>
        LET last == cache_info[r]
            path == PathIn(tree, last)
            d == tree[last].depth
        IN  /\ req_leaf_map[r] = NoNode /\ unfilled[r] = {}
            /\ OnPrompt(r, last) /\ last # Root
            /\ Len(table[r]) = BlockNum(r)
            /\ \A n \in path : tree[n].status \in {"GPU", "SWAP2GPU"}
            /\ InNodes \subseteq path
            /\ d = Len(Prompt[r]) \/ \A m \in tree[last].kids : tree[m].key # Prompt[r][d + 1]
            /\ \A i, j \in d + 1 .. Len(table[r]) : i # j => table[r][i] # table[r][j]
            /\ \A i \in d + 1 .. Len(table[r]) : \A it \in InItems : table[r][i] # it.gpu
            /\ TableSet(r, d) = BlocksAt({n \in path : tree[n].status = "GPU"})
                                  \cup {it.gpu : it \in InItems}

AdmittedInv(r) ==
    state[r] \in {"running", "ended"} =>
        /\ cache_info[r] = NoNode
        /\ state[r] = "running" => req_leaf_map[r] # NoNode
        /\ req_leaf_map[r] # NoNode =>
             /\ req_leaf_map[r] \in node_map \cup {Root}
             /\ \A n \in PathIn(tree, req_leaf_map[r]) : tree[n].status = "GPU"

RunningInv(r) ==
    state[r] = "running" =>
        /\ OnPrompt(r, req_leaf_map[r])
        /\ tree[req_leaf_map[r]].depth = Len(Prompt[r])
        /\ TableSet(r, Len(Prompt[r])) = BlocksAt(PathIn(tree, req_leaf_map[r]))

ReqInv ==
    /\ state \in [Requests -> {"new", "swapping", "running", "ended"}]
    /\ table \in [Requests -> Seq(GpuBlocks)]
    /\ \A i \in DOMAIN releases : state[releases[i]] = "ended"
    /\ \A r \in Requests : NewInv(r) /\ SwappingInv(r) /\ AdmittedInv(r) /\ RunningInv(r)

Users(n) == {r \in Requests : Uses(r, n)}
CountInv ==
    \A n \in node_map : IsFiniteSet(Users(n)) /\ tree[n].shared = Cardinality(Users(n))

LruInv ==
    /\ \A n \in gpu_lru : n \in node_map /\ tree[n].status = "GPU" /\ tree[n].shared = 0
    /\ \A n \in cpu_lru : n \in node_map /\ tree[n].status = "CPU" /\ tree[n].shared = 0
    /\ \A n \in node_map : tree[n].shared = 0 =>
        /\ IsGpuLeaf(tree, n) => n \in gpu_lru
        /\ IsCpuLeaf(tree, n) => n \in cpu_lru

\* a node in use is on the GPU or on its way there; only on the GPU it reserves blocks
UsedInv ==
    \A n \in node_map : /\ tree[n].shared # 0 => tree[n].status \in {"GPU", "SWAP2GPU"}
                        /\ tree[n].status # "GPU" => tree[n].reserved = {}

\* blocks that are owned once: b is in B when some owner has it, and no two have
OwnedOnce(F, Owners, B) ==
    /\ \A b : b \in B <=> \E t \in Owners : b \in F[t]
    /\ \A s, t \in Owners : s # t => F[s] \cap F[t] = {}

FreeList == <<"free", Root>>
GpuOwners == {FreeList} \cup {"node", "reserved"} \X Nodes \cup {"unfilled", "pending"} \X Requests
GpuLayout ==
    [o \in GpuOwners |->
        IF o = FreeList THEN gpu_free
        ELSE IF o[1] = "node" THEN IF o[2] \in Resident THEN {tree[o[2]].block} ELSE {}
        ELSE IF o[1] = "reserved" THEN IF o[2] \in node_map THEN tree[o[2]].reserved ELSE {}
        ELSE IF o[1] = "unfilled" THEN unfilled[o[2]]
        ELSE Pending(o[2])]

SwapOut == <<"task", Root>>
CpuOwners == {FreeList, SwapOut} \cup {"node"} \X Nodes
CpuLayout ==
    [o \in CpuOwners |->
        IF o = FreeList THEN cpu_free
        ELSE IF o = SwapOut THEN {it.cpu : it \in OutItems}
        ELSE IF o[2] \in node_map \ Resident THEN {tree[o[2]].block} ELSE {}]

OwnInv ==
    /\ OwnedOnce(GpuLayout, GpuOwners, GpuBlocks)
    /\ OwnedOnce(CpuLayout, CpuOwners, CpuBlocks)

IInv ==
    /\ TypeOK /\ TreeInv /\ SwapTypes /\ OneTask /\ Waits
    /\ ItemsInv /\ VictimsInv /\ StatusInv /\ PhaseInv /\ RoomInv
    /\ ReqInv /\ CountInv /\ LruInv /\ UsedInv /\ OwnInv

-----------------------------------------------------------------------------
(* Allocate returns n different elements of the heap.                      *)
Below(S, b) == {c \in S : c < b}

(* S has an element with k smaller ones, for each k below its size.        *)
LEMMA BelowExists ==
    \A N \in Nat : \A S \in SUBSET (0 .. N - 1) : \A k \in Nat :
        /\ IsFiniteSet(S)
        /\ k < Cardinality(S) => \E b \in S : Cardinality(Below(S, b)) = k
<1> DEFINE Has(S) == /\ IsFiniteSet(S)
                     /\ \A k \in Nat : k < Cardinality(S) => \E b \in S : Cardinality(Below(S, b)) = k
           D == {N \in Nat : \A S \in SUBSET (0 .. N - 1) : Has(S)}
<1>1. 0 \in D
  <2> SUFFICES ASSUME NEW S \in SUBSET (0 .. 0 - 1) PROVE Has(S)
    OBVIOUS
  <2>1. S = {}
    OBVIOUS
  <2>2. IsFiniteSet(S) /\ Cardinality(S) = 0
    BY <2>1, FS_EmptySet
  <2> QED BY <2>2
<1>2. ASSUME NEW N \in Nat, N \in D PROVE N + 1 \in D
  <2> SUFFICES ASSUME NEW S \in SUBSET (0 .. (N + 1) - 1) PROVE Has(S)
    BY <1>2
  <2> DEFINE T == S \ {N}
  <2>1. T \in SUBSET (0 .. N - 1)
    BY <1>2
  <2>2. Has(T)
    BY <1>2, <2>1
  <2> DEFINE m == Cardinality(T)
  <2>3. IsFiniteSet(T) /\ m \in Nat
    BY <2>2, FS_CardinalityType
  <2>4. ASSUME NEW b \in T PROVE Below(S, b) = Below(T, b)
    <3>1. b \in Int /\ b < N
      BY <1>2, <2>1
    <3>2. \A c \in S : c < b => c \in T
      BY <3>1, <1>2
    <3> QED BY <3>2 DEF Below
  <2>5. CASE N \notin S
    <3>1. S = T
      BY <2>5
    <3> QED BY <2>2, <3>1
  <2>6. CASE N \in S
    <3>1. S = T \cup {N} /\ N \notin T
      BY <2>6
    <3>2. IsFiniteSet(S) /\ Cardinality(S) = m + 1
      <4> HIDE DEF T
      <4> QED BY <2>3, <3>1, FS_AddElement
    <3>3. Below(S, N) = T
      <4>1. \A c \in S : c < N <=> c # N
        BY <1>2
      <4> QED BY <4>1 DEF Below
    <3>4. ASSUME NEW k \in Nat, k < m + 1 PROVE \E b \in S : Cardinality(Below(S, b)) = k
      <4>1. CASE k = m
        BY <2>6, <3>3, <4>1
      <4>2. CASE k < m
        <5>1. PICK b \in T : Cardinality(Below(T, b)) = k
          BY <2>2, <4>2
        <5> QED BY <2>4, <5>1
      <4> QED BY <2>3, <3>4, <4>1, <4>2
    <3> HIDE DEF T
    <3> QED BY <2>3, <3>2, <3>4
  <2> QED BY <2>5, <2>6
<1> HIDE DEF D
<1>3. \A N \in Nat : N \in D
  BY <1>1, <1>2, SetInduction
<1> QED BY <1>3 DEF D

(* allocate_gpu_blocks hands out n different free blocks.                  *)
LEMMA AllocateFacts ==
    ASSUME NEW N \in Nat, NEW S \in SUBSET (0 .. N), NEW n \in Nat, n <= Cardinality(S)
    PROVE  /\ Allocate(S, n) \in [1 .. n -> S]
           /\ \A i, j \in 1 .. n : i # j => Allocate(S, n)[i] # Allocate(S, n)[j]
           /\ Allocate(S, n) \in Seq(S) /\ Len(Allocate(S, n)) = n
<1> DEFINE a == Allocate(S, n)
           P(b, i) == Cardinality(Below(S, b)) = i - 1
<1>1. IsFiniteSet(S) /\ \A k \in Nat : k < Cardinality(S) => \E b \in S : Cardinality(Below(S, b)) = k
  <2>1. S \in SUBSET (0 .. (N + 1) - 1) /\ N + 1 \in Nat
    OBVIOUS
  <2> QED BY <2>1, BelowExists
<1>2. Cardinality(S) \in Nat
  BY <1>1, FS_CardinalityType
<1>3. a = [i \in 1 .. n |-> CHOOSE b \in S : P(b, i)]
  BY DEF Allocate, Below
<1>4. ASSUME NEW i \in 1 .. n PROVE a[i] \in S /\ P(a[i], i)
  <2>1. i - 1 \in Nat /\ i - 1 < Cardinality(S)
    BY <1>2
  <2>2. \E b \in S : P(b, i)
    BY <1>1, <2>1
  <2> HIDE DEF P
  <2>3. (CHOOSE b \in S : P(b, i)) \in S /\ P(CHOOSE b \in S : P(b, i), i)
    BY <2>2
  <2> QED BY <1>3, <2>3
<1>5. a \in [1 .. n -> S]
  <2> HIDE DEF P
  <2> QED BY <1>3, <1>4
<1>6. ASSUME NEW i \in 1 .. n, NEW j \in 1 .. n, i # j PROVE a[i] # a[j]
  BY <1>4, <1>6
<1> HIDE DEF a
<1>7. a \in Seq(S) /\ Len(a) = n
  BY <1>5
<1> QED BY <1>5, <1>6, <1>7 DEF a

-----------------------------------------------------------------------------
(* What the parts of a list without repetitions hold. *)
LEMMA KeptOnce ==
    ASSUME NEW T, NEW seq \in Seq(T), NEW S,
           \A i, j \in 1 .. Len(seq) : seq[i] = seq[j] => i = j
    PROVE  \A i, j \in 1 .. Len(Kept(seq, S)) : Kept(seq, S)[i] = Kept(seq, S)[j] => i = j
<1> DEFINE k == Kept(seq, S)
<1>1. k \in Seq(T) /\ InRankOrder(k, seq, S)
  BY KeptFacts
<1> HIDE DEF k
<1>2. \A x \in 1 .. Len(k) : \E i \in 1 .. Len(seq) : k[x] = seq[i] /\ Rank(seq, S, i) = x
  BY <1>1 DEF InRankOrder
<1>3. ASSUME NEW x \in 1 .. Len(k), NEW y \in 1 .. Len(k), k[x] = k[y] PROVE x = y
  BY <1>2, <1>3
<1> QED BY <1>3 DEF k

(* Two complementary selections share out a list.                          *)
LEMMA KeptSplit ==
    ASSUME NEW T, NEW seq \in Seq(T), NEW A, NEW B,
           \A i \in 1 .. Len(seq) : seq[i] \in A <=> seq[i] \notin B
    PROVE  /\ Len(Kept(seq, A)) \in Nat /\ Len(Kept(seq, B)) \in Nat
           /\ Len(Kept(seq, A)) + Len(Kept(seq, B)) = Len(seq)
<1> DEFINE L == Len(seq)
           D == {n \in Nat : n <= L => Rank(seq, A, n) + Rank(seq, B, n) = n}
<1>1. L \in Nat
  BY LenProperties
<1>2. \A n \in Nat : Rank(seq, A, n) \in Nat /\ Rank(seq, B, n) \in Nat
  BY RankSteps
<1>3. 0 \in D
  BY RankZero
<1>4. ASSUME NEW n \in Nat, n \in D PROVE n + 1 \in D
  <2> SUFFICES ASSUME n + 1 <= L PROVE Rank(seq, A, n + 1) + Rank(seq, B, n + 1) = n + 1
    OBVIOUS
  <2>1. Rank(seq, A, n) + Rank(seq, B, n) = n
    BY <1>1, <1>4
  <2>2. seq[n + 1] \in A <=> seq[n + 1] \notin B
    BY <1>1
  <2>3. /\ seq[n + 1] \in A => Rank(seq, A, n + 1) = Rank(seq, A, n) + 1
        /\ seq[n + 1] \notin A => Rank(seq, A, n + 1) = Rank(seq, A, n)
        /\ seq[n + 1] \in B => Rank(seq, B, n + 1) = Rank(seq, B, n) + 1
        /\ seq[n + 1] \notin B => Rank(seq, B, n + 1) = Rank(seq, B, n)
    BY RankSteps
  <2>4. Rank(seq, A, n) \in Nat /\ Rank(seq, B, n) \in Nat
    BY <1>2
  <2>5. CASE seq[n + 1] \in A
    BY <2>1, <2>2, <2>3, <2>4, <2>5
  <2>6. CASE seq[n + 1] \notin A
    BY <2>1, <2>2, <2>3, <2>4, <2>6
  <2> QED BY <2>5, <2>6
<1> HIDE DEF D
<1>5. \A n \in Nat : n \in D
  BY <1>3, <1>4, SetInduction
<1>6. Rank(seq, A, L) + Rank(seq, B, L) = L
  BY <1>1, <1>5 DEF D
<1>7. Len(Kept(seq, A)) = Rank(seq, A, L) /\ Len(Kept(seq, B)) = Rank(seq, B, L)
  BY KeptFacts DEF InRankOrder
<1> QED BY <1>1, <1>2, <1>6, <1>7

(* A selection holds the elements of the list that are in S.               *)
LEMMA KeptMembers ==
    ASSUME NEW T, NEW seq \in Seq(T), NEW S
    PROVE  /\ Kept(seq, S) \in Seq(T)
           /\ Range(Kept(seq, S)) = Range(seq) \cap S
<1>1. Kept(seq, S) \in Seq(T)
  BY KeptFacts
<1> QED BY <1>1, KeptRange DEF Range

-----------------------------------------------------------------------------
(* Blocks that are handed from one owner to others stay owned once. *)
\* S, owned by p, goes to the others, to t its part A[t]
HandsOut(F, G, A, Owners, p, S) ==
    /\ p \in Owners /\ S \subseteq F[p] /\ G[p] = F[p] \ S
    /\ \A t \in Owners : t # p => G[t] = F[t] \cup A[t] /\ A[t] \subseteq S
    /\ \A b \in S : \E t \in Owners : t # p /\ b \in A[t]
    /\ \A s, t \in Owners : s # p /\ t # p /\ s # t => A[s] \cap A[t] = {}

(* What S loses its owner p for, the others gain, each its part.           *)
LEMMA HandedOut ==
    ASSUME NEW F, NEW G, NEW A, NEW Owners, NEW B, OwnedOnce(F, Owners, B),
           NEW p, NEW S, HandsOut(F, G, A, Owners, p, S)
    PROVE  OwnedOnce(G, Owners, B)
<1>0. /\ p \in Owners /\ S \subseteq F[p] /\ G[p] = F[p] \ S
      /\ \A t \in Owners : t # p => G[t] = F[t] \cup A[t] /\ A[t] \subseteq S
      /\ \A b \in S : \E t \in Owners : t # p /\ b \in A[t]
      /\ \A s, t \in Owners : s # p /\ t # p /\ s # t => A[s] \cap A[t] = {}
  BY DEF HandsOut
<1>1. ASSUME NEW b PROVE b \in B <=> \E t \in Owners : b \in G[t]
  <2>1. CASE b \in S
    BY <1>0, <2>1 DEF OwnedOnce
  <2>2. CASE b \notin S
    <3>1. \A t \in Owners : b \in G[t] <=> b \in F[t]
      BY <1>0, <2>2
    <3> QED BY <3>1 DEF OwnedOnce
  <2> QED BY <2>1, <2>2
<1>2. ASSUME NEW s \in Owners, NEW t \in Owners, s # t PROVE G[s] \cap G[t] = {}
  <2>0. F[s] \cap F[t] = {} /\ F[s] \cap F[p] = (IF s = p THEN F[p] ELSE {})
        /\ F[t] \cap F[p] = (IF t = p THEN F[p] ELSE {})
    BY <1>0, <1>2 DEF OwnedOnce
  <2>1. CASE s = p
    BY <1>0, <1>2, <2>0, <2>1
  <2>2. CASE t = p
    BY <1>0, <1>2, <2>0, <2>2
  <2>3. CASE s # p /\ t # p
    <3>1. A[s] \cap A[t] = {} /\ A[s] \subseteq F[p] /\ A[t] \subseteq F[p]
      BY <1>0, <1>2, <2>3
    <3> QED BY <1>0, <2>0, <2>3, <3>1
  <2> QED BY <2>1, <2>2, <2>3
<1> QED BY <1>1, <1>2 DEF OwnedOnce

(* One owner gives S to another.                                           *)
LEMMA HandedOver ==
    ASSUME NEW F, NEW G, NEW Owners, NEW B, OwnedOnce(F, Owners, B),
           NEW p \in Owners, NEW q \in Owners, p # q,
           NEW S, S \subseteq F[p], G[p] = F[p] \ S, G[q] = F[q] \cup S,
           \A t \in Owners : t # p /\ t # q => G[t] = F[t]
    PROVE  OwnedOnce(G, Owners, B)
<1>1. ASSUME NEW b PROVE b \in B <=> \E t \in Owners : b \in G[t]
  <2>1. CASE b \in S
    BY <2>1 DEF OwnedOnce
  <2>2. CASE b \notin S
    <3>1. \A t \in Owners : b \in G[t] <=> b \in F[t]
      BY <2>2
    <3> QED BY <3>1 DEF OwnedOnce
  <2> QED BY <2>1, <2>2
<1>2. ASSUME NEW s \in Owners, NEW t \in Owners, s # t PROVE G[s] \cap G[t] = {}
  <2>1. \A u, v \in Owners : u # v => F[u] \cap F[v] = {}
    BY DEF OwnedOnce
  <2>2. ASSUME NEW u \in Owners, u # p, u # q PROVE G[p] \cap G[u] = {} /\ G[q] \cap G[u] = {}
    <3>1. F[u] \cap F[p] = {} /\ F[u] \cap F[q] = {} /\ G[u] = F[u]
      BY <2>1, <2>2
    <3> QED BY <3>1
  <2>3. G[p] \cap G[q] = {}
    <3>1. F[p] \cap F[q] = {}
      BY <2>1
    <3> QED BY <3>1
  <2>4. CASE s \in {p, q} \/ t \in {p, q}
    BY <1>2, <2>2, <2>3, <2>4
  <2>5. CASE ~(s \in {p, q} \/ t \in {p, q})
    BY <1>2, <2>1, <2>5
  <2> QED BY <2>4, <2>5
<1> QED BY <1>1, <1>2 DEF OwnedOnce

(* Owners that keep what they have.                                        *)
LEMMA SameOwners ==
    ASSUME NEW F, NEW G, NEW Owners, NEW B, OwnedOnce(F, Owners, B),
           \A t \in Owners : G[t] = F[t]
    PROVE  OwnedOnce(G, Owners, B)
  BY DEF OwnedOnce

-----------------------------------------------------------------------------
(* Paths in a tree: what the loops over .parent visit.                     *)
Rooted(t, L) ==
    /\ Linked(t, L) /\ Root \notin L
    /\ \A n \in L \cup {Root} : t[n].depth \in Nat

(* What holds of the root and of every child of a node it holds of, holds  *)
(* of every node.                                                          *)
LEMMA TreeInduction ==
    ASSUME NEW t, NEW L, Rooted(t, L), NEW S, Root \in S,
           \A n \in L : t[n].parent \in S => n \in S
    PROVE  \A n \in L \cup {Root} : n \in S
<1> DEFINE D == {d \in Nat : \A n \in L \cup {Root} : t[n].depth = d => n \in S}
<1>1. 0 \in D
  <2>1. ASSUME NEW n \in L, t[n].depth = 0 PROVE FALSE
    <3>1. t[t[n].parent].depth \in Nat /\ t[n].depth = t[t[n].parent].depth + 1
      BY DEF Rooted, Linked
    <3> QED BY <2>1, <3>1
  <2> QED BY <2>1
<1>2. ASSUME NEW d \in Nat, d \in D PROVE d + 1 \in D
  <2> SUFFICES ASSUME NEW n \in L \cup {Root}, t[n].depth = d + 1 PROVE n \in S
    OBVIOUS
  <2>1. n \in L
    BY DEF Rooted, Linked
  <2>2. /\ t[n].parent \in L \cup {Root} /\ t[t[n].parent].depth \in Nat
        /\ t[n].depth = t[t[n].parent].depth + 1
    BY <2>1 DEF Rooted, Linked
  <2>3. t[t[n].parent].depth = d
    BY <2>2
  <2> QED BY <1>2, <2>1, <2>2, <2>3
<1> HIDE DEF D
<1>3. \A d \in Nat : d \in D
  BY <1>1, <1>2, SetInduction
<1> QED BY <1>3 DEF D, Rooted

(* The recursion of PathIn has a solution, and visits n, its parent, ...   *)
LEMMA PathVisits ==
    ASSUME NEW t, NEW n, t[n].depth \in Nat
    PROVE  \E f : /\ f[0] = n
                  /\ \A i \in 1 .. t[n].depth : f[i] = t[f[i - 1]].parent
                  /\ PathIn(t, n) = {f[i] : i \in 0 .. t[n].depth} \ {Root}
<1> DEFINE L == t[n].depth
           step(g, i) == IF i = 0 THEN n ELSE t[g[i - 1]].parent
           fix(g, d) == g = [i \in 0 .. d |-> step(g, i)]
           D == {d \in Nat : \E g : fix(g, d)}
<1>1. 0 \in D
  <2> DEFINE g == [i \in 0 .. 0 |-> n]
  <2>1. fix(g, 0)
    OBVIOUS
  <2> HIDE DEF fix, g
  <2> QED BY <2>1
<1>2. ASSUME NEW d \in Nat, d \in D PROVE d + 1 \in D
  <2> HIDE DEF fix
  <2>1. PICK g : fix(g, d)
    BY <1>2
  <2> DEFINE f == [i \in 0 .. d + 1 |-> IF i = d + 1 THEN t[g[d]].parent ELSE g[i]]
  <2>2. f[d + 1] = t[g[d]].parent /\ \A i \in 0 .. d : f[i] = g[i]
    BY <1>2
  <2>3. f = [i \in 0 .. d + 1 |-> f[i]]
    OBVIOUS
  <2>4. \A i \in 0 .. d : g[i] = step(g, i)
    BY <2>1 DEF fix
  <2> HIDE DEF f
  <2>5. ASSUME NEW i \in 0 .. d + 1 PROVE f[i] = step(f, i)
    <3>1. CASE i = d + 1
      <4>1. f[d] = g[d] /\ (d + 1) - 1 = d /\ d + 1 # 0
        BY <2>2
      <4> QED BY <2>2, <3>1, <4>1
    <3>2. CASE i \in 0 .. d
      <4>1. i # 0 => i - 1 \in 0 .. d
        BY <3>2
      <4> QED BY <2>2, <2>4, <3>2, <4>1
    <3> QED BY <3>1, <3>2
  <2>6. fix(f, d + 1)
    BY <2>3, <2>5 DEF fix
  <2> QED BY <2>6
<1> HIDE DEF D, fix
<1>3. \E g : fix(g, L)
  <2>1. \A d \in Nat : d \in D
    BY <1>1, <1>2, SetInduction
  <2> QED BY <2>1 DEF D
<1> DEFINE up == CHOOSE g : fix(g, L)
<1>4. fix(up, L)
  BY <1>3
<1>5. PathIn(t, n) = {up[i] : i \in 0 .. L} \ {Root}
  BY DEF PathIn, fix
<1> HIDE DEF up
<1>6. \A i \in 0 .. L : up[i] = step(up, i)
  BY <1>4 DEF fix
<1> HIDE DEF L
<1>7. L \in Nat
  BY DEF L
<1>8. up[0] = n
  BY <1>6, <1>7
<1>9. \A i \in 1 .. L : up[i] = t[up[i - 1]].parent
  BY <1>6, <1>7
<1> QED BY <1>5, <1>8, <1>9 DEF L

(* The path of a node is the node and the path of its parent. *)
LEMMA PathStep ==
    ASSUME NEW t, NEW L, Rooted(t, L), NEW n \in L
    PROVE  PathIn(t, n) = {n} \cup PathIn(t, t[n].parent)
<1> DEFINE p == t[n].parent
           d == t[p].depth
<1>1. t[n].depth = d + 1 /\ d \in Nat /\ d + 1 \in Nat
  BY DEF Rooted, Linked
<1>2. PICK f : /\ f[0] = n
               /\ \A i \in 1 .. d + 1 : f[i] = t[f[i - 1]].parent
               /\ PathIn(t, n) = {f[i] : i \in 0 .. d + 1} \ {Root}
  BY <1>1, PathVisits
<1>3. PICK g : /\ g[0] = p
               /\ \A i \in 1 .. d : g[i] = t[g[i - 1]].parent
               /\ PathIn(t, p) = {g[i] : i \in 0 .. d} \ {Root}
  BY <1>1, PathVisits
<1> DEFINE S == {i \in Nat : i <= d => f[i + 1] = g[i]}
<1> HIDE DEF p, d
<1>4. 0 \in S
  <2>1. 1 \in 1 .. d + 1 /\ 0 + 1 = 1 /\ 1 - 1 = 0
    BY <1>1
  <2>2. f[1] = t[f[0]].parent
    BY <1>2, <2>1
  <2> QED BY <1>2, <1>3, <2>1, <2>2 DEF p
<1>5. ASSUME NEW i \in Nat, i \in S PROVE i + 1 \in S
  <2> SUFFICES ASSUME i + 1 <= d PROVE f[(i + 1) + 1] = g[i + 1]
    OBVIOUS
  <2>1. (i + 1) + 1 \in 1 .. d + 1 /\ ((i + 1) + 1) - 1 = i + 1 /\ i + 1 \in 1 .. d /\ (i + 1) - 1 = i
        /\ i <= d
    BY <1>1
  <2>2. f[(i + 1) + 1] = t[f[i + 1]].parent
    BY <1>2, <2>1
  <2>3. g[i + 1] = t[g[i]].parent
    BY <1>3, <2>1
  <2> QED BY <1>5, <2>1, <2>2, <2>3
<1> HIDE DEF S
<1>6. \A i \in Nat : i \in S
  BY <1>4, <1>5, SetInduction
<1>7. \A i \in 0 .. d : f[i + 1] = g[i]
  BY <1>1, <1>6 DEF S
<1>8. \A i \in 0 .. d + 1 : i = 0 \/ (i - 1 \in 0 .. d /\ (i - 1) + 1 = i)
  BY <1>1
<1>9. \A i \in 0 .. d : i + 1 \in 0 .. d + 1
  BY <1>1
<1>10. {f[i] : i \in 0 .. d + 1} = {n} \cup {g[i] : i \in 0 .. d}
  <2>1. ASSUME NEW i \in 0 .. d + 1 PROVE f[i] \in {n} \cup {g[j] : j \in 0 .. d}
    BY <1>2, <1>7, <1>8
  <2>2. ASSUME NEW i \in 0 .. d PROVE g[i] \in {f[j] : j \in 0 .. d + 1}
    BY <1>7, <1>9
  <2>3. n \in {f[j] : j \in 0 .. d + 1}
    BY <1>1, <1>2
  <2> QED BY <2>1, <2>2, <2>3
<1>11. n # Root
  BY DEF Rooted
<1> QED BY <1>2, <1>3, <1>10, <1>11 DEF p

(* The path of the root is empty.                                          *)
LEMMA PathRoot ==
    ASSUME NEW t, NEW L, Rooted(t, L)
    PROVE  PathIn(t, Root) = {}
<1>1. t[Root].depth = 0
  BY DEF Rooted, Linked
<1>2. PICK f : /\ f[0] = Root
               /\ PathIn(t, Root) = {f[i] : i \in 0 .. 0} \ {Root}
  BY <1>1, PathVisits
<1>3. \A i \in 0 .. 0 : i = 0
  OBVIOUS
<1> QED BY <1>2, <1>3

(* A path stays among the linked nodes and holds one node of each depth. *)
PathShape(t, L, n) ==
    LET P == PathIn(t, n)
    IN  /\ P \subseteq L
        /\ n # Root => n \in P
        /\ \A m \in P : t[m].parent \in P \cup {Root}
        /\ \A m \in P : t[m].depth \in 1 .. t[n].depth
        /\ \A i \in 1 .. t[n].depth : \E m \in P : t[m].depth = i
        /\ \A m1, m2 \in P : t[m1].depth = t[m2].depth => m1 = m2

(* Every path has that shape.                                              *)
LEMMA PathShapes ==
    ASSUME NEW t, NEW L, Rooted(t, L)
    PROVE  \A n \in L \cup {Root} : PathShape(t, L, n)
<1> DEFINE S == {n \in L \cup {Root} : PathShape(t, L, n)}
<1>1. Root \in S
  <2>1. PathIn(t, Root) = {} /\ t[Root].depth = 0
    BY PathRoot DEF Rooted, Linked
  <2> QED BY <2>1 DEF PathShape
<1>2. ASSUME NEW n \in L, t[n].parent \in S PROVE n \in S
  <2> DEFINE p == t[n].parent
             P == PathIn(t, n)
             Q == PathIn(t, p)
  <2>1. P = {n} \cup Q
    BY PathStep
  <2>2. /\ t[n].depth = t[p].depth + 1 /\ t[p].depth \in Nat /\ n # Root
        /\ p \in L \cup {Root}
    BY DEF Rooted, Linked
  <2>3. PathShape(t, L, p)
    BY <1>2
  <2>4. /\ Q \subseteq L
        /\ p # Root => p \in Q
        /\ \A m \in Q : t[m].parent \in Q \cup {Root}
        /\ \A m \in Q : t[m].depth \in 1 .. t[p].depth
        /\ \A i \in 1 .. t[p].depth : \E m \in Q : t[m].depth = i
        /\ \A m1, m2 \in Q : t[m1].depth = t[m2].depth => m1 = m2
    BY <2>3 DEF PathShape
  <2> HIDE DEF p, P, Q
  <2>5. P \subseteq L /\ n \in P
    BY <2>1, <2>4
  <2>6. \A m \in P : t[m].parent \in P \cup {Root}
    BY <2>1, <2>4 DEF p
  <2>7. \A m \in P : t[m].depth \in 1 .. t[n].depth
    BY <2>1, <2>2, <2>4
  <2>8. ASSUME NEW i \in 1 .. t[n].depth PROVE \E m \in P : t[m].depth = i
    <3>1. i = t[n].depth \/ i \in 1 .. t[p].depth
      BY <2>2
    <3> QED BY <2>1, <2>4, <3>1
  <2>9. ASSUME NEW m1 \in P, NEW m2 \in P, t[m1].depth = t[m2].depth PROVE m1 = m2
    <3>1. \A m \in Q : t[m].depth # t[n].depth
      BY <2>2, <2>4
    <3> QED BY <2>1, <2>4, <2>9, <3>1
  <2>10. PathShape(t, L, n)
    BY <2>5, <2>6, <2>7, <2>8, <2>9 DEF PathShape, P
  <2> QED BY <2>10
<1> HIDE DEF S
<1>3. \A n \in L \cup {Root} : n \in S
  BY <1>1, <1>2, TreeInduction
<1> QED BY <1>3 DEF S

(* A tree that keeps parents and depths on a path keeps the path. *)
LEMMA PathKept ==
    ASSUME NEW t, NEW L, Rooted(t, L), NEW u, NEW K, Rooted(u, K), NEW n \in L \cup {Root},
           \A m \in PathIn(t, n) : m \in K /\ u[m].parent = t[m].parent
    PROVE  PathIn(u, n) = PathIn(t, n)
<1> DEFINE S == {m \in L \cup {Root} : PathIn(t, m) \subseteq PathIn(t, n) => PathIn(u, m) = PathIn(t, m)}
<1>1. Root \in S
  BY PathRoot
<1>2. ASSUME NEW m \in L, t[m].parent \in S PROVE m \in S
  <2> SUFFICES ASSUME PathIn(t, m) \subseteq PathIn(t, n) PROVE PathIn(u, m) = PathIn(t, m)
    OBVIOUS
  <2>1. PathIn(t, m) = {m} \cup PathIn(t, t[m].parent)
    BY PathStep
  <2>2. m \in K /\ u[m].parent = t[m].parent
    BY <2>1
  <2>3. PathIn(u, m) = {m} \cup PathIn(u, u[m].parent)
    BY <2>2, PathStep
  <2>4. PathIn(u, t[m].parent) = PathIn(t, t[m].parent)
    BY <1>2, <2>1
  <2> QED BY <2>1, <2>2, <2>3, <2>4
<1> HIDE DEF S
<1>3. \A m \in L \cup {Root} : m \in S
  BY <1>1, <1>2, TreeInduction
<1> QED BY <1>3 DEF S

(* The path of a node on the path is a part of it. *)
LEMMA PathPart ==
    ASSUME NEW t, NEW L, Rooted(t, L), NEW n \in L \cup {Root}, NEW m \in PathIn(t, n)
    PROVE  PathIn(t, m) \subseteq PathIn(t, n)
<1> DEFINE S == {k \in L \cup {Root} : k \in PathIn(t, n) \cup {Root} => PathIn(t, k) \subseteq PathIn(t, n)}
<1>0. PathShape(t, L, n)
  BY PathShapes
<1>1. Root \in S
  BY PathRoot
<1>2. ASSUME NEW k \in L, t[k].parent \in S PROVE k \in S
  <2> SUFFICES ASSUME k \in PathIn(t, n) PROVE PathIn(t, k) \subseteq PathIn(t, n)
    BY DEF Rooted
  <2>1. t[k].parent \in PathIn(t, n) \cup {Root}
    BY <1>0 DEF PathShape
  <2>2. PathIn(t, t[k].parent) \subseteq PathIn(t, n)
    BY <1>2, <2>1
  <2> QED BY <2>2, PathStep
<1> HIDE DEF S
<1>3. \A k \in L \cup {Root} : k \in S
  BY <1>1, <1>2, TreeInduction
<1>4. m \in L
  BY <1>0 DEF PathShape
<1> QED BY <1>3, <1>4 DEF S

(* No node is deeper than there are nodes. *)
LEMMA DepthBound ==
    ASSUME NEW t, NEW L, Rooted(t, L), NEW N \in Nat, L \subseteq 1 .. N
    PROVE  \A n \in L \cup {Root} : t[n].depth \in 0 .. N
<1> SUFFICES ASSUME NEW n \in L \cup {Root} PROVE t[n].depth \in 0 .. N
  OBVIOUS
<1> DEFINE d == t[n].depth
           P == PathIn(t, n)
           f == [i \in 1 .. d |-> CHOOSE m \in P : t[m].depth = i]
<1>1. PathShape(t, L, n) /\ d \in Nat
  BY PathShapes DEF Rooted
<1>2. P \subseteq 1 .. N /\ \A i \in 1 .. d : \E m \in P : t[m].depth = i
  BY <1>1 DEF PathShape
<1> HIDE DEF d, P
<1>3. \A i \in 1 .. d : f[i] \in P /\ t[f[i]].depth = i
  BY <1>2
<1>4. f \in [1 .. d -> 1 .. N]
  BY <1>2, <1>3
<1>5. \A i, j \in 1 .. d : f[i] = f[j] => i = j
  BY <1>3
<1> HIDE DEF f
<1>6. f \in Injection(1 .. d, 1 .. N)
  BY <1>4, <1>5 DEF Injection, IsInjective
<1>7. IsFiniteSet(1 .. N) /\ Cardinality(1 .. N) = N /\ Cardinality(1 .. d) = d
  BY <1>1, FS_Interval
<1>8. Cardinality(1 .. d) <= Cardinality(1 .. N)
  BY <1>6, <1>7, FS_Injection
<1> QED BY <1>1, <1>7, <1>8 DEF d

-----------------------------------------------------------------------------
(* What match_block finds: the path that holds the longest prefix of the   *)
(* prompt that is in the tree.                                             *)
MatchShape(m, p) ==
    /\ m \in Seq(node_map) /\ Len(m) <= Len(p)
    /\ \A i \in 1 .. Len(m) : /\ tree[m[i]].key = p[i] /\ tree[m[i]].depth = i
                              /\ tree[m[i]].parent = IF i = 1 THEN Root ELSE m[i - 1]
    /\ Len(m) < Len(p) => \A k \in tree[LastOf(m)].kids : tree[k].key # p[Len(m) + 1]

(* A child is found by its key, when there is one.                         *)
LEMMA ChildFacts ==
    ASSUME NEW n, NEW k
    PROVE  \/ Child(n, k) = NoNode /\ \A m \in tree[n].kids : tree[m].key # k
           \/ Child(n, k) \in tree[n].kids /\ tree[Child(n, k)].key = k
  BY DEF Child

(* The walk of match_block goes down from the root while it finds          *)
(* children.                                                               *)
LEMMA MatchWalks ==
    ASSUME NEW r, Len(Prompt[r]) \in Nat
    PROVE  \E f : /\ f[0] = Root
                  /\ \A i \in 1 .. Len(Prompt[r]) :
                        f[i] = IF f[i - 1] = NoNode THEN NoNode ELSE Child(f[i - 1], Prompt[r][i])
                  /\ MatchedNodes(r) =
                       LET d == CHOOSE i \in 0 .. Len(Prompt[r]) :
                                    f[i] # NoNode /\ (i = Len(Prompt[r]) \/ f[i + 1] = NoNode)
                       IN  [i \in 1 .. d |-> f[i]]
<1> DEFINE p == Prompt[r]
           L == Len(p)
           step(g, i) == IF i = 0 THEN Root
                         ELSE IF g[i - 1] = NoNode THEN NoNode ELSE Child(g[i - 1], p[i])
           fix(g, d) == g = [i \in 0 .. d |-> step(g, i)]
           D == {d \in Nat : \E g : fix(g, d)}
<1>1. 0 \in D
  <2> DEFINE g == [i \in 0 .. 0 |-> Root]
  <2>1. fix(g, 0)
    OBVIOUS
  <2> HIDE DEF fix, g
  <2> QED BY <2>1
<1>2. ASSUME NEW d \in Nat, d \in D PROVE d + 1 \in D
  <2> HIDE DEF fix
  <2>1. PICK g : fix(g, d)
    BY <1>2
  <2> DEFINE f == [i \in 0 .. d + 1 |-> IF i = d + 1 THEN step(g, d + 1) ELSE g[i]]
  <2>2. f[d + 1] = step(g, d + 1) /\ \A i \in 0 .. d : f[i] = g[i]
    <3> HIDE DEF step
    <3> QED BY <1>2
  <2>3. f = [i \in 0 .. d + 1 |-> f[i]]
    OBVIOUS
  <2>4. \A i \in 0 .. d : g[i] = step(g, i)
    BY <2>1 DEF fix
  <2> HIDE DEF f
  <2>5. ASSUME NEW i \in 0 .. d + 1 PROVE f[i] = step(f, i)
    <3>1. CASE i = d + 1
      <4>1. f[d] = g[d] /\ (d + 1) - 1 = d /\ d + 1 # 0
        BY <2>2
      <4> QED BY <2>2, <3>1, <4>1
    <3>2. CASE i \in 0 .. d
      <4>1. i # 0 => i - 1 \in 0 .. d
        BY <3>2
      <4> QED BY <2>2, <2>4, <3>2, <4>1
    <3> QED BY <3>1, <3>2
  <2>6. fix(f, d + 1)
    BY <2>3, <2>5 DEF fix
  <2> QED BY <2>6
<1> HIDE DEF D, fix
<1>3. \E g : fix(g, L)
  <2>1. \A d \in Nat : d \in D
    BY <1>1, <1>2, SetInduction
  <2> QED BY <2>1 DEF D
<1> DEFINE at == CHOOSE g : fix(g, L)
<1>4. fix(at, L)
  BY <1>3
<1>5. MatchedNodes(r) = LET d == CHOOSE i \in 0 .. L : at[i] # NoNode /\ (i = L \/ at[i + 1] = NoNode)
                        IN  [i \in 1 .. d |-> at[i]]
  BY DEF MatchedNodes, fix
<1> HIDE DEF at
<1>6. \A i \in 0 .. L : at[i] = step(at, i)
  BY <1>4 DEF fix
<1>7. L \in Nat
  OBVIOUS
<1>8. at[0] = Root
  BY <1>6, <1>7
<1>9. \A i \in 1 .. L : at[i] = IF at[i - 1] = NoNode THEN NoNode ELSE Child(at[i - 1], p[i])
  BY <1>6, <1>7
<1> QED BY <1>5, <1>8, <1>9

(* What it returns has that shape.                                         *)
LEMMA MatchedShape ==
    ASSUME NEW r \in Requests, Rooted(tree, node_map), node_map \subseteq Nodes
    PROVE  MatchShape(MatchedNodes(r), Prompt[r])
<1>2. NoNode # Root /\ NoNode \notin node_map
  <2>1. \A n \in Nodes : n \in 0 .. MaxNodes
    BY CacheAssumption DEF Nodes
  <2>2. 0 \in 0 .. MaxNodes
    BY CacheAssumption
  <2> QED BY <2>1, <2>2, NamesAssumption DEF Root
<1> DEFINE p == Prompt[r]
           L == Len(p)
<1>0. L \in Nat
  <2>1. Prompt[r] \in Seq(Range(Prompt[r]))
    BY CacheAssumption
  <2> QED BY <2>1, LenProperties
<1>1. PICK f : /\ f[0] = Root
               /\ \A i \in 1 .. L : f[i] = IF f[i - 1] = NoNode THEN NoNode ELSE Child(f[i - 1], p[i])
               /\ MatchedNodes(r) =
                       LET d == CHOOSE i \in 0 .. L : f[i] # NoNode /\ (i = L \/ f[i + 1] = NoNode)
                       IN  [i \in 1 .. d |-> f[i]]
  BY <1>0, MatchWalks
<1> HIDE DEF p, L
<1> DEFINE ok(i) == /\ f[i] \in node_map \cup {Root}
                    /\ \A j \in 1 .. i : /\ f[j] \in node_map /\ tree[f[j]].key = p[j]
                                         /\ tree[f[j]].depth = j /\ tree[f[j]].parent = f[j - 1]
           D == {i \in Nat : i <= L => f[i] = NoNode \/ (tree[f[i]].depth = i /\ ok(i))}
<1>3. 0 \in D
  BY <1>1, <1>2 DEF Rooted, Linked
<1>4. ASSUME NEW i \in Nat, i \in D PROVE i + 1 \in D
  <2> SUFFICES ASSUME i + 1 <= L, f[i + 1] # NoNode
               PROVE  tree[f[i + 1]].depth = i + 1 /\ ok(i + 1)
    OBVIOUS
  <2>1. i + 1 \in 1 .. L /\ (i + 1) - 1 = i /\ i <= L
    BY <1>0
  <2>2. f[i] # NoNode /\ f[i + 1] = Child(f[i], p[i + 1])
    BY <1>1, <2>1
  <2>3. tree[f[i]].depth = i /\ ok(i)
    BY <1>4, <2>1, <2>2
  <2>4. f[i + 1] \in tree[f[i]].kids /\ tree[f[i + 1]].key = p[i + 1]
    BY <2>2, ChildFacts
  <2>5. f[i + 1] \in node_map /\ tree[f[i + 1]].parent = f[i]
    BY <2>3, <2>4 DEF Rooted, Linked
  <2>6. tree[f[i + 1]].depth = i + 1
    BY <2>3, <2>5 DEF Rooted, Linked
  <2>7. \A j \in 1 .. i + 1 : j \in 1 .. i \/ j = i + 1
    OBVIOUS
  <2> QED BY <2>1, <2>3, <2>4, <2>5, <2>6, <2>7
<1> DEFINE T == {i \in 0 .. L : i = L \/ f[i + 1] = NoNode}
<1>5. \A i \in Nat : i \in D
  <2> HIDE DEF D
  <2> QED BY <1>3, <1>4, SetInduction
<1>60. T \subseteq Nat /\ T # {}
  <2>1. L \in T
    BY <1>0
  <2> QED BY <2>1, <1>0
<1>6. PICK e \in T : \A i \in T : e <= i
  <2> HIDE DEF T
  <2> QED BY <1>60, LeastNat
<1>7. f[e] # NoNode
  <2>1. CASE e = 0
    BY <2>1, <1>1, <1>2
  <2>2. CASE e # 0
    <3>1. e - 1 \in 0 .. L /\ e - 1 \notin T /\ (e - 1) + 1 = e
      BY <1>0, <1>6, <2>2
    <3> QED BY <3>1
  <2> QED BY <2>1, <2>2
<1> DEFINE d == CHOOSE i \in 0 .. L : f[i] # NoNode /\ (i = L \/ f[i + 1] = NoNode)
<1>8. d \in 0 .. L /\ f[d] # NoNode /\ (d = L \/ f[d + 1] = NoNode)
  BY <1>6, <1>7
<1>9. MatchedNodes(r) = [i \in 1 .. d |-> f[i]]
  BY <1>1
<1> HIDE DEF d
<1>10. d \in Nat /\ d <= L /\ tree[f[d]].depth = d /\ ok(d)
  BY <1>0, <1>5, <1>8
<1> DEFINE m == MatchedNodes(r)
<1>11. m \in Seq(node_map) /\ Len(m) = d /\ \A i \in 1 .. d : m[i] = f[i]
  BY <1>9, <1>10
<1>12. LastOf(m) = f[d]
  <2>1. CASE d = 0
    <3>1. m = << >>
      BY <2>1, <1>11
    <3> QED BY <3>1, <2>1, <1>1 DEF LastOf
  <2>2. CASE d # 0
    <3>1. m # << >> /\ d \in 1 .. d
      BY <2>2, <1>10, <1>11
    <3> QED BY <3>1, <1>11 DEF LastOf
  <2> QED BY <2>1, <2>2
<1> HIDE DEF m
<1>13. ASSUME NEW i \in 1 .. d
       PROVE  /\ tree[m[i]].key = p[i] /\ tree[m[i]].depth = i
              /\ tree[m[i]].parent = IF i = 1 THEN Root ELSE m[i - 1]
  <2>1. tree[f[i]].key = p[i] /\ tree[f[i]].depth = i /\ tree[f[i]].parent = f[i - 1]
    BY <1>10
  <2>2. i # 1 => i - 1 \in 1 .. d
    BY <1>10
  <2> QED BY <2>1, <2>2, <1>1, <1>11
<1>14. ASSUME d < L, NEW k \in tree[f[d]].kids PROVE tree[k].key # p[d + 1]
  <2>1. f[d + 1] = NoNode /\ d + 1 \in 1 .. L /\ (d + 1) - 1 = d
    BY <1>0, <1>8, <1>10, <1>14
  <2>2. Child(f[d], p[d + 1]) = NoNode
    BY <1>1, <1>8, <2>1
  <2>3. \A q \in tree[f[d]].kids : q # NoNode
    BY <1>2, <1>10 DEF Rooted, Linked
  <2> QED BY <2>2, <2>3, ChildFacts
<1> HIDE DEF ok
<1> QED BY <1>10, <1>11, <1>12, <1>13, <1>14 DEF MatchShape, p, m, L

(* The matched nodes are the path to the last of them. *)
LEMMA MatchedPath ==
    ASSUME Rooted(tree, node_map), NEW m, NEW p, Len(p) \in Nat, MatchShape(m, p)
    PROVE  /\ LastOf(m) \in node_map \cup {Root}
           /\ Len(m) \in Nat /\ tree[LastOf(m)].depth = Len(m)
           /\ PathIn(tree, LastOf(m)) = Range(m)
           /\ \A i, j \in 1 .. Len(m) : m[i] = m[j] => i = j
           /\ m = << >> <=> LastOf(m) = Root
<1> DEFINE d == Len(m)
           P == PathIn(tree, LastOf(m))
<1>1. /\ m \in Seq(node_map) /\ d \in Nat /\ d <= Len(p)
      /\ \A i \in 1 .. d : m[i] \in node_map
      /\ \A i \in 1 .. d : /\ tree[m[i]].depth = i
                           /\ tree[m[i]].parent = IF i = 1 THEN Root ELSE m[i - 1]
  BY LenProperties, ElementOfSeq DEF MatchShape
<1>2. \A i, j \in 1 .. d : m[i] = m[j] => i = j
  BY <1>1
<1>3. Range(m) = {m[i] : i \in 1 .. d}
  BY <1>1 DEF Range
<1>4. Root \notin node_map
  BY DEF Rooted
<1> HIDE DEF d
<1>5. CASE m = << >>
  <2>1. d = 0 /\ LastOf(m) = Root
    BY <1>5 DEF d, LastOf
  <2>2. P = {}
    BY <2>1, PathRoot
  <2>3. Range(m) = {}
    BY <2>1, <1>3
  <2>4. tree[Root].depth = 0
    BY DEF Rooted, Linked
  <2> QED BY <1>2, <1>5, <2>1, <2>2, <2>3, <2>4 DEF d
<1>6. CASE m # << >>
  <2>1. d # 0
    BY <1>1, <1>6, EmptySeq DEF d
  <2>2. d \in 1 .. d /\ LastOf(m) = m[d]
    BY <1>1, <1>6, <2>1 DEF LastOf, d
  <2>3. LastOf(m) \in node_map /\ tree[LastOf(m)].depth = d
    BY <1>1, <2>2
  <2>4. PathShape(tree, node_map, LastOf(m))
    BY <2>3, PathShapes
  <2>5. /\ LastOf(m) \in P
        /\ \A q \in P : tree[q].parent \in P \cup {Root}
        /\ \A q \in P : tree[q].depth \in 1 .. d
        /\ \A q1, q2 \in P : tree[q1].depth = tree[q2].depth => q1 = q2
    BY <1>4, <2>3, <2>4 DEF PathShape
  <2> HIDE DEF P
  <2> DEFINE D == {j \in Nat : j < d => m[d - j] \in P}
  <2>6. 0 \in D
    BY <1>1, <2>2, <2>5
  <2>7. ASSUME NEW j \in Nat, j \in D PROVE j + 1 \in D
    <3> SUFFICES ASSUME j + 1 < d PROVE m[d - (j + 1)] \in P
      OBVIOUS
    <3>1. d - j \in 1 .. d /\ d - j # 1 /\ (d - j) - 1 = d - (j + 1) /\ d - (j + 1) \in 1 .. d
      BY <1>1
    <3>2. m[d - j] \in P
      BY <1>1, <2>7
    <3>3. tree[m[d - j]].parent = m[d - (j + 1)] /\ m[d - (j + 1)] \in node_map
      BY <1>1, <3>1
    <3> QED BY <1>4, <2>5, <3>2, <3>3
  <2>8. \A j \in Nat : j \in D
    <3> HIDE DEF D
    <3> QED BY <2>6, <2>7, SetInduction
  <2>9. ASSUME NEW i \in 1 .. d PROVE m[i] \in P
    <3>1. d - i \in Nat /\ d - i < d /\ d - (d - i) = i
      BY <1>1
    <3> QED BY <2>8, <3>1
  <2>10. ASSUME NEW q \in P PROVE \E i \in 1 .. d : q = m[i]
    <3>1. tree[q].depth \in 1 .. d
      BY <2>5
    <3> QED BY <1>1, <2>5, <2>9, <3>1
  <2>11. P = Range(m)
    BY <1>3, <2>9, <2>10
  <2> QED BY <1>1, <1>2, <1>4, <1>6, <2>3, <2>11 DEF d, P
<1> QED BY <1>5, <1>6

(* Some node of a set is deepest. *)
LEMMA Deepest ==
    ASSUME NEW t, NEW L, Rooted(t, L), NEW N \in Nat, L \subseteq 1 .. N,
           NEW S, S \subseteq L, S # {}
    PROVE  \E n \in S : \A m \in S : t[m].depth <= t[n].depth
<1> DEFINE T == {N - t[n].depth : n \in S}
<1>1. \A n \in S : t[n].depth \in 0 .. N
  BY DepthBound
<1>2. T \subseteq Nat /\ T # {}
  <2>1. ASSUME NEW n \in S PROVE N - t[n].depth \in Nat
    BY <1>1
  <2> QED BY <2>1
<1>3. PICK e \in T : \A i \in T : e <= i
  <2> HIDE DEF T
  <2> QED BY <1>2, LeastNat
<1>4. PICK n \in S : e = N - t[n].depth
  BY <1>3
<1>5. \A m \in S : N - t[n].depth <= N - t[m].depth
  BY <1>3, <1>4
<1> QED BY <1>1, <1>5

-----------------------------------------------------------------------------
(* What the invariant says, as the steps below need it.                    *)
LEMMA InvRooted ==
    ASSUME IInv
    PROVE  Rooted(tree, node_map)
<1>1. node_map \subseteq Nodes /\ tree \in [{Root} \cup Nodes -> NodeRecord] /\ Linked(tree, node_map)
  BY DEF IInv, TypeOK, TreeInv
<1>2. Root \notin node_map
  BY <1>1, CacheAssumption DEF Nodes, Root
<1>3. \A n \in node_map \cup {Root} : tree[n].depth \in Nat
  BY <1>1, CacheAssumption DEF NodeRecord
<1> QED BY <1>1, <1>2, <1>3 DEF Rooted

(* A request uses the path of its leaf, or of the node its swap is for.    *)
LEMMA UsesPaths ==
    ASSUME NEW r, NEW n
    PROVE  Uses(r, n) <=> \/ req_leaf_map[r] # NoNode /\ n \in PathIn(tree, req_leaf_map[r])
                          \/ state[r] = "swapping" /\ n \in PathIn(tree, cache_info[r])
  BY DEF Uses, PathUp, PathIn

(* The same after a step.                                                  *)
LEMMA UsesPathsNext ==
    ASSUME NEW r, NEW n
    PROVE  Uses(r, n)' <=> \/ req_leaf_map'[r] # NoNode /\ n \in PathIn(tree', req_leaf_map'[r])
                           \/ state'[r] = "swapping" /\ n \in PathIn(tree', cache_info'[r])
  BY DEF Uses, PathUp, PathIn

(* The nodes that requests refer to are in the tree.                       *)
LEMMA LeafPlaces ==
    ASSUME IInv, NEW r \in Requests
    PROVE  /\ req_leaf_map[r] # NoNode => req_leaf_map[r] \in node_map \cup {Root} /\ state[r] \in {"running", "ended"}
           /\ state[r] = "swapping" => cache_info[r] \in node_map /\ req_leaf_map[r] = NoNode
           /\ \A n : Uses(r, n) => n \in node_map
<1>1. NewInv(r) /\ SwappingInv(r) /\ AdmittedInv(r) /\ state[r] \in {"new", "swapping", "running", "ended"}
  BY DEF IInv, ReqInv
<1>2. req_leaf_map[r] # NoNode => req_leaf_map[r] \in node_map \cup {Root} /\ state[r] \in {"running", "ended"}
  BY <1>1 DEF NewInv, SwappingInv, AdmittedInv
<1>3. state[r] = "swapping" => cache_info[r] \in node_map /\ req_leaf_map[r] = NoNode
  BY <1>1 DEF SwappingInv, OnPrompt
<1>4. \A n \in node_map \cup {Root} : PathIn(tree, n) \subseteq node_map
  BY InvRooted, PathShapes DEF PathShape
<1> QED BY <1>2, <1>3, <1>4, UsesPaths

(* No request uses a node that none is counted for.                        *)
LEMMA Unused ==
    ASSUME IInv, NEW n \in node_map, tree[n].shared = 0
    PROVE  \A r \in Requests : ~Uses(r, n)
<1>1. IsFiniteSet(Users(n)) /\ Cardinality(Users(n)) = 0
  BY DEF IInv, CountInv
<1>2. Users(n) = {}
  BY <1>1, FS_EmptySet
<1> QED BY <1>2 DEF Users

(* The count of a node is a number, zero when nobody uses it.              *)
LEMMA SharedNat ==
    ASSUME IInv, NEW n \in node_map
    PROVE  tree[n].shared \in Nat /\ (tree[n].shared = 0 <=> \A r \in Requests : ~Uses(r, n))
<1>1. IsFiniteSet(Users(n)) /\ tree[n].shared = Cardinality(Users(n))
  BY DEF IInv, CountInv
<1>2. Cardinality(Users(n)) \in Nat /\ (Cardinality(Users(n)) = 0 <=> Users(n) = {})
  BY <1>1, FS_CardinalityType, FS_EmptySet
<1> QED BY <1>1, <1>2 DEF Users

-----------------------------------------------------------------------------
(* A request keeps its path, and with it what the invariant says of it.    *)
LEMMA PathsKept ==
    ASSUME IInv, Rooted(tree', node_map'), NEW n \in node_map \cup {Root},
           \A m \in PathIn(tree, n) : m \in node_map' /\ tree'[m].parent = tree[m].parent
    PROVE  PathIn(tree', n) = PathIn(tree, n)
  BY InvRooted, PathKept

(* What the invariant says of r survives a step that keeps its path and    *)
(* state.                                                                  *)
LEMMA ReqFrame ==
    ASSUME IInv, NEW r \in Requests, Rooted(tree', node_map'),
           state'[r] = state[r], table'[r] = table[r], unfilled'[r] = unfilled[r],
           req_leaf_map'[r] = req_leaf_map[r], cache_info'[r] = cache_info[r],
           \A n \in node_map : Uses(r, n) =>
               /\ n \in node_map' /\ tree'[n].parent = tree[n].parent
               /\ tree'[n].depth = tree[n].depth /\ tree'[n].key = tree[n].key
               /\ tree'[n].block = tree[n].block /\ tree'[n].status = tree[n].status,
           state[r] = "swapping" =>
               /\ InItems' = InItems
               /\ \A k \in tree'[cache_info[r]].kids :
                      k \in tree[cache_info[r]].kids /\ tree'[k].key = tree[k].key
    PROVE  /\ NewInv(r)' /\ SwappingInv(r)' /\ AdmittedInv(r)' /\ RunningInv(r)'
           /\ \A n : Uses(r, n)' <=> Uses(r, n)
<1> DEFINE leaf == req_leaf_map[r]
           last == cache_info[r]
<1>1. NewInv(r) /\ SwappingInv(r) /\ AdmittedInv(r) /\ RunningInv(r)
  BY DEF IInv, ReqInv
<1>2. /\ leaf # NoNode => leaf \in node_map \cup {Root} /\ state[r] \in {"running", "ended"}
      /\ state[r] = "swapping" => last \in node_map /\ leaf = NoNode
      /\ \A n : Uses(r, n) => n \in node_map
  BY LeafPlaces
<1>3. leaf # NoNode => PathIn(tree', leaf) = PathIn(tree, leaf)
  BY <1>2, UsesPaths, PathsKept
<1>4. state[r] = "swapping" => PathIn(tree', last) = PathIn(tree, last)
  BY <1>2, UsesPaths, PathsKept
<1>5. \A n : Uses(r, n)' <=> Uses(r, n)
  BY <1>3, <1>4, UsesPaths, UsesPathsNext
<1>6. tree[Root].depth = 0 /\ tree'[Root].depth = 0 /\ Root \notin node_map
  BY InvRooted DEF Rooted, Linked
<1>7. \A n \in node_map \cup {Root} : n # Root => n \in PathIn(tree, n)
  BY InvRooted, PathShapes DEF PathShape
<1> DEFINE same(n) == /\ n \in node_map' /\ tree'[n].parent = tree[n].parent
                      /\ tree'[n].depth = tree[n].depth /\ tree'[n].key = tree[n].key
                      /\ tree'[n].block = tree[n].block /\ tree'[n].status = tree[n].status
<1>8. /\ leaf # NoNode => \A n \in PathIn(tree, leaf) : same(n)
      /\ state[r] = "swapping" => \A n \in PathIn(tree, last) : same(n)
  BY <1>2, UsesPaths
<1>9. /\ leaf # NoNode => leaf \in node_map' \cup {Root} /\ tree'[leaf].depth = tree[leaf].depth
      /\ state[r] = "swapping" => last \in node_map' /\ tree'[last].depth = tree[last].depth
  BY <1>2, <1>6, <1>7, <1>8
<1>10. NewInv(r)'
  BY <1>1 DEF NewInv
<1>11. AdmittedInv(r)'
  BY <1>1, <1>3, <1>8, <1>9 DEF AdmittedInv
<1>12. RunningInv(r)'
  <2> SUFFICES ASSUME state[r] = "running" PROVE RunningInv(r)'
    BY DEF RunningInv
  <2>1. leaf # NoNode
    BY <1>1 DEF AdmittedInv
  <2>2. /\ OnPrompt(r, leaf) /\ tree[leaf].depth = Len(Prompt[r])
        /\ TableSet(r, Len(Prompt[r])) = BlocksAt(PathIn(tree, leaf))
    BY <1>1 DEF RunningInv
  <2>3. BlocksAt(PathIn(tree, leaf))' = BlocksAt(PathIn(tree, leaf))
    BY <2>1, <1>3, <1>8 DEF BlocksAt
  <2>4. TableSet(r, Len(Prompt[r]))' = TableSet(r, Len(Prompt[r]))
    BY DEF TableSet
  <2>5. OnPrompt(r, leaf)'
    BY <2>1, <2>2, <1>3, <1>8, <1>9 DEF OnPrompt
  <2> QED BY <2>1, <2>2, <2>3, <2>4, <2>5, <1>9 DEF RunningInv
<1>13. SwappingInv(r)'
  <2> SUFFICES ASSUME state[r] = "swapping" PROVE SwappingInv(r)'
    BY DEF SwappingInv
  <2> DEFINE path == PathIn(tree, last)
             d == tree[last].depth
  <2>1. /\ OnPrompt(r, last) /\ last # Root /\ leaf = NoNode /\ unfilled[r] = {}
        /\ Len(table[r]) = BlockNum(r)
        /\ \A n \in path : tree[n].status \in {"GPU", "SWAP2GPU"}
        /\ InNodes \subseteq path
        /\ d = Len(Prompt[r]) \/ \A m \in tree[last].kids : tree[m].key # Prompt[r][d + 1]
        /\ \A i, j \in d + 1 .. Len(table[r]) : i # j => table[r][i] # table[r][j]
        /\ \A i \in d + 1 .. Len(table[r]) : \A it \in InItems : table[r][i] # it.gpu
        /\ TableSet(r, d) = BlocksAt({n \in path : tree[n].status = "GPU"})
                                  \cup {it.gpu : it \in InItems}
    BY <1>1 DEF SwappingInv
  <2>2. PathIn(tree', last) = path /\ InNodes' = InNodes /\ tree'[last].depth = d
    BY <1>4, <1>9 DEF InNodes
  <2>3. \A n \in path : same(n)
    BY <1>8
  <2>4. OnPrompt(r, last)'
    BY <2>1, <2>2, <2>3, <1>9 DEF OnPrompt
  <2>5. d = Len(Prompt[r]) \/ \A m \in tree'[last].kids : tree'[m].key # Prompt[r][d + 1]
    BY <2>1
  <2>6. {tree'[n].block : n \in {k \in path : tree'[k].status = "GPU"}}
          = {tree[n].block : n \in {k \in path : tree[k].status = "GPU"}}
    BY <2>3
  <2>7. {table'[r][i] : i \in 1 .. d} = TableSet(r, d)
    BY DEF TableSet
  <2> HIDE DEF same
  <2>8. \A n \in path : tree'[n].status \in {"GPU", "SWAP2GPU"}
    BY <2>1, <2>3 DEF same
  <2>9. {table'[r][i] : i \in 1 .. d} = {tree'[n].block : n \in {k \in path : tree'[k].status = "GPU"}}
                                  \cup {it.gpu : it \in InItems'}
    BY <2>1, <2>6, <2>7 DEF BlocksAt
  <2> DEFINE newpath == PathIn(tree', last)
             e == tree'[last].depth
  <2>10. newpath = path /\ e = d
    BY <2>2
  <2> HIDE DEF path, d, newpath, e
  <2>11. /\ req_leaf_map'[r] = NoNode /\ unfilled'[r] = {} /\ last # Root
         /\ Len(table'[r]) = BlockNum(r)
    BY <2>1
  <2>14. \A n \in newpath : tree'[n].status \in {"GPU", "SWAP2GPU"}
    BY <2>8, <2>10
  <2>15. InNodes' \subseteq newpath
    BY <2>1, <2>2, <2>10
  <2>16. e = Len(Prompt[r]) \/ \A m \in tree'[last].kids : tree'[m].key # Prompt[r][e + 1]
    BY <2>5, <2>10
  <2>17. /\ \A i, j \in e + 1 .. Len(table'[r]) : i # j => table'[r][i] # table'[r][j]
         /\ \A i \in e + 1 .. Len(table'[r]) : \A it \in InItems' : table'[r][i] # it.gpu
    BY <2>1, <2>10
  <2>18. {table'[r][i] : i \in 1 .. e} = {tree'[n].block : n \in {k \in newpath : tree'[k].status = "GPU"}}
                                  \cup {it.gpu : it \in InItems'}
    BY <2>9, <2>10
  <2>12. last = cache_info'[r]
    OBVIOUS
  <2> HIDE DEF last
  <2>13. OnPrompt(r, cache_info[r])' = OnPrompt(r, last)'
    BY <2>12 DEF last
  <2> QED BY <2>4, <2>11, <2>12, <2>13, <2>14, <2>15, <2>16, <2>17, <2>18 DEF SwappingInv, BlocksAt, TableSet, newpath, e
<1> QED BY <1>5, <1>10, <1>11, <1>12, <1>13

-----------------------------------------------------------------------------
(* The tasks in flight: their types, and the one that a request waits for. *)
LEMMA TaskTypes ==
    SwapTypes => \A t \in InFlight :
                    /\ t.for \in Requests \cup {Nobody} /\ t.type \in {"SWAP2CPU", "SWAP2GPU"}
                    /\ t.items \in Seq(Item) /\ ItemsOf(t) \subseteq Item
<1> SUFFICES ASSUME SwapTypes, NEW t \in InFlight
             PROVE  /\ t.for \in Requests \cup {Nobody} /\ t.type \in {"SWAP2CPU", "SWAP2GPU"}
                    /\ t.items \in Seq(Item) /\ ItemsOf(t) \subseteq Item
  OBVIOUS
<1>1. Range(result) \subseteq Task
  <2>1. \A i \in 1 .. Len(result) : result[i] \in Task
    BY ElementOfSeq DEF SwapTypes
  <2>2. result \in Seq(Task)
    BY DEF SwapTypes
  <2>3. DOMAIN result = 1 .. Len(result)
    BY <2>2, LenProperties
  <2> QED BY <2>1, <2>3 DEF Range
<1>2. t \in Task
  BY <1>1 DEF SwapTypes, InFlight
<1>3. t.items \in Seq(Item)
  BY <1>2 DEF Task
<1>4. ItemsOf(t) \subseteq Item
  BY <1>3, ElementOfSeq, LenProperties DEF ItemsOf, Range
<1> QED BY <1>2, <1>3, <1>4 DEF Task

(* The blocks a waiting request was given and no node has yet.             *)
LEMMA PendingIs ==
    SwapTypes /\ Waits => \A r \in Requests :
        /\ state[r] = "swapping" =>
              Pending(r) = {table[r][i] : i \in tree[cache_info[r]].depth + 1 .. Len(table[r])}
                             \cup {it.gpu : it \in InItems}
        /\ state[r] # "swapping" => Pending(r) = {}
<1> SUFFICES ASSUME SwapTypes, Waits, NEW r \in Requests, state[r] = "swapping"
             PROVE Pending(r) = {table[r][i] : i \in tree[cache_info[r]].depth + 1 .. Len(table[r])}
                       \cup {it.gpu : it \in InItems}
  BY DEF Pending
<1>1. holder = r
  BY DEF Waits
<1>2. Nobody \notin Requests
  BY NamesAssumption
<1>3. ASSUME NEW t \in InFlight PROVE t.for = r <=> t.for # Nobody
  <2>1. t.for \in Requests \cup {Nobody}
    BY TaskTypes
  <2> QED BY <1>1, <1>2, <2>1 DEF Waits
<1>4. {t \in InFlight : t.for = r} = {t \in InFlight : t.for # Nobody}
  BY <1>3
<1>5. UNION {{it.gpu : it \in ItemsOf(t)} : t \in {u \in InFlight : u.for = r}} = {it.gpu : it \in InItems}
  BY <1>4 DEF InItems
<1> QED BY <1>5 DEF Pending

(* While no request holds the lock nothing is swapped in.                  *)
LEMMA NoSwapIn ==
    SwapTypes /\ Waits /\ holder \notin Requests =>
        /\ InItems = {} /\ InNodes = {}
        /\ \A r \in Requests : state[r] # "swapping"
<1> SUFFICES ASSUME SwapTypes, Waits, holder \notin Requests
             PROVE  /\ InItems = {} /\ InNodes = {}
                    /\ \A r \in Requests : state[r] # "swapping"
  OBVIOUS
<1>1. \A t \in InFlight : t.for = Nobody
  BY TaskTypes DEF Waits
<1>2. InItems = {}
  BY <1>1 DEF InItems
<1> QED BY <1>2 DEF InNodes, Waits

(* Only an eviction under way swaps nodes out.                             *)
LEMMA NoSwapOut ==
    Waits /\ future # "swap" => OutItems = {} /\ OutNodes = {}
  BY DEF Waits, OutItems, OutNodes

(* The request that holds the lock is the one that waits for a swap.       *)
LEMMA SwappingIs ==
    ASSUME IInv, NEW r \in Requests, holder = r
    PROVE  /\ state[r] = "swapping" /\ SwappingInv(r)
           /\ \A q \in Requests : q # r => state[q] # "swapping"
           /\ \A t \in InFlight : t.for = r <=> t.for # Nobody
<1>1. state[r] = "swapping" /\ \A q \in Requests : q # r => state[q] # "swapping"
  BY DEF IInv, Waits
<1>2. \A t \in InFlight : t.for = r <=> t.for # Nobody
  <2>1. \A t \in InFlight : t.for \in Requests \cup {Nobody}
    BY TaskTypes DEF IInv
  <2> QED BY <2>1, NamesAssumption DEF IInv, Waits
<1> QED BY <1>1, <1>2 DEF IInv, ReqInv

-----------------------------------------------------------------------------
(* Who has which block.                                                    *)
LEMMA GpuLayoutIs ==
    /\ FreeList \in GpuOwners /\ GpuLayout[FreeList] = gpu_free
    /\ \A n \in Nodes : /\ <<"node", n>> \in GpuOwners /\ <<"reserved", n>> \in GpuOwners
                        /\ GpuLayout[<<"node", n>>] = IF n \in Resident THEN {tree[n].block} ELSE {}
                        /\ GpuLayout[<<"reserved", n>>] = IF n \in node_map THEN tree[n].reserved ELSE {}
    /\ \A r \in Requests : /\ <<"unfilled", r>> \in GpuOwners /\ <<"pending", r>> \in GpuOwners
                           /\ GpuLayout[<<"unfilled", r>>] = unfilled[r]
                           /\ GpuLayout[<<"pending", r>>] = Pending(r)
<1>1. \A n : <<"node", n>> # FreeList /\ <<"reserved", n>> # FreeList
             /\ <<"unfilled", n>> # FreeList /\ <<"pending", n>> # FreeList
  BY DEF FreeList
<1>2. /\ FreeList \in GpuOwners
      /\ \A n \in Nodes : <<"node", n>> \in GpuOwners /\ <<"reserved", n>> \in GpuOwners
      /\ \A r \in Requests : <<"unfilled", r>> \in GpuOwners /\ <<"pending", r>> \in GpuOwners
  BY DEF GpuOwners
<1> QED BY <1>1, <1>2 DEF GpuLayout

(* The owners of GPU blocks,                                               *)
LEMMA GpuOwnerIs ==
    ASSUME NEW o \in GpuOwners
    PROVE  \/ o = FreeList
           \/ \E n \in Nodes : o = <<"node", n>> \/ o = <<"reserved", n>>
           \/ \E r \in Requests : o = <<"unfilled", r>> \/ o = <<"pending", r>>
  BY DEF GpuOwners

(* which are all different.                                                *)
LEMMA GpuOwnersDiffer ==
    /\ \A n : /\ <<"node", n>> # FreeList /\ <<"reserved", n>> # FreeList
              /\ <<"unfilled", n>> # FreeList /\ <<"pending", n>> # FreeList
    /\ \A n, m : /\ <<"node", n>> # <<"reserved", m>> /\ <<"node", n>> # <<"unfilled", m>>
                 /\ <<"node", n>> # <<"pending", m>> /\ <<"reserved", n>> # <<"unfilled", m>>
                 /\ <<"reserved", n>> # <<"pending", m>> /\ <<"unfilled", n>> # <<"pending", m>>
    /\ \A n, m : /\ <<"node", n>> = <<"node", m>> => n = m
                 /\ <<"reserved", n>> = <<"reserved", m>> => n = m
                 /\ <<"unfilled", n>> = <<"unfilled", m>> => n = m
                 /\ <<"pending", n>> = <<"pending", m>> => n = m
  BY DEF FreeList

(* The same of CPU blocks.                                                 *)
LEMMA CpuLayoutIs ==
    /\ FreeList \in CpuOwners /\ CpuLayout[FreeList] = cpu_free
    /\ SwapOut \in CpuOwners /\ CpuLayout[SwapOut] = {it.cpu : it \in OutItems}
    /\ \A n \in Nodes : /\ <<"node", n>> \in CpuOwners
                        /\ CpuLayout[<<"node", n>>] = IF n \in node_map \ Resident THEN {tree[n].block} ELSE {}
<1>1. SwapOut # FreeList /\ \A n : <<"node", n>> # FreeList /\ <<"node", n>> # SwapOut
  BY DEF FreeList, SwapOut
<1>2. /\ FreeList \in CpuOwners /\ SwapOut \in CpuOwners
      /\ \A n \in Nodes : <<"node", n>> \in CpuOwners
  BY DEF CpuOwners
<1> QED BY <1>1, <1>2 DEF CpuLayout

(* The owners of CPU blocks,                                               *)
LEMMA CpuOwnerIs ==
    ASSUME NEW o \in CpuOwners
    PROVE  o = FreeList \/ o = SwapOut \/ \E n \in Nodes : o = <<"node", n>>
  BY DEF CpuOwners

(* which are all different.                                                *)
LEMMA CpuOwnersDiffer ==
    /\ SwapOut # FreeList
    /\ \A n : <<"node", n>> # FreeList /\ <<"node", n>> # SwapOut
    /\ \A n, m : <<"node", n>> = <<"node", m>> => n = m
  BY DEF FreeList, SwapOut

(* Who has which GPU block after a step.                                   *)
LEMMA GpuLayoutNext ==
    (/\ FreeList \in GpuOwners /\ GpuLayout[FreeList] = gpu_free
     /\ \A n \in Nodes : /\ <<"node", n>> \in GpuOwners /\ <<"reserved", n>> \in GpuOwners
                         /\ GpuLayout[<<"node", n>>] = IF n \in Resident THEN {tree[n].block} ELSE {}
                         /\ GpuLayout[<<"reserved", n>>] = IF n \in node_map THEN tree[n].reserved ELSE {}
     /\ \A r \in Requests : /\ <<"unfilled", r>> \in GpuOwners /\ <<"pending", r>> \in GpuOwners
                            /\ GpuLayout[<<"unfilled", r>>] = unfilled[r]
                            /\ GpuLayout[<<"pending", r>>] = Pending(r))'
  BY GpuLayoutIs, PTL

(* Who has which CPU block after a step.                                   *)
LEMMA CpuLayoutNext ==
    (/\ FreeList \in CpuOwners /\ CpuLayout[FreeList] = cpu_free
     /\ SwapOut \in CpuOwners /\ CpuLayout[SwapOut] = {it.cpu : it \in OutItems}
     /\ \A n \in Nodes : /\ <<"node", n>> \in CpuOwners
                         /\ CpuLayout[<<"node", n>>] = IF n \in node_map \ Resident THEN {tree[n].block} ELSE {})'
  BY CpuLayoutIs, PTL

-----------------------------------------------------------------------------
(* The invariant has the properties.                                       *)
LEMMA GpuOnce == IInv => GpuBlocksOwnedOnce
<1> SUFFICES ASSUME IInv PROVE Partitions(GpuShares, GpuBlocks)
  BY DEF GpuBlocksOwnedOnce
<1>1. OwnedOnce(GpuLayout, GpuOwners, GpuBlocks) /\ node_map \subseteq Nodes
  BY DEF IInv, OwnInv, TypeOK
<1>2. ASSUME NEW s \in GpuShares PROVE s[1] \in GpuOwners /\ s = <<s[1], GpuLayout[s[1]]>>
  <2>0. ASSUME NEW o \in GpuOwners, s = <<o, GpuLayout[o]>>
        PROVE  s[1] \in GpuOwners /\ s = <<s[1], GpuLayout[s[1]]>>
    <3>1. s[1] = o
      BY <2>0
    <3> QED BY <2>0, <3>1
  <2>1. CASE s = <<<<"free", Root>>, gpu_free>>
    BY <2>0, <2>1, GpuLayoutIs DEF FreeList
  <2>2. ASSUME NEW n \in Resident, s = <<<<"node", n>>, {tree[n].block}>>
        PROVE  s[1] \in GpuOwners /\ s = <<s[1], GpuLayout[s[1]]>>
    <3>1. <<"node", n>> \in GpuOwners /\ GpuLayout[<<"node", n>>] = {tree[n].block}
      BY <1>1, GpuLayoutIs DEF Resident
    <3> QED BY <2>0, <2>2, <3>1
  <2>3. ASSUME NEW n \in node_map, s = <<<<"reserved", n>>, tree[n].reserved>>
        PROVE  s[1] \in GpuOwners /\ s = <<s[1], GpuLayout[s[1]]>>
    <3>1. <<"reserved", n>> \in GpuOwners /\ GpuLayout[<<"reserved", n>>] = tree[n].reserved
      BY <1>1, GpuLayoutIs
    <3> QED BY <2>0, <2>3, <3>1
  <2>4. ASSUME NEW r \in Requests, s = <<<<"unfilled", r>>, unfilled[r]>> \/ s = <<<<"pending", r>>, Pending(r)>>
        PROVE  s[1] \in GpuOwners /\ s = <<s[1], GpuLayout[s[1]]>>
    <3>1. /\ <<"unfilled", r>> \in GpuOwners /\ GpuLayout[<<"unfilled", r>>] = unfilled[r]
          /\ <<"pending", r>> \in GpuOwners /\ GpuLayout[<<"pending", r>>] = Pending(r)
      BY GpuLayoutIs
    <3> QED BY <2>0, <2>4, <3>1
  <2> QED BY <2>1, <2>2, <2>3, <2>4 DEF GpuShares
<1>3. ASSUME NEW o \in GpuOwners, NEW b \in GpuLayout[o] PROVE <<o, GpuLayout[o]>> \in GpuShares
  <2>1. CASE o = FreeList
    BY <2>1, GpuLayoutIs DEF GpuShares, FreeList
  <2>2. ASSUME NEW n \in Nodes, o = <<"node", n>> PROVE <<o, GpuLayout[o]>> \in GpuShares
    <3>1. n \in Resident
      BY <2>2, <1>3, GpuLayoutIs
    <3> QED BY <2>2, <3>1, GpuLayoutIs DEF GpuShares
  <2>3. ASSUME NEW n \in Nodes, o = <<"reserved", n>> PROVE <<o, GpuLayout[o]>> \in GpuShares
    <3>1. n \in node_map
      BY <2>3, <1>3, GpuLayoutIs
    <3> QED BY <2>3, <3>1, GpuLayoutIs DEF GpuShares
  <2>4. ASSUME NEW r \in Requests, o = <<"unfilled", r>> PROVE <<o, GpuLayout[o]>> \in GpuShares
    <3>1. GpuLayout[o] = unfilled[r]
      BY <2>4, GpuLayoutIs
    <3> QED BY ONLY <2>4, <3>1, r \in Requests DEF GpuShares
  <2>5. ASSUME NEW r \in Requests, o = <<"pending", r>> PROVE <<o, GpuLayout[o]>> \in GpuShares
    <3>1. GpuLayout[o] = Pending(r)
      BY <2>5, GpuLayoutIs
    <3> QED BY ONLY <2>5, <3>1, r \in Requests DEF GpuShares
  <2> QED BY <2>1, <2>2, <2>3, <2>4, <2>5, GpuOwnerIs
<1>6. \A s \in GpuShares : s[1] \in GpuOwners /\ s[2] = GpuLayout[s[1]]
  BY <1>2
<1>4. UNION {s[2] : s \in GpuShares} = GpuBlocks
  <2>1. ASSUME NEW s \in GpuShares, NEW b \in s[2] PROVE b \in GpuBlocks
    BY <1>1, <1>6 DEF OwnedOnce
  <2>2. ASSUME NEW b \in GpuBlocks PROVE \E s \in GpuShares : b \in s[2]
    <3>1. PICK o \in GpuOwners : b \in GpuLayout[o]
      BY <1>1 DEF OwnedOnce
    <3>2. <<o, GpuLayout[o]>> \in GpuShares
      BY <1>3, <3>1
    <3> QED BY <3>1, <3>2
  <2> QED BY <2>1, <2>2
<1>5. \A s, t \in GpuShares : s # t => s[2] \cap t[2] = {}
  BY <1>1, <1>2 DEF OwnedOnce
<1> QED BY <1>4, <1>5 DEF Partitions

(* No CPU block has two owners, and none is lost.                          *)
LEMMA CpuOnce == IInv => CpuBlocksOwnedOnce
<1> SUFFICES ASSUME IInv PROVE Partitions(CpuShares, CpuBlocks)
  BY DEF CpuBlocksOwnedOnce
<1>1. /\ OwnedOnce(CpuLayout, CpuOwners, CpuBlocks) /\ node_map \subseteq Nodes
      /\ \A t, u \in InFlight : t.for = u.for => t = u
  BY DEF IInv, OwnInv, TypeOK, OneTask
<1> DEFINE own(s) == IF s[1][1] = "task" THEN SwapOut ELSE s[1]
<1>2. ASSUME NEW t \in InFlight, t.for = Nobody PROVE {it.cpu : it \in ItemsOf(t)} = CpuLayout[SwapOut]
  <2>1. {u \in InFlight : u.for = Nobody} = {t}
    BY <1>1, <1>2
  <2> QED BY <2>1, CpuLayoutIs DEF OutItems
<1>3. ASSUME NEW s \in CpuShares
      PROVE  /\ own(s) \in CpuOwners /\ s[2] = CpuLayout[own(s)]
             /\ \A q \in CpuShares : own(s) = own(q) => s = q
  <2> DEFINE IsFree(q) == q = <<<<"free", Root>>, cpu_free>>
             IsNode(q) == \E n \in node_map \ Resident : q = <<<<"node", n>>, {tree[n].block}>>
             IsTask(q) == \E t \in InFlight : t.for = Nobody
                                              /\ q = <<<<"task", t>>, {it.cpu : it \in ItemsOf(t)}>>
  <2>1. ASSUME NEW q \in CpuShares PROVE IsFree(q) \/ IsNode(q) \/ IsTask(q)
    BY DEF CpuShares
  <2>2. ASSUME NEW q, IsFree(q) PROVE own(q) = FreeList
    BY <2>2 DEF FreeList
  <2>3. ASSUME NEW q, IsNode(q) PROVE own(q) = q[1] /\ \E n \in node_map : own(q) = <<"node", n>>
    BY <2>3
  <2>4. ASSUME NEW q, IsTask(q) PROVE own(q) = SwapOut
    BY <2>4
  <2> HIDE DEF own
  <2>5. ASSUME NEW q \in CpuShares PROVE own(q) \in CpuOwners /\ q[2] = CpuLayout[own(q)]
    <3>1. CASE IsFree(q)
      BY <2>2, <3>1, CpuLayoutIs
    <3>2. CASE IsNode(q)
      BY <2>3, <3>2, <1>1, CpuLayoutIs
    <3>3. CASE IsTask(q)
      BY <2>4, <3>3, <1>2, CpuLayoutIs
    <3> QED BY <2>1, <3>1, <3>2, <3>3
  <2>6. ASSUME NEW q \in CpuShares, own(s) = own(q) PROVE s = q
    <3>1. CASE IsFree(s)
      <4>1. IsFree(q)
        BY <2>1, <2>2, <2>3, <2>4, <2>6, <3>1, CpuOwnersDiffer
      <4> QED BY <3>1, <4>1
    <3>2. CASE IsNode(s)
      <4>1. IsNode(q)
        BY <2>1, <2>2, <2>3, <2>4, <2>6, <3>2, CpuOwnersDiffer
      <4>2. s[1] = q[1]
        BY <2>3, <2>6, <3>2, <4>1
      <4> QED BY <3>2, <4>1, <4>2
    <3>3. CASE IsTask(s)
      <4>1. IsTask(q)
        BY <2>1, <2>2, <2>3, <2>4, <2>6, <3>3, CpuOwnersDiffer
      <4> QED BY <3>3, <4>1, <1>1
    <3> QED BY <2>1, <3>1, <3>2, <3>3
  <2> QED BY <2>5, <2>6
<1>4. ASSUME NEW o \in CpuOwners, NEW b \in CpuLayout[o] PROVE \E s \in CpuShares : b \in s[2]
  <2>1. CASE o = FreeList
    <3>1. <<<<"free", Root>>, cpu_free>> \in CpuShares
      BY DEF CpuShares
    <3> QED BY <2>1, <1>4, <3>1, CpuLayoutIs
  <2>2. CASE o = SwapOut
    <3>1. PICK it \in OutItems : b = it.cpu
      BY <2>2, <1>4, CpuLayoutIs
    <3>2. PICK t \in InFlight : t.for = Nobody /\ it \in ItemsOf(t)
      BY <3>1 DEF OutItems
    <3>3. <<<<"task", t>>, {i.cpu : i \in ItemsOf(t)}>> \in CpuShares
      BY <3>2 DEF CpuShares
    <3> QED BY <3>1, <3>2, <3>3
  <2>3. ASSUME NEW n \in Nodes, o = <<"node", n>> PROVE \E s \in CpuShares : b \in s[2]
    <3>1. n \in node_map \ Resident /\ b = tree[n].block
      BY <2>3, <1>4, CpuLayoutIs
    <3>2. <<<<"node", n>>, {tree[n].block}>> \in CpuShares
      BY <3>1 DEF CpuShares
    <3> QED BY <3>1, <3>2
  <2> QED BY <2>1, <2>2, <2>3, CpuOwnerIs
<1> HIDE DEF own
<1>5. UNION {s[2] : s \in CpuShares} = CpuBlocks
  BY <1>1, <1>3, <1>4 DEF OwnedOnce
<1>6. \A s, t \in CpuShares : s # t => s[2] \cap t[2] = {}
  BY <1>1, <1>3 DEF OwnedOnce
<1> QED BY <1>5, <1>6 DEF Partitions

(* shared_count is the number of users.                                    *)
LEMMA CountsUsers == IInv => SharedCountsUsers
  BY DEF IInv, CountInv, Users, SharedCountsUsers

(* An unused leaf is a candidate of the eviction of its medium.            *)
LEMMA LeavesEvictable == IInv => UnusedLeavesEvictable
  BY DEF IInv, LruInv, UnusedLeavesEvictable

(* The eviction gets the CPU blocks it counted on.                         *)
LEMMA RoomFound == IInv => EvictionFindsRoom
  BY DEF IInv, RoomInv, EvictionFindsRoom

(* The blocks of a running prompt are the blocks of its path.              *)
LEMMA PromptKept == IInv => PromptBlocksKept
<1> SUFFICES ASSUME IInv, NEW r \in Requests, state[r] = "running"
             PROVE  LET path == PathUp(req_leaf_map[r])
                        own == {table[r][i] : i \in 1 .. Len(Prompt[r])}
                    IN  /\ \A n \in path : n \in node_map /\ tree[n].status = "GPU"
                        /\ {tree[n].block : n \in path} = own
                        /\ {tree[n].key : n \in path} = Range(Prompt[r])
  BY DEF PromptBlocksKept
<1> DEFINE leaf == req_leaf_map[r]
           path == PathUp(leaf)
<1>1. path = PathIn(tree, leaf)
  BY DEF PathUp, PathIn
<1>2. AdmittedInv(r) /\ RunningInv(r)
  BY DEF IInv, ReqInv
<1>3. /\ leaf \in node_map \cup {Root}
      /\ \A n \in path : tree[n].status = "GPU"
  BY <1>1, <1>2 DEF AdmittedInv
<1>4. /\ tree[leaf].depth = Len(Prompt[r])
      /\ {table[r][i] : i \in 1 .. Len(Prompt[r])} = {tree[n].block : n \in path}
      /\ \A n \in path : tree[n].key = Prompt[r][tree[n].depth]
  BY <1>1, <1>2 DEF RunningInv, OnPrompt, TableSet, BlocksAt
<1>5. PathShape(tree, node_map, leaf)
  BY <1>3, InvRooted, PathShapes
<1>6. /\ path \subseteq node_map
      /\ \A m \in path : tree[m].depth \in 1 .. Len(Prompt[r])
      /\ \A i \in 1 .. Len(Prompt[r]) : \E m \in path : tree[m].depth = i
  BY <1>1, <1>4, <1>5 DEF PathShape
<1>7. Range(Prompt[r]) = {Prompt[r][i] : i \in 1 .. Len(Prompt[r])}
  BY CacheAssumption, LenProperties DEF Range
<1> HIDE DEF path, leaf
<1>8. {tree[n].key : n \in path} = Range(Prompt[r])
  BY <1>4, <1>6, <1>7
<1> QED BY <1>3, <1>4, <1>6, <1>8 DEF path, leaf

-----------------------------------------------------------------------------
(* The initial state.                                                      *)

(* The invariant holds of the empty cache.                                 *)
LEMMA InitInv == Init => IInv
<1> SUFFICES ASSUME Init PROVE IInv
  OBVIOUS
<1>0. /\ gpu_free = GpuBlocks /\ cpu_free = CpuBlocks /\ node_map = {}
      /\ tree = [n \in {Root} \cup Nodes |-> NewRoot]
      /\ gpu_lru = {} /\ cpu_lru = {}
      /\ req_leaf_map = [r \in Requests |-> NoNode]
      /\ cache_info = [r \in Requests |-> NoNode]
      /\ unfilled = [r \in Requests |-> {}]
      /\ releases = << >> /\ holder = Nobody
      /\ future = "none" /\ victims = << >> /\ freed = 0
      /\ transfers = {} /\ result = << >>
      /\ state = [r \in Requests |-> "new"]
      /\ table = [r \in Requests |-> << >>]
  BY DEF Init, CacheInit
<1>1. tree[Root] = NewRoot
  BY <1>0
<1>2. InFlight = {}
  BY <1>0 DEF InFlight, Range
<1>3. OutItems = {} /\ InItems = {} /\ OutNodes = {} /\ InNodes = {}
  BY <1>2 DEF OutItems, InItems, OutNodes, InNodes
<1>4. TypeOK
  <2>1. NewRoot \in NodeRecord
    BY CacheAssumption DEF NewRoot, NodeRecord
  <2>2. tree \in [{Root} \cup Nodes -> NodeRecord]
    BY <1>0, <2>1
  <2>3. 0 \in 0 .. MaxSeqBlocks
    BY CacheAssumption
  <2>4. releases \in Seq(Requests)
    BY <1>0
  <2> QED BY <1>0, <2>2, <2>3, <2>4 DEF TypeOK
<1>5. TreeInv
  BY <1>0, <1>1 DEF TreeInv, Linked, NewRoot
<1>6. SwapTypes /\ OneTask
  BY <1>0, <1>2, EmptySeq DEF SwapTypes, OneTask
<1>7. Waits
  BY <1>0, <1>2, NamesAssumption DEF Waits
<1>8. ItemsInv /\ VictimsInv /\ StatusInv
  BY <1>0, <1>2, <1>3 DEF ItemsInv, VictimsInv, StatusInv
<1>9. PhaseInv /\ RoomInv
  <2>1. holder # "free_gpu" /\ holder # "free_cpu"
    BY <1>0, NamesAssumption
  <2>2. Len(victims) = 0 /\ MaxSeqBlocks \in Nat
    BY <1>0, CacheAssumption
  <2> QED BY <1>0, <1>2, <2>1, <2>2 DEF PhaseInv, RoomInv
<1>10. ReqInv
  BY <1>0 DEF ReqInv, NewInv, SwappingInv, AdmittedInv, RunningInv
<1>11. CountInv /\ LruInv /\ UsedInv
  BY <1>0 DEF CountInv, LruInv, UsedInv
<1>12. OwnInv
  <2>1. \A r \in Requests : Pending(r) = {}
    BY <1>0 DEF Pending
  <2>2. Resident = {}
    BY <1>0 DEF Resident
  <2>3. GpuLayout[FreeList] = GpuBlocks /\ \A o \in GpuOwners : o # FreeList => GpuLayout[o] = {}
    BY <1>0, <2>1, <2>2, GpuLayoutIs, GpuOwnerIs
  <2>4. CpuLayout[FreeList] = CpuBlocks /\ \A o \in CpuOwners : o # FreeList => CpuLayout[o] = {}
    BY <1>0, <1>3, <2>2, CpuLayoutIs, CpuOwnerIs
  <2> QED BY <2>3, <2>4, GpuLayoutIs, CpuLayoutIs DEF OwnInv, OwnedOnce
<1> QED BY <1>4, <1>5, <1>6, <1>7, <1>8, <1>9, <1>10, <1>11, <1>12 DEF IInv

-----------------------------------------------------------------------------
(* Steps that leave the tree and the requests alone.                       *)
LEMMA QuietTree ==
    ASSUME IInv, InItems' = InItems,
           tree' = tree, node_map' = node_map, gpu_lru' = gpu_lru, cpu_lru' = cpu_lru,
           state' = state, table' = table, unfilled' = unfilled, releases' = releases,
           req_leaf_map' = req_leaf_map, cache_info' = cache_info
    PROVE  TreeInv' /\ ReqInv' /\ CountInv' /\ LruInv' /\ UsedInv'
<1>1. TreeInv'
  BY DEF IInv, TreeInv
<1>2. Rooted(tree', node_map')
  BY InvRooted
<1>3. ASSUME NEW r \in Requests
      PROVE  /\ NewInv(r)' /\ SwappingInv(r)' /\ AdmittedInv(r)' /\ RunningInv(r)'
             /\ \A n : Uses(r, n)' <=> Uses(r, n)
  BY <1>2, ReqFrame
<1>4. ReqInv'
  BY <1>3 DEF IInv, ReqInv
<1>5. CountInv'
  <2>1. \A n : Users(n)' = Users(n)
    BY <1>3 DEF Users
  <2> QED BY <2>1 DEF IInv, CountInv
<1>6. LruInv' /\ UsedInv'
  BY DEF IInv, LruInv, UsedInv, IsGpuLeaf, IsCpuLeaf
<1> QED BY <1>1, <1>4, <1>5, <1>6

(* GPU blocks that no step moves stay owned once.                          *)
LEMMA SameGpuLayout ==
    ASSUME IInv, gpu_free' = gpu_free, tree' = tree, node_map' = node_map, unfilled' = unfilled,
           \A r \in Requests : Pending(r)' = Pending(r)
    PROVE  OwnedOnce(GpuLayout', GpuOwners, GpuBlocks)
<1>1. Resident' = Resident
  BY DEF Resident
<1>2. ASSUME NEW o \in GpuOwners PROVE GpuLayout'[o] = GpuLayout[o]
  <2>1. CASE o = FreeList
    BY <2>1, GpuLayoutIs, GpuLayoutNext
  <2>2. ASSUME NEW n \in Nodes, o = <<"node", n>> \/ o = <<"reserved", n>>
        PROVE  GpuLayout'[o] = GpuLayout[o]
    BY <2>2, <1>1, GpuLayoutIs, GpuLayoutNext
  <2>3. ASSUME NEW r \in Requests, o = <<"unfilled", r>> \/ o = <<"pending", r>>
        PROVE  GpuLayout'[o] = GpuLayout[o]
    BY <2>3, GpuLayoutIs, GpuLayoutNext
  <2> QED BY <2>1, <2>2, <2>3, GpuOwnerIs
<1> QED BY <1>2, SameOwners DEF IInv, OwnInv

(* CPU blocks that no step moves stay owned once.                          *)
LEMMA SameCpuLayout ==
    ASSUME IInv, cpu_free' = cpu_free, tree' = tree, node_map' = node_map, OutItems' = OutItems
    PROVE  OwnedOnce(CpuLayout', CpuOwners, CpuBlocks)
<1>1. Resident' = Resident
  BY DEF Resident
<1>2. ASSUME NEW o \in CpuOwners PROVE CpuLayout'[o] = CpuLayout[o]
  BY <1>1, CpuLayoutIs, CpuLayoutNext, CpuOwnerIs
<1> QED BY <1>2, SameOwners DEF IInv, OwnInv

(* A step that moves neither blocks nor tasks keeps these parts.           *)
LEMMA QuietSwaps ==
    ASSUME IInv, InFlight' = InFlight, victims' = victims,
           tree' = tree, node_map' = node_map, gpu_lru' = gpu_lru, cpu_lru' = cpu_lru,
           state' = state, table' = table, unfilled' = unfilled, releases' = releases,
           req_leaf_map' = req_leaf_map, cache_info' = cache_info,
           gpu_free' = gpu_free, cpu_free' = cpu_free
    PROVE  /\ TreeInv' /\ ReqInv' /\ CountInv' /\ LruInv' /\ UsedInv'
           /\ ItemsInv' /\ StatusInv' /\ OwnInv'
<1>1. InItems' = InItems /\ OutItems' = OutItems /\ InNodes' = InNodes /\ OutNodes' = OutNodes
  BY DEF InItems, OutItems, InNodes, OutNodes
<1>2. ItemsInv'
  BY <1>1 DEF IInv, ItemsInv
<1>3. StatusInv'
  BY <1>1 DEF IInv, StatusInv, VictimNodes
<1>4. \A r \in Requests : Pending(r)' = Pending(r)
  BY DEF Pending
<1>5. OwnInv'
  BY <1>1, <1>4, SameGpuLayout, SameCpuLayout DEF OwnInv
<1> QED BY <1>1, <1>2, <1>3, <1>5, QuietTree

(* The free lists are finite.                                              *)
LEMMA FreeFinite ==
    ASSUME IInv
    PROVE  /\ IsFiniteSet(gpu_free) /\ Cardinality(gpu_free) \in Nat
           /\ IsFiniteSet(cpu_free) /\ Cardinality(cpu_free) \in Nat
<1>1. 0 \in Int /\ NumGpu - 1 \in Int /\ NumCpu - 1 \in Int
  BY CacheAssumption
<1>2. IsFiniteSet(GpuBlocks) /\ IsFiniteSet(CpuBlocks)
  BY <1>1, FS_Interval DEF GpuBlocks, CpuBlocks
<1>3. gpu_free \subseteq GpuBlocks /\ cpu_free \subseteq CpuBlocks
  BY DEF IInv, TypeOK
<1>4. IsFiniteSet(gpu_free) /\ IsFiniteSet(cpu_free)
  BY <1>2, <1>3, FS_Subset
<1> QED BY <1>4, FS_CardinalityType

-----------------------------------------------------------------------------
(* free_block_ids takes the lock and finds no eviction under way.          *)
LEMMA FreeStartKeeps == ASSUME IInv, Own(FreeStart) PROVE IInv'
<1>1. /\ holder = Nobody /\ future \in {"none", "done"}
      /\ holder' = "free_gpu" /\ future' = "none" /\ freed' = 0
      /\ UNCHANGED <<poolVars, treeVars, reqVars, swapVars, victims, state, table>>
  BY DEF Own, FreeStart
<1> USE <1>1 DEF poolVars, treeVars, reqVars, swapVars
<1>2. InFlight' = InFlight
  BY DEF InFlight
<1>3. /\ TreeInv' /\ ReqInv' /\ CountInv' /\ LruInv' /\ UsedInv'
      /\ ItemsInv' /\ StatusInv' /\ OwnInv'
  BY <1>2, QuietSwaps
<1>4. TypeOK'
  BY CacheAssumption DEF IInv, TypeOK
<1>5. SwapTypes' /\ OneTask'
  BY <1>2 DEF IInv, SwapTypes, OneTask
<1>6. Waits'
  BY <1>2, NamesAssumption DEF IInv, Waits
<1>7. victims = << >>
  BY NamesAssumption DEF IInv, PhaseInv
<1>8. VictimsInv'
  BY <1>7 DEF VictimsInv
<1>9. PhaseInv'
  BY <1>2, <1>7 DEF IInv, PhaseInv
<1>10. RoomInv'
  <2>1. Len(victims) = 0 /\ MaxSeqBlocks \in Nat
    BY <1>7, CacheAssumption
  <2> QED BY <1>7, <2>1 DEF RoomInv
<1> QED BY <1>3, <1>4, <1>5, <1>6, <1>8, <1>9, <1>10 DEF IInv

(* It ends: with an eviction, or with nothing to evict.                    *)
LEMMA FreeEndKeeps == ASSUME IInv, Own(FreeEnd) PROVE IInv'
<1>1. /\ holder = "free_gpu" /\ holder' = Nobody
      /\ future' = IF victims = << >> THEN "none"
                   ELSE IF freed > Cardinality(cpu_free) THEN "free_cpu" ELSE "evict"
      /\ UNCHANGED <<poolVars, treeVars, reqVars, swapVars, victims, freed, state, table>>
  BY DEF Own, FreeEnd
<1> USE <1>1 DEF poolVars, treeVars, reqVars, swapVars
<1>2. InFlight' = InFlight
  BY DEF InFlight
<1>3. /\ TreeInv' /\ ReqInv' /\ CountInv' /\ LruInv' /\ UsedInv'
      /\ ItemsInv' /\ StatusInv' /\ OwnInv'
  BY <1>2, QuietSwaps
<1>4. future = "none" /\ future' \in {"none", "free_cpu", "evict"}
  BY DEF IInv, PhaseInv
<1>5. TypeOK'
  BY <1>4 DEF IInv, TypeOK
<1>6. SwapTypes' /\ OneTask'
  BY <1>2 DEF IInv, SwapTypes, OneTask
<1>7. Waits'
  BY <1>2, <1>4, NamesAssumption DEF IInv, Waits
<1>8. VictimsInv'
  BY NamesAssumption DEF IInv, VictimsInv
<1>9. PhaseInv'
  <2>1. victims # << >> => future' \in {"free_cpu", "evict"}
    <3>1. CASE freed > Cardinality(cpu_free)
      BY <3>1
    <3>2. CASE ~(freed > Cardinality(cpu_free))
      BY <3>2
    <3> QED BY <3>1, <3>2
  <2>2. victims = << >> => future' = "none"
    OBVIOUS
  <2>3. WithoutCpu => /\ \A n \in node_map : tree[n].status = "GPU"
                      /\ victims = << >> /\ InFlight = {}
    BY DEF IInv, PhaseInv
  <2> QED BY <1>2, <2>1, <2>2, <2>3, NamesAssumption DEF PhaseInv
<1>10. RoomInv'
  <2>1. freed \in Nat
    BY CacheAssumption DEF IInv, TypeOK
  <2>2. ASSUME future' = "evict" PROVE Len(victims) <= Cardinality(cpu_free)
    <3>1. victims # << >> /\ ~(freed > Cardinality(cpu_free))
      BY <2>2
    <3>2. freed = Len(victims)
      BY <3>1 DEF IInv, PhaseInv, RoomInv
    <3>3. Cardinality(cpu_free) \in Nat
      BY FreeFinite
    <3> QED BY <2>1, <3>1, <3>2, <3>3
  <2> QED BY <1>4, <2>2, NamesAssumption DEF IInv, RoomInv
<1> QED BY <1>3, <1>5, <1>6, <1>7, <1>8, <1>9, <1>10 DEF IInv

(* free_cpu_block_ids starts to count the free CPU blocks.                 *)
LEMMA FreeCpuStartKeeps == ASSUME IInv, Own(FreeCpuStart) PROVE IInv'
<1>1. /\ future = "free_cpu" /\ holder = Nobody /\ holder' = "free_cpu" /\ freed' = 0
      /\ UNCHANGED <<poolVars, treeVars, reqVars, swapVars, victims, future, state, table>>
  BY DEF Own, FreeCpuStart
<1> USE <1>1 DEF poolVars, treeVars, reqVars, swapVars
<1>2. InFlight' = InFlight
  BY DEF InFlight
<1>3. /\ TreeInv' /\ ReqInv' /\ CountInv' /\ LruInv' /\ UsedInv'
      /\ ItemsInv' /\ StatusInv' /\ OwnInv'
  BY <1>2, QuietSwaps
<1>4. TypeOK'
  BY CacheAssumption DEF IInv, TypeOK
<1>5. SwapTypes' /\ OneTask'
  BY <1>2 DEF IInv, SwapTypes, OneTask
<1>6. Waits'
  BY <1>2, NamesAssumption DEF IInv, Waits
<1>7. VictimsInv'
  BY NamesAssumption DEF IInv, VictimsInv
<1>8. PhaseInv'
  BY <1>2, NamesAssumption DEF IInv, PhaseInv
<1>9. RoomInv'
  <2>1. Cardinality(cpu_free) \in Nat
    BY FreeFinite
  <2> QED BY <2>1, NamesAssumption DEF IInv, RoomInv
<1> QED BY <1>3, <1>4, <1>5, <1>6, <1>7, <1>8, <1>9 DEF IInv

-----------------------------------------------------------------------------
(* free_cpu_block_ids stops short of MaxSeqBlocks only when every CPU      *)
(* block is free: otherwise the deepest node on the CPU is an unused leaf. *)
LEMMA CpuEmptied ==
    ASSUME IInv, holder = "free_cpu", cpu_lru = {}
    PROVE  cpu_free = CpuBlocks
<1>1. future = "free_cpu" /\ InItems = {} /\ InNodes = {} /\ OutItems = {} /\ OutNodes = {}
  BY NoSwapIn, NoSwapOut, NamesAssumption DEF IInv, PhaseInv
<1>2. Rooted(tree, node_map) /\ node_map \subseteq 1 .. MaxNodes /\ MaxNodes \in Nat
  BY InvRooted, CacheAssumption DEF IInv, TypeOK, Nodes
<1>3. ASSUME NEW n0 \in node_map, tree[n0].status = "CPU" PROVE FALSE
  <2> DEFINE C == {n \in node_map : tree[n].status = "CPU"}
  <2>1. PICK n \in C : \A m \in C : tree[m].depth <= tree[n].depth
    <3>1. C \subseteq node_map /\ C # {}
      BY <1>3
    <3> HIDE DEF C
    <3> QED BY <1>2, <3>1, Deepest
  <2>2. tree[n].kids = {}
    <3> SUFFICES ASSUME NEW m \in tree[n].kids PROVE FALSE
      OBVIOUS
    <3>0. n \in node_map /\ Linked(tree, node_map)
      BY <1>2 DEF Rooted
    <3>4. m \in node_map /\ tree[m].parent = n
      BY <3>0 DEF Linked
    <3>1. m \in node_map /\ tree[m].parent = n /\ tree[m].depth = tree[n].depth + 1
      BY <3>0, <3>4 DEF Linked
    <3>2. tree[m].status \in {"CPU", "SWAP2CPU"} /\ tree[m].status # "SWAP2CPU"
      BY <1>1, <3>1 DEF IInv, StatusInv
    <3>3. tree[n].depth \in Nat
      BY <1>2 DEF Rooted
    <3> QED BY <2>1, <3>1, <3>2, <3>3
  <2>3. tree[n].shared = 0
    BY <2>1 DEF IInv, UsedInv
  <2> QED BY <2>1, <2>2, <2>3 DEF IInv, LruInv, IsCpuLeaf
<1>4. \A n \in node_map : tree[n].status # "SWAP2GPU"
  BY <1>1 DEF IInv, StatusInv
<1>5. \A n \in node_map : tree[n].status \in {"GPU", "SWAP2CPU", "SWAP2GPU", "CPU"}
  BY DEF IInv, TypeOK, NodeRecord
<1>6. node_map \ Resident = {}
  BY <1>3, <1>4, <1>5 DEF Resident
<1>7. \A o \in CpuOwners : o # FreeList => CpuLayout[o] = {}
  BY <1>1, <1>6, CpuLayoutIs, CpuOwnerIs
<1>8. OwnedOnce(CpuLayout, CpuOwners, CpuBlocks) /\ CpuLayout[FreeList] = cpu_free
  BY CpuLayoutIs DEF IInv, OwnInv
<1> QED BY <1>7, <1>8, CpuLayoutIs DEF OwnedOnce

(* It ends with as many free CPU blocks as there are victims.              *)
LEMMA FreeCpuEndKeeps == ASSUME IInv, Own(FreeCpuEnd) PROVE IInv'
<1>1. /\ holder = "free_cpu" /\ (cpu_lru = {} \/ freed >= MaxSeqBlocks)
      /\ holder' = Nobody /\ future' = "evict"
      /\ UNCHANGED <<poolVars, treeVars, reqVars, swapVars, victims, freed, state, table>>
  BY DEF Own, FreeCpuEnd
<1> USE <1>1 DEF poolVars, treeVars, reqVars, swapVars
<1>2. InFlight' = InFlight
  BY DEF InFlight
<1>3. /\ TreeInv' /\ ReqInv' /\ CountInv' /\ LruInv' /\ UsedInv'
      /\ ItemsInv' /\ StatusInv' /\ OwnInv'
  BY <1>2, QuietSwaps
<1>4. future = "free_cpu"
  BY DEF IInv, PhaseInv
<1>5. TypeOK'
  BY DEF IInv, TypeOK
<1>6. SwapTypes' /\ OneTask'
  BY <1>2 DEF IInv, SwapTypes, OneTask
<1>7. Waits'
  BY <1>2, <1>4, NamesAssumption DEF IInv, Waits
<1>8. VictimsInv'
  BY NamesAssumption DEF IInv, VictimsInv
<1>9. PhaseInv'
  BY <1>2, <1>4, NamesAssumption DEF IInv, PhaseInv
<1>10. Len(victims) <= Cardinality(cpu_free)
  <2>1. Len(victims) <= MaxSeqBlocks /\ freed <= Cardinality(cpu_free)
    BY DEF IInv, RoomInv
  <2>2. /\ Cardinality(cpu_free) \in Nat /\ MaxSeqBlocks \in Nat
        /\ Len(victims) \in Nat /\ freed \in Nat
    BY FreeFinite, CacheAssumption, LenProperties DEF IInv, SwapTypes, TypeOK
  <2>3. CASE freed >= MaxSeqBlocks
    BY <2>1, <2>2, <2>3
  <2>4. CASE cpu_lru = {}
    <3>1. cpu_free = 0 .. NumCpu - 1
      BY <2>4, CpuEmptied DEF CpuBlocks
    <3>2. Cardinality(cpu_free) = NumCpu
      <4>1. 0 \in Int /\ NumCpu - 1 \in Int /\ NumCpu \in Nat /\ (NumCpu - 1) - 0 + 1 = NumCpu
        BY CacheAssumption
      <4>2. Cardinality(0 .. NumCpu - 1) = IF 0 > NumCpu - 1 THEN 0 ELSE (NumCpu - 1) - 0 + 1
        BY <4>1, FS_Interval
      <4> QED BY <3>1, <4>1, <4>2
    <3>3. ~(NumCpu < MaxSeqBlocks) /\ NumCpu \in Nat
      BY <1>4, CacheAssumption DEF IInv, PhaseInv, WithoutCpu
    <3> QED BY <2>1, <2>2, <3>2, <3>3
  <2> QED BY <2>3, <2>4
<1>11. RoomInv'
  BY <1>10, NamesAssumption DEF IInv, RoomInv
<1> QED BY <1>3, <1>5, <1>6, <1>7, <1>8, <1>9, <1>11 DEF IInv

-----------------------------------------------------------------------------
(* recv_data_transfer_result takes a finished task from the queue.         *)
LEMMA TakeResultKeeps == ASSUME IInv, Own(TakeResult) PROVE IInv'
<1>1. /\ result = << >>
      /\ UNCHANGED <<poolVars, treeVars, reqVars, evictVars, holder, state, table>>
  BY DEF Own, TakeResult
<1>0. PICK t \in transfers : result' = <<t>> /\ transfers' = transfers \ {t}
  BY DEF Own, TakeResult
<1> USE <1>1 DEF poolVars, treeVars, reqVars, evictVars
<1>2. InFlight' = InFlight
  <2>1. Range(result') = {t} /\ Range(result) = {}
    BY <1>0 DEF Range
  <2> QED BY <1>0, <2>1 DEF InFlight
<1>3. /\ TreeInv' /\ ReqInv' /\ CountInv' /\ LruInv' /\ UsedInv'
      /\ ItemsInv' /\ StatusInv' /\ OwnInv'
  BY <1>2, QuietSwaps
<1>4. TypeOK'
  BY DEF IInv, TypeOK
<1>5. SwapTypes'
  <2>1. t \in Task /\ transfers' \subseteq Task
    BY <1>0 DEF IInv, SwapTypes
  <2>2. result' \in Seq(Task) /\ Len(result') = 1
    BY <1>0, <2>1
  <2> QED BY <1>2, <2>1, <2>2 DEF IInv, SwapTypes
<1>6. OneTask'
  BY <1>0, <1>2 DEF IInv, OneTask
<1>7. Waits'
  BY <1>2 DEF IInv, Waits
<1>8. VictimsInv'
  BY DEF IInv, VictimsInv
<1>9. PhaseInv'
  BY <1>2 DEF IInv, PhaseInv
<1>10. RoomInv'
  BY DEF IInv, RoomInv
<1> QED BY <1>3, <1>4, <1>5, <1>6, <1>7, <1>8, <1>9, <1>10 DEF IInv

-----------------------------------------------------------------------------
(* A result whose items are all handled leaves nothing behind.             *)
LEMMA ResultIs ==
    ASSUME IInv, result # << >>
    PROVE  /\ result = <<result[1]>> /\ Range(result) = {result[1]}
           /\ result[1] \in Task /\ result[1] \in InFlight /\ result[1] \notin transfers
           /\ InFlight = transfers \cup {result[1]}
           /\ \A t \in transfers : t.for # result[1].for
<1>1. result \in Seq(Task) /\ Len(result) <= 1 /\ result[1] \notin transfers
  BY DEF IInv, SwapTypes, OneTask
<1>2. Len(result) = 1
  <2>1. Len(result) \in Nat /\ Len(result) # 0
    BY <1>1
  <2> DEFINE l == Len(result)
  <2>2. l \in Nat /\ l # 0 /\ l <= 1
    BY <1>1, <2>1
  <2> HIDE DEF l
  <2>3. l = 1
    BY <2>2
  <2> QED BY <2>3 DEF l
<1>3. result = <<result[1]>> /\ result[1] \in Task
  BY <1>1, <1>2
<1>4. Range(result) = {result[1]}
  <2> DEFINE t == result[1]
  <2>1. result = <<t>>
    BY <1>3
  <2> HIDE DEF t
  <2>2. Range(result) = {t}
    BY <2>1 DEF Range
  <2> QED BY <2>2 DEF t
<1>5. InFlight = transfers \cup {result[1]}
  BY <1>4 DEF InFlight
<1>6. \A t \in transfers : t.for # result[1].for
  BY <1>1, <1>5 DEF IInv, OneTask
<1> QED BY <1>1, <1>3, <1>4, <1>5, <1>6

(* A task without items is dropped.                                        *)
LEMMA ResultGone ==
    ASSUME IInv, result # << >>, result[1].items = << >>, result' = << >>,
           transfers' = transfers, victims' = victims
    PROVE  /\ InFlight' = transfers
           /\ InItems' = InItems /\ OutItems' = OutItems
           /\ InNodes' = InNodes /\ OutNodes' = OutNodes
           /\ SwapTypes' /\ OneTask'
<1>1. InFlight = transfers \cup {result[1]} /\ \A t \in transfers : t.for # result[1].for
  BY ResultIs
<1>2. InFlight' = transfers
  BY DEF InFlight, Range
<1>3. ItemsOf(result[1]) = {}
  BY DEF ItemsOf, Range
<1>4. InItems' = InItems /\ OutItems' = OutItems
  BY <1>1, <1>2, <1>3 DEF InItems, OutItems
<1>5. InNodes' = InNodes /\ OutNodes' = OutNodes
  BY <1>4 DEF InNodes, OutNodes
<1>6. SwapTypes'
  BY <1>1, <1>2, EmptySeq DEF IInv, SwapTypes
<1>7. OneTask'
  BY <1>1, <1>2 DEF IInv, OneTask
<1> QED BY <1>2, <1>4, <1>5, <1>6, <1>7

(* PendingIs after a step.                                                 *)
LEMMA PendingIsNext ==
    (SwapTypes /\ Waits => \A r \in Requests :
        /\ state[r] = "swapping" =>
              Pending(r) = {table[r][i] : i \in tree[cache_info[r]].depth + 1 .. Len(table[r])}
                             \cup {it.gpu : it \in InItems}
        /\ state[r] # "swapping" => Pending(r) = {})'
  BY PendingIs, PTL

(* A request that is left alone keeps its pending blocks.                  *)
LEMMA SamePending ==
    ASSUME IInv, SwapTypes', Waits', InItems' = InItems, NEW r \in Requests,
           state'[r] = state[r], table'[r] = table[r], cache_info'[r] = cache_info[r],
           state[r] = "swapping" => tree'[cache_info[r]].depth = tree[cache_info[r]].depth
    PROVE  Pending(r)' = Pending(r)
<1>1. CASE state[r] = "swapping"
  <2>1. Pending(r) = {table[r][i] : i \in tree[cache_info[r]].depth + 1 .. Len(table[r])}
                             \cup {it.gpu : it \in InItems}
    BY <1>1, PendingIs DEF IInv
  <2>2. Pending(r)' = {table'[r][i] : i \in tree'[cache_info'[r]].depth + 1 .. Len(table'[r])}
                             \cup {it.gpu : it \in InItems'}
    BY <1>1, PendingIsNext
  <2> QED BY <1>1, <2>1, <2>2
<1>2. CASE state[r] # "swapping"
  <2>1. Pending(r) = {}
    BY <1>2, PendingIs DEF IInv
  <2>2. Pending(r)' = {}
    BY <1>2, PendingIsNext
  <2> QED BY <2>1, <2>2
<1> QED BY <1>1, <1>2

(* The eviction task is over and its future is done.                       *)
LEMMA EvictionDoneKeeps == ASSUME IInv, Own(EvictionDone) PROVE IInv'
<1>1. /\ result # << >> /\ result[1].items = << >> /\ result[1].for = Nobody
      /\ result' = << >> /\ future' = "done"
      /\ UNCHANGED <<poolVars, treeVars, reqVars, victims, freed, transfers, holder, state, table>>
  BY DEF Own, EvictionDone
<1> USE <1>1 DEF poolVars, treeVars, reqVars
<1>2. /\ InFlight' = transfers
      /\ InItems' = InItems /\ OutItems' = OutItems
      /\ InNodes' = InNodes /\ OutNodes' = OutNodes
      /\ SwapTypes' /\ OneTask'
  BY ResultGone
<1>3. TreeInv' /\ ReqInv' /\ CountInv' /\ LruInv' /\ UsedInv'
  BY <1>2, QuietTree
<1>4. /\ result[1] \in InFlight /\ InFlight = transfers \cup {result[1]}
      /\ \A t \in transfers : t.for # Nobody
  BY ResultIs
<1>5. future = "swap"
  BY <1>4 DEF IInv, Waits
<1>6. TypeOK'
  BY DEF IInv, TypeOK
<1>7. Waits'
  <2>1. future' # "swap" /\ ~\E t \in InFlight' : t.for = Nobody
    BY <1>2, <1>4
  <2>2. \A r \in Requests : (\E t \in InFlight' : t.for = r) <=> (\E t \in InFlight : t.for = r)
    BY <1>2, <1>4, NamesAssumption
  <2> QED BY <2>1, <2>2 DEF IInv, Waits
<1>8. ItemsInv'
  <2>1. \A t \in InFlight' : t \in InFlight
    BY <1>2, <1>4
  <2> QED BY <1>2, <2>1 DEF IInv, ItemsInv
<1>9. VictimsInv'
  BY DEF IInv, VictimsInv
<1>10. StatusInv'
  BY <1>2 DEF IInv, StatusInv, VictimNodes
<1>11. PhaseInv'
  BY <1>2, <1>4, <1>5 DEF IInv, PhaseInv
<1>12. RoomInv'
  BY DEF IInv, RoomInv
<1>13. OwnInv'
  <2>1. \A r \in Requests : Pending(r)' = Pending(r)
    BY <1>2, <1>7, SamePending
  <2> QED BY <1>2, <2>1, SameGpuLayout, SameCpuLayout DEF OwnInv
<1> QED BY <1>2, <1>3, <1>6, <1>7, <1>8, <1>9, <1>10, <1>11, <1>12, <1>13 DEF IInv

-----------------------------------------------------------------------------
(* A request ends and its blocks are to be released.                       *)
LEMMA RecycleKeeps == ASSUME IInv, NEW r \in Requests, Recycle(r) PROVE IInv'
<1>1. /\ state[r] = "running" /\ state' = [state EXCEPT ![r] = "ended"]
      /\ releases' = Append(releases, r) /\ table' = [table EXCEPT ![r] = << >>]
      /\ UNCHANGED <<poolVars, treeVars, req_leaf_map, cache_info, unfilled,
                     evictVars, swapVars, holder>>
  BY DEF Recycle
<1> USE <1>1 DEF poolVars, treeVars, evictVars, swapVars
<1>2. InFlight' = InFlight
  BY DEF InFlight
<1>3. InItems' = InItems /\ OutItems' = OutItems /\ InNodes' = InNodes /\ OutNodes' = OutNodes
  BY <1>2 DEF InItems, OutItems, InNodes, OutNodes
<1>4. /\ state \in [Requests -> {"new", "swapping", "running", "ended"}]
      /\ table \in [Requests -> Seq(GpuBlocks)] /\ releases \in Seq(Requests)
      /\ \A i \in DOMAIN releases : state[releases[i]] = "ended"
  BY DEF IInv, ReqInv, TypeOK
<1>5. /\ state'[r] = "ended" /\ table'[r] = << >>
      /\ \A q \in Requests : q # r => state'[q] = state[q] /\ table'[q] = table[q]
  BY <1>4
<1>6. Rooted(tree', node_map')
  BY InvRooted
<1>7. ASSUME NEW q \in Requests
      PROVE  /\ NewInv(q)' /\ SwappingInv(q)' /\ AdmittedInv(q)' /\ RunningInv(q)'
             /\ \A n : Uses(q, n)' <=> Uses(q, n)
  <2>1. CASE q = r
    <3>1. AdmittedInv(r)
      BY DEF IInv, ReqInv
    <3>2. AdmittedInv(r)'
      BY <1>5, <3>1 DEF AdmittedInv
    <3>3. \A n : Uses(r, n)' <=> Uses(r, n)
      BY <1>5, UsesPaths, UsesPathsNext
    <3> QED BY <1>5, <2>1, <3>2, <3>3 DEF NewInv, SwappingInv, RunningInv
  <2>2. CASE q # r
    BY <1>3, <1>5, <1>6, <2>2, ReqFrame
  <2> QED BY <2>1, <2>2
<1>8. TypeOK'
  BY <1>4 DEF IInv, TypeOK
<1>9. ReqInv'
  <2>1. \A i \in DOMAIN releases' : state'[releases'[i]] = "ended"
    <3> SUFFICES ASSUME NEW i \in DOMAIN releases' PROVE state'[releases'[i]] = "ended"
      OBVIOUS
    <3>1. /\ Len(releases) \in Nat /\ DOMAIN releases = 1 .. Len(releases)
          /\ DOMAIN releases' = 1 .. Len(releases) + 1
      BY <1>4
    <3>2. CASE i = Len(releases) + 1
      BY <1>4, <1>5, <3>2
    <3>3. CASE i \in DOMAIN releases
      <4>1. releases'[i] = releases[i] /\ releases[i] \in Requests
        BY <1>4, <3>1, <3>3
      <4> QED BY <1>4, <1>5, <3>3, <4>1
    <3> QED BY <3>1, <3>2, <3>3
  <2>2. state' \in [Requests -> {"new", "swapping", "running", "ended"}]
    BY <1>4
  <2>3. table' \in [Requests -> Seq(GpuBlocks)]
    BY <1>4, EmptySeq
  <2> QED BY <1>7, <2>1, <2>2, <2>3 DEF ReqInv
<1>10. CountInv'
  <2>1. \A n : Users(n)' = Users(n)
    BY <1>7 DEF Users
  <2> QED BY <2>1 DEF IInv, CountInv
<1>11. TreeInv' /\ LruInv' /\ UsedInv'
  BY DEF IInv, TreeInv, LruInv, UsedInv, IsGpuLeaf, IsCpuLeaf
<1>12. SwapTypes' /\ OneTask'
  BY <1>2 DEF IInv, SwapTypes, OneTask
<1>13. Waits'
  <2>1. \A q \in Requests : state'[q] = "swapping" <=> state[q] = "swapping"
    BY <1>5
  <2> QED BY <1>2, <2>1 DEF IInv, Waits
<1>14. ItemsInv'
  BY <1>2, <1>3 DEF IInv, ItemsInv
<1>15. VictimsInv' /\ StatusInv'
  BY <1>3 DEF IInv, VictimsInv, StatusInv, VictimNodes
<1>16. PhaseInv' /\ RoomInv'
  BY <1>2 DEF IInv, PhaseInv, RoomInv
<1>17. OwnInv'
  <2>1. ASSUME NEW q \in Requests PROVE Pending(q)' = Pending(q)
    <3>1. CASE q = r
      BY <1>5, <3>1 DEF Pending
    <3>2. CASE q # r
      BY <1>3, <1>5, <1>12, <1>13, <3>2, SamePending
    <3> QED BY <3>1, <3>2
  <2> QED BY <1>3, <2>1, SameGpuLayout, SameCpuLayout DEF OwnInv
<1> QED BY <1>8, <1>9, <1>10, <1>11, <1>12, <1>13, <1>14, <1>15, <1>16, <1>17 DEF IInv

-----------------------------------------------------------------------------
(* The eviction is issued.                                                 *)

(* A list without gaps, as the set of its elements.                        *)
LEMMA ItemsRange ==
    ASSUME NEW s, DOMAIN s = 1 .. Len(s)
    PROVE  Range(s) = {s[i] : i \in 1 .. Len(s)}
  BY DEF Range

(* _evict_cache_async gives each victim a CPU block and issues the task.   *)
LEMMA EvictKeeps == ASSUME IInv, Own(EvictCacheAsync) PROVE IInv'
<1> DEFINE L == Len(victims)
           to == Allocate(cpu_free, L)
           items == [i \in DOMAIN victims |-> [node |-> victims[i].node, gpu |-> victims[i].gpu, cpu |-> to[i]]]
           T == [type |-> "SWAP2CPU", for |-> Nobody, items |-> items]
<1>0. future = "evict" /\ L <= Cardinality(cpu_free)
  BY DEF IInv, RoomInv, Own, EvictCacheAsync
<1>1. /\ future' = "swap" /\ cpu_free' = cpu_free \ Range(to)
      /\ transfers' = transfers \cup {T} /\ victims' = << >>
      /\ UNCHANGED <<gpu_free, treeVars, reqVars, holder, freed, result, state, table>>
  BY <1>0 DEF Own, EvictCacheAsync
<1> USE DEF treeVars, reqVars
<1>2. /\ victims \in Seq(Victim) /\ L \in Nat /\ DOMAIN victims = 1 .. L
      /\ \A i \in 1 .. L : victims[i] \in Victim
  BY ElementOfSeq, LenProperties DEF IInv, SwapTypes
<1>3. /\ to \in [1 .. L -> cpu_free] /\ \A i, j \in 1 .. L : i # j => to[i] # to[j]
      /\ to \in Seq(cpu_free) /\ Len(to) = L
  <2>1. NumCpu \in Nat /\ CpuBlocks \subseteq 0 .. NumCpu
    BY CacheAssumption DEF CpuBlocks
  <2>2. cpu_free \in SUBSET (0 .. NumCpu)
    BY <2>1 DEF IInv, TypeOK
  <2> HIDE DEF L
  <2> QED BY <1>0, <1>2, <2>1, <2>2, AllocateFacts
<1> HIDE DEF to, L
<1>4. Range(to) = {to[i] : i \in 1 .. L} /\ Range(to) \subseteq cpu_free
  BY <1>3, LenProperties DEF Range
<1>5. /\ items \in Seq(Item) /\ Len(items) = L /\ DOMAIN items = 1 .. L
      /\ \A i \in 1 .. L : /\ items[i].node = victims[i].node /\ items[i].gpu = victims[i].gpu
                           /\ items[i].cpu = to[i]
  <2>1. \A i \in 1 .. L : items[i] \in Item
    <3>1. cpu_free \subseteq CpuBlocks
      BY DEF IInv, TypeOK
    <3> QED BY <1>2, <1>3, <3>1 DEF Victim, Item
  <2> QED BY <1>2, <2>1
<1>6. T \in Task /\ T.for = Nobody /\ T.items = items /\ T.type = "SWAP2CPU"
  BY <1>5 DEF Task
<1> HIDE DEF items, T
<1>7. OutItems = {} /\ OutNodes = {} /\ \A t \in InFlight : t.for # Nobody
  <2>1. future # "swap"
    BY <1>0
  <2> QED BY <2>1, NoSwapOut DEF IInv, Waits
<1>8. InFlight' = InFlight \cup {T}
  BY <1>1 DEF InFlight
<1>9. ItemsOf(T) = {items[i] : i \in 1 .. L}
  BY <1>5, <1>6, ItemsRange DEF ItemsOf
<1>10. InItems' = InItems /\ InNodes' = InNodes
  BY <1>6, <1>8 DEF InItems, InNodes
<1>11. OutItems' = {items[i] : i \in 1 .. L}
  <2>1. {u \in InFlight' : u.for = Nobody} = {T}
    BY <1>6, <1>7, <1>8
  <2> QED BY <2>1, <1>9 DEF OutItems
<1>12. OutNodes' = VictimNodes
  BY <1>2, <1>5, <1>11 DEF OutNodes, VictimNodes
<1>13. TreeInv' /\ ReqInv' /\ CountInv' /\ LruInv' /\ UsedInv'
  BY <1>1, <1>10, QuietTree
<1>14. TypeOK'
  BY <1>1 DEF IInv, TypeOK
<1>15. SwapTypes'
  BY <1>1, <1>6, <1>8, EmptySeq DEF IInv, SwapTypes
<1>16. OneTask'
  <2>1. \A t \in InFlight : t # T /\ t.for # T.for
    BY <1>6, <1>7
  <2>2. result # << >> => result[1] \in InFlight
    BY ResultIs
  <2> QED BY <1>1, <1>8, <2>1, <2>2 DEF IInv, OneTask
<1>17. Waits'
  BY <1>1, <1>6, <1>8, NamesAssumption DEF IInv, Waits
<1>18. /\ \A i \in 1 .. L : /\ victims[i].node \in node_map
                            /\ tree[victims[i].node].status \in {"SWAP2CPU", "GPU"}
                            /\ tree[victims[i].node].block = victims[i].gpu
       /\ \A i, j \in 1 .. L : victims[i].node = victims[j].node => i = j
  BY <1>2 DEF IInv, VictimsInv
<1>19. ItemsInv'
  <2>1. Distinct(items)
    <3> SUFFICES ASSUME NEW i \in 1 .. L, NEW j \in 1 .. L, i # j
                 PROVE  /\ victims[i].node # victims[j].node /\ victims[i].gpu # victims[j].gpu
                        /\ to[i] # to[j]
      BY <1>5 DEF Distinct
    <3> DEFINE a == victims[i].node
               b == victims[j].node
    <3>1. a # b /\ a \in Resident /\ b \in Resident /\ a \in Nodes /\ b \in Nodes
      BY <1>18 DEF Resident, IInv, TypeOK
    <3>2. tree[a].block = victims[i].gpu /\ tree[b].block = victims[j].gpu
      BY <1>18
    <3> HIDE DEF a, b
    <3>3. /\ <<"node", a>> \in GpuOwners /\ <<"node", b>> \in GpuOwners
          /\ GpuLayout[<<"node", a>>] = {tree[a].block} /\ GpuLayout[<<"node", b>>] = {tree[b].block}
      BY <3>1, GpuLayoutIs
    <3>4. <<"node", a>> # <<"node", b>>
      BY <3>1
    <3>5. tree[a].block # tree[b].block
      BY <3>3, <3>4 DEF IInv, OwnInv, OwnedOnce
    <3> QED BY <1>3, <3>1, <3>2, <3>5 DEF a, b
  <2>2. \A t \in InFlight' : Distinct(t.items)
    BY <1>6, <1>8, <2>1 DEF IInv, ItemsInv
  <2>3. \A it \in OutItems' : /\ it.node \in node_map
                              /\ tree[it.node].status \in {"SWAP2CPU", "GPU"}
                              /\ tree[it.node].block = it.gpu
    BY <1>5, <1>11, <1>18
  <2> QED BY <1>1, <1>10, <2>2, <2>3 DEF IInv, ItemsInv
<1>20. VictimsInv'
  BY <1>1 DEF VictimsInv
<1>21. StatusInv'
  BY <1>1, <1>7, <1>10, <1>12 DEF IInv, StatusInv
<1>22. PhaseInv'
  BY <1>0, <1>1 DEF IInv, PhaseInv
<1>23. RoomInv'
  <2>1. holder # "free_gpu" /\ holder # "free_cpu"
    BY <1>0 DEF IInv, PhaseInv
  <2>2. Len(victims') = 0 /\ MaxSeqBlocks \in Nat
    BY <1>1, CacheAssumption
  <2> QED BY <1>1, <2>1, <2>2 DEF RoomInv
<1>24. OwnedOnce(CpuLayout', CpuOwners, CpuBlocks)
  <2> DEFINE F == CpuLayout
             G == CpuLayout'
             S == Range(to)
  <2>1. Resident' = Resident
    BY <1>1 DEF Resident
  <2>2. F[FreeList] = cpu_free /\ G[FreeList] = cpu_free \ S
    BY <1>1, CpuLayoutIs, CpuLayoutNext
  <2>3. F[SwapOut] = {}
    BY <1>7, CpuLayoutIs
  <2>4. G[SwapOut] = S
    <3>1. {it.cpu : it \in OutItems'} = {to[i] : i \in 1 .. L}
      BY <1>5, <1>11
    <3> QED BY <1>4, <3>1, CpuLayoutNext
  <2>5. \A n \in Nodes : G[<<"node", n>>] = F[<<"node", n>>]
    BY <1>1, <2>1, CpuLayoutIs, CpuLayoutNext
  <2>6. ASSUME NEW o \in CpuOwners, o # FreeList, o # SwapOut PROVE G[o] = F[o]
    BY <2>5, <2>6, CpuOwnerIs
  <2>7. OwnedOnce(F, CpuOwners, CpuBlocks)
    BY DEF IInv, OwnInv
  <2> HIDE DEF F, G
  <2>8. OwnedOnce(G, CpuOwners, CpuBlocks)
    BY <1>4, <2>2, <2>3, <2>4, <2>6, <2>7, CpuLayoutIs, CpuOwnersDiffer, HandedOver
  <2> QED BY <2>8 DEF G
<1>25. OwnInv'
  <2>1. \A r \in Requests : Pending(r)' = Pending(r)
    BY <1>1, <1>10, <1>15, <1>17, SamePending
  <2> QED BY <1>1, <1>24, <2>1, SameGpuLayout DEF OwnInv
<1> QED BY <1>13, <1>14, <1>15, <1>16, <1>17, <1>19, <1>20, <1>21, <1>22, <1>23, <1>25 DEF IInv

-----------------------------------------------------------------------------
(* recv_data_transfer_result handles one item.                             *)

(* A tree with the same links is linked.                                   *)
LEMMA LinkedSame ==
    ASSUME NEW t, NEW L, Rooted(t, L), NEW u,
           \A n \in L \cup {Root} : /\ u[n].parent = t[n].parent /\ u[n].kids = t[n].kids
                                    /\ u[n].key = t[n].key /\ u[n].depth = t[n].depth
    PROVE  Rooted(u, L)
<1>1. /\ Linked(t, L) /\ Root \notin L
      /\ \A n \in L \cup {Root} : t[n].depth \in Nat
  BY DEF Rooted
<1>2. u[Root].depth = 0
  BY <1>1 DEF Linked
<1>3. \A n \in L : /\ u[n].parent \in L \cup {Root}
                   /\ n \in u[u[n].parent].kids
                   /\ u[n].depth = u[u[n].parent].depth + 1
  BY <1>1 DEF Linked
<1>4. \A n \in L \cup {Root} : \A m \in u[n].kids : m \in L /\ u[m].parent = n
  BY <1>1 DEF Linked
<1>5. \A n \in L \cup {Root} : \A m1, m2 \in u[n].kids : u[m1].key = u[m2].key => m1 = m2
  BY <1>1 DEF Linked
<1> QED BY <1>1, <1>2, <1>3, <1>4, <1>5 DEF Rooted, Linked

(* The items that remain differ from the first.                            *)
LEMMA TailItems ==
    ASSUME NEW items \in Seq(Item), items # << >>, Distinct(items)
    PROVE  /\ Head(items) \in Item /\ Head(items) \in Range(items)
           /\ Tail(items) \in Seq(Item) /\ Distinct(Tail(items))
           /\ Range(Tail(items)) = Range(items) \ {Head(items)}
           /\ \A it \in Range(Tail(items)) : /\ it.node # Head(items).node
                                             /\ it.gpu # Head(items).gpu
                                             /\ it.cpu # Head(items).cpu
<1> DEFINE L == Len(items)
           rest == Tail(items)
<1>1. /\ L \in Nat /\ L # 0 /\ DOMAIN items = 1 .. L /\ Head(items) = items[1]
      /\ rest \in Seq(Item) /\ Len(rest) = L - 1 /\ DOMAIN rest = 1 .. L - 1
      /\ \A i \in 1 .. L - 1 : rest[i] = items[i + 1]
  OBVIOUS
<1>2. \A i \in 1 .. L : items[i] \in Item
  BY ElementOfSeq
<1> HIDE DEF L, rest
<1>3. Range(items) = {items[i] : i \in 1 .. L} /\ Range(rest) = {rest[i] : i \in 1 .. L - 1}
  BY <1>1 DEF Range
<1>4. 1 \in 1 .. L /\ \A i \in 1 .. L - 1 : i + 1 \in 1 .. L /\ i + 1 # 1
  BY <1>1
<1>5. \A i \in 2 .. L : i - 1 \in 1 .. L - 1 /\ (i - 1) + 1 = i
  BY <1>1
<1>6. \A i, j \in 1 .. L : i # j => /\ items[i].node # items[j].node
                                    /\ items[i].gpu # items[j].gpu
                                    /\ items[i].cpu # items[j].cpu
  BY <1>1 DEF Distinct
<1>7. Distinct(rest)
  <2> SUFFICES ASSUME NEW i \in 1 .. L - 1, NEW j \in 1 .. L - 1, i # j
               PROVE  /\ rest[i].node # rest[j].node /\ rest[i].gpu # rest[j].gpu
                      /\ rest[i].cpu # rest[j].cpu
    BY <1>1 DEF Distinct
  <2>1. i + 1 # j + 1 /\ i + 1 \in 1 .. L /\ j + 1 \in 1 .. L
    BY <1>4
  <2>2. rest[i] = items[i + 1] /\ rest[j] = items[j + 1]
    BY <1>1
  <2> QED BY ONLY <1>6, <2>1, <2>2
<1>8. \A it \in Range(rest) : /\ it.node # items[1].node
                              /\ it.gpu # items[1].gpu
                              /\ it.cpu # items[1].cpu
  BY <1>1, <1>3, <1>4, <1>6
<1>9. Range(rest) = Range(items) \ {items[1]}
  <2>1. Range(rest) \subseteq Range(items) /\ items[1] \notin Range(rest)
    BY <1>1, <1>3, <1>4, <1>8
  <2>2. ASSUME NEW i \in 1 .. L, items[i] # items[1] PROVE items[i] \in Range(rest)
    <3>1. i \in 2 .. L
      BY <1>1, <2>2
    <3>2. i - 1 \in 1 .. L - 1 /\ rest[i - 1] = items[i]
      BY <1>1, <1>5, <3>1
    <3> QED BY ONLY <1>3, <3>2
  <2> QED BY <1>3, <2>1, <2>2
<1>10. items[1] \in Range(items) /\ items[1] \in Item
  BY <1>2, <1>3, <1>4
<1> QED BY <1>1, <1>7, <1>8, <1>9, <1>10 DEF rest

\* recv_data_transfer_result is done with the first item
FirstItem == Head(result[1].items)
ItemHandled ==
    /\ result # << >> /\ result[1].items # << >>
    /\ result' = <<[result[1] EXCEPT !.items = Tail(@)]>>
    /\ UNCHANGED <<transfers, victims>>

(* What is in flight once the first item is handled.                       *)
LEMMA HandledItems ==
    ASSUME IInv, ItemHandled
    PROVE  /\ FirstItem \in Item
           /\ SwapTypes' /\ OneTask' /\ \A t \in InFlight' : Distinct(t.items)
           /\ \A x : (\E t \in InFlight' : t.for = x) <=> (\E t \in InFlight : t.for = x)
           /\ InFlight # {}
           /\ result[1].type = "SWAP2CPU" =>
                /\ FirstItem \in OutItems /\ InItems' = InItems /\ OutItems' = OutItems \ {FirstItem}
                /\ \A it \in OutItems' : /\ it.node # FirstItem.node /\ it.gpu # FirstItem.gpu
                                         /\ it.cpu # FirstItem.cpu
           /\ result[1].type # "SWAP2CPU" =>
                /\ FirstItem \in InItems /\ OutItems' = OutItems /\ InItems' = InItems \ {FirstItem}
                /\ holder \in Requests
                /\ \A it \in InItems' : /\ it.node # FirstItem.node /\ it.gpu # FirstItem.gpu
                                        /\ it.cpu # FirstItem.cpu
<1> DEFINE old == result[1]
           new == [result[1] EXCEPT !.items = Tail(@)]
           it1 == FirstItem
<1>1. /\ old \in Task /\ old \in InFlight /\ InFlight = transfers \cup {old}
      /\ \A t \in transfers : t.for # old.for
  BY ResultIs DEF ItemHandled
<1>2. /\ old.items \in Seq(Item) /\ old.items # << >> /\ Distinct(old.items)
      /\ old.type = "SWAP2CPU" <=> old.for = Nobody
  BY <1>1 DEF IInv, ItemsInv, SwapTypes, Task, ItemHandled
<1>3. /\ new \in Task /\ new.for = old.for /\ new.type = old.type /\ new.items = Tail(old.items)
  <2>1. Tail(old.items) \in Seq(Item)
    BY <1>2, TailItems
  <2> QED BY <1>1, <2>1 DEF Task
<1>4. /\ it1 \in Item /\ it1 \in ItemsOf(old) /\ Distinct(new.items)
      /\ ItemsOf(new) = ItemsOf(old) \ {it1}
      /\ \A it \in ItemsOf(new) : it.node # it1.node /\ it.gpu # it1.gpu /\ it.cpu # it1.cpu
  BY <1>2, <1>3, TailItems DEF ItemsOf, FirstItem
<1>5. result' = <<new>>
  BY DEF ItemHandled
<1> HIDE DEF new
<1>6. Range(result') = {new} /\ result' \in Seq(Task) /\ Len(result') = 1 /\ result'[1] = new
  BY <1>3, <1>5 DEF Range
<1>7. InFlight' = transfers \cup {new}
  BY <1>6 DEF InFlight, ItemHandled
<1>8. SwapTypes'
  BY <1>1, <1>2, <1>3, <1>6, <1>7 DEF IInv, SwapTypes, ItemHandled
<1>9. OneTask'
  <2>1. new \notin transfers /\ \A t \in transfers : t.for # new.for
    BY <1>1, <1>3
  <2>2. \A t, u \in transfers : t.for = u.for => t = u
    BY <1>1 DEF IInv, OneTask
  <2>3. \A t, u \in InFlight' : t.for = u.for => t = u
    BY ONLY <1>7, <2>1, <2>2
  <2>4. transfers' = transfers
    BY DEF ItemHandled
  <2> QED BY ONLY <1>6, <2>1, <2>3, <2>4 DEF OneTask
<1>10. \A t \in InFlight' : Distinct(t.items)
  BY <1>1, <1>4, <1>7 DEF IInv, ItemsInv
<1>11. \A x : (\E t \in InFlight' : t.for = x) <=> (\E t \in InFlight : t.for = x)
  BY <1>1, <1>3, <1>7
<1>12. ASSUME old.type = "SWAP2CPU"
       PROVE  /\ it1 \in OutItems /\ InItems' = InItems /\ OutItems' = OutItems \ {it1}
              /\ \A it \in OutItems' : it.node # it1.node /\ it.gpu # it1.gpu /\ it.cpu # it1.cpu
  <2>1. old.for = Nobody
    BY <1>2, <1>12
  <2>2. /\ {u \in InFlight : u.for = Nobody} = {old} /\ {u \in InFlight' : u.for = Nobody} = {new}
        /\ {u \in InFlight' : u.for # Nobody} = {u \in InFlight : u.for # Nobody}
    BY <2>1, <1>1, <1>3, <1>7
  <2>3. OutItems = ItemsOf(old) /\ OutItems' = ItemsOf(new) /\ InItems' = InItems
    BY <2>2 DEF OutItems, InItems
  <2> QED BY <2>3, <1>4
<1>13. ASSUME old.type # "SWAP2CPU"
       PROVE  /\ it1 \in InItems /\ OutItems' = OutItems /\ InItems' = InItems \ {it1}
              /\ holder \in Requests
              /\ \A it \in InItems' : it.node # it1.node /\ it.gpu # it1.gpu /\ it.cpu # it1.cpu
  <2>1. old.for # Nobody /\ old.for \in Requests
    BY <1>1, <1>2, <1>13, TaskTypes DEF IInv
  <2>2. holder = old.for
    BY <1>1, <2>1 DEF IInv, Waits
  <2>3. \A t \in InFlight : t.for = old.for <=> t.for # Nobody
    BY <2>1, <2>2, SwappingIs
  <2>4. /\ {u \in InFlight : u.for # Nobody} = {old} /\ {u \in InFlight' : u.for # Nobody} = {new}
        /\ {u \in InFlight' : u.for = Nobody} = {u \in InFlight : u.for = Nobody}
    BY <2>1, <2>3, <1>1, <1>3, <1>7
  <2>5. InItems = ItemsOf(old) /\ InItems' = ItemsOf(new) /\ OutItems' = OutItems
    BY <2>4 DEF OutItems, InItems
  <2> QED BY <2>1, <2>2, <2>5, <1>4
<1> QED BY <1>1, <1>4, <1>8, <1>9, <1>10, <1>11, <1>12, <1>13

-----------------------------------------------------------------------------
(* The node is in use again: it keeps its GPU block, the CPU block is      *)
(* free.                                                                   *)
LEMMA HandledReused ==
    ASSUME IInv, ItemHandled, result[1].type = "SWAP2CPU",
           tree[FirstItem.node].status = "GPU", tree' = tree, cpu_lru' = cpu_lru,
           gpu_free' = gpu_free, cpu_free' = cpu_free \cup {FirstItem.cpu},
           UNCHANGED <<node_map, gpu_lru, reqVars, evictVars, holder, state, table>>
    PROVE  IInv'
<1> DEFINE it == FirstItem
           n == it.node
<1> USE DEF reqVars, evictVars
<1>1. /\ it \in Item /\ SwapTypes' /\ OneTask' /\ InFlight # {}
      /\ \A t \in InFlight' : Distinct(t.items)
      /\ \A x : (\E t \in InFlight' : t.for = x) <=> (\E t \in InFlight : t.for = x)
      /\ it \in OutItems /\ InItems' = InItems /\ OutItems' = OutItems \ {it}
      /\ \A i \in OutItems' : i.node # n /\ i.gpu # it.gpu /\ i.cpu # it.cpu
  BY HandledItems
<1> HIDE DEF it
<1>2. TreeInv' /\ ReqInv' /\ CountInv' /\ LruInv' /\ UsedInv'
  BY <1>1, QuietTree
<1>3. Waits'
  BY <1>1 DEF IInv, Waits
<1>4. it.cpu \in CpuBlocks
  BY <1>1 DEF Item
<1>5. TypeOK'
  BY <1>4 DEF it, IInv, TypeOK
<1>6. ItemsInv'
  BY <1>1 DEF IInv, ItemsInv
<1>7. VictimsInv'
  BY DEF IInv, VictimsInv, ItemHandled
<1>8. StatusInv'
  <2>1. InNodes' = InNodes /\ VictimNodes' = VictimNodes
    BY <1>1 DEF InNodes, VictimNodes, ItemHandled
  <2>2. \A m \in OutNodes : m # n => m \in OutNodes'
    BY <1>1 DEF OutNodes
  <2>3. tree[n].status # "SWAP2CPU"
    BY DEF it
  <2> QED BY <2>1, <2>2, <2>3 DEF IInv, StatusInv
<1>9. PhaseInv'
  BY <1>1 DEF IInv, PhaseInv, ItemHandled
<1>10. future = "swap"
  BY <1>1, NoSwapOut DEF IInv
<1>11. RoomInv'
  <2>1. holder # "free_cpu"
    BY <1>10 DEF IInv, PhaseInv
  <2> QED BY <1>10, <2>1 DEF IInv, RoomInv, ItemHandled
<1>12. OwnedOnce(CpuLayout', CpuOwners, CpuBlocks)
  <2> DEFINE F == CpuLayout
             G == CpuLayout'
             S == {it.cpu}
  <2>1. Resident' = Resident
    BY DEF Resident
  <2>2. F[FreeList] = cpu_free /\ G[FreeList] = cpu_free \cup S
    BY CpuLayoutIs, CpuLayoutNext DEF it
  <2>3. F[SwapOut] = {i.cpu : i \in OutItems} /\ G[SwapOut] = {i.cpu : i \in OutItems'}
    BY CpuLayoutIs, CpuLayoutNext
  <2>4. G[SwapOut] = F[SwapOut] \ S /\ S \subseteq F[SwapOut]
    BY <2>3, <1>1
  <2>5. \A m \in Nodes : G[<<"node", m>>] = F[<<"node", m>>]
    BY <2>1, CpuLayoutIs, CpuLayoutNext
  <2>6. ASSUME NEW o \in CpuOwners, o # FreeList, o # SwapOut PROVE G[o] = F[o]
    BY <2>5, <2>6, CpuOwnerIs
  <2>7. OwnedOnce(F, CpuOwners, CpuBlocks)
    BY DEF IInv, OwnInv
  <2>9. G[FreeList] = F[FreeList] \cup S
    BY <2>2
  <2>10. SwapOut \in CpuOwners /\ FreeList \in CpuOwners /\ SwapOut # FreeList
    BY CpuLayoutIs, CpuOwnersDiffer
  <2> HIDE DEF F, G, S
  <2>8. OwnedOnce(G, CpuOwners, CpuBlocks)
    BY <2>4, <2>6, <2>7, <2>9, <2>10, HandedOver
  <2> QED BY <2>8 DEF G
<1>13. OwnInv'
  <2>1. \A r \in Requests : Pending(r)' = Pending(r)
    BY <1>1, <1>3, SamePending
  <2> QED BY <1>12, <2>1, SameGpuLayout DEF OwnInv
<1> QED BY <1>1, <1>2, <1>3, <1>5, <1>6, <1>7, <1>8, <1>9, <1>11, <1>13 DEF IInv

-----------------------------------------------------------------------------
(* The node moves to its CPU block, the GPU block is free.                 *)
LEMMA HandledToCpu ==
    ASSUME IInv, ItemHandled, result[1].type = "SWAP2CPU",
           tree[FirstItem.node].status # "GPU",
           tree' = [tree EXCEPT ![FirstItem.node].status = "CPU", ![FirstItem.node].block = FirstItem.cpu],
           cpu_lru' = IF tree[FirstItem.node].shared = 0 /\ IsCpuLeaf(tree', FirstItem.node)
                      THEN cpu_lru \cup {FirstItem.node} ELSE cpu_lru,
           gpu_free' = gpu_free \cup {FirstItem.gpu}, cpu_free' = cpu_free,
           UNCHANGED <<node_map, gpu_lru, reqVars, evictVars, holder, state, table>>
    PROVE  IInv'
<1> DEFINE it == FirstItem
           n == it.node
<1> USE DEF reqVars, evictVars
<1>1. /\ it \in Item /\ SwapTypes' /\ OneTask' /\ InFlight # {}
      /\ \A t \in InFlight' : Distinct(t.items)
      /\ \A x : (\E t \in InFlight' : t.for = x) <=> (\E t \in InFlight : t.for = x)
      /\ it \in OutItems /\ InItems' = InItems /\ OutItems' = OutItems \ {it}
      /\ \A i \in OutItems' : i.node # n /\ i.gpu # it.gpu /\ i.cpu # it.cpu
  BY HandledItems
<1>2. /\ n \in node_map /\ tree[n].status = "SWAP2CPU" /\ tree[n].block = it.gpu
      /\ node_map \subseteq Nodes /\ tree \in [{Root} \cup Nodes -> NodeRecord] /\ n # Root
  BY <1>1, InvRooted DEF IInv, ItemsInv, TypeOK, Rooted
<1>3. /\ tree' \in [{Root} \cup Nodes -> NodeRecord]
      /\ tree'[n] = [tree[n] EXCEPT !.status = "CPU", !.block = it.cpu]
      /\ \A m \in {Root} \cup Nodes : m # n => tree'[m] = tree[m]
  <2>1. [tree[n] EXCEPT !.status = "CPU", !.block = it.cpu] \in NodeRecord
    <3>1. it.cpu \in Int /\ tree[n] \in NodeRecord
      BY <1>1, <1>2, CacheAssumption DEF Item, CpuBlocks
    <3> HIDE DEF it
    <3> QED BY <3>1 DEF NodeRecord
  <2> QED BY <1>2, <2>1
<1>4. /\ tree'[n].status = "CPU" /\ tree'[n].block = it.cpu /\ tree'[n].shared = tree[n].shared
      /\ tree'[n].parent = tree[n].parent /\ tree'[n].kids = tree[n].kids
      /\ tree'[n].key = tree[n].key /\ tree'[n].depth = tree[n].depth
      /\ tree'[n].reserved = tree[n].reserved
  BY <1>2, <1>3 DEF NodeRecord
<1>5. /\ cpu_lru' = IF tree[n].shared = 0 /\ IsCpuLeaf(tree', n) THEN cpu_lru \cup {n} ELSE cpu_lru
      /\ gpu_free' = gpu_free \cup {it.gpu}
  OBVIOUS
<1> HIDE DEF it
<1>6. Rooted(tree, node_map)
  BY InvRooted
<1>7. Rooted(tree', node_map)
  <2>2. \A m \in node_map \cup {Root} :
            /\ tree'[m].parent = tree[m].parent /\ tree'[m].kids = tree[m].kids
            /\ tree'[m].key = tree[m].key /\ tree'[m].depth = tree[m].depth
    BY <1>2, <1>3, <1>4
  <2> QED BY ONLY <1>6, <2>2, LinkedSame
<1>8. future = "swap" /\ holder \notin {"free_gpu", "free_cpu"} /\ victims = << >>
  <2>1. future = "swap"
    BY <1>1, NoSwapOut DEF IInv
  <2> QED BY <2>1 DEF IInv, PhaseInv
<1>9. tree[n].shared = 0 /\ \A r \in Requests : ~Uses(r, n)
  <2>1. tree[n].shared = 0
    BY <1>2 DEF IInv, UsedInv
  <2> QED BY <1>2, <2>1, Unused
<1>10. ASSUME NEW r \in Requests
       PROVE  /\ NewInv(r)' /\ SwappingInv(r)' /\ AdmittedInv(r)' /\ RunningInv(r)'
              /\ \A m : Uses(r, m)' <=> Uses(r, m)
  <2>1. ASSUME state[r] = "swapping", NEW k \in tree'[cache_info[r]].kids
        PROVE  k \in tree[cache_info[r]].kids /\ tree'[k].key = tree[k].key
    <3>1. cache_info[r] \in node_map
      BY <2>1, LeafPlaces
    <3>2. tree'[cache_info[r]].kids = tree[cache_info[r]].kids
      BY <1>2, <1>3, <1>4, <3>1
    <3>3. k \in node_map
      BY <1>6, <2>1, <3>1, <3>2 DEF Rooted, Linked
    <3> QED BY <1>2, <1>3, <1>4, <2>1, <3>2, <3>3
  <2>2. \A m \in node_map : Uses(r, m) => tree'[m] = tree[m]
    BY <1>2, <1>3, <1>9
  <2> QED BY <1>1, <1>7, <2>1, <2>2, ReqFrame
<1>11. ReqInv'
  BY <1>10 DEF IInv, ReqInv
<1>12. TreeInv'
  BY <1>2, <1>3, <1>7 DEF IInv, TreeInv, Rooted
<1>13. CountInv'
  <2>1. \A m : Users(m)' = Users(m)
    BY <1>10 DEF Users
  <2>2. \A m \in node_map : tree'[m].shared = tree[m].shared
    BY <1>2, <1>3, <1>4
  <2> QED BY <2>1, <2>2 DEF IInv, CountInv
<1>14. UsedInv'
  BY <1>2, <1>3, <1>4, <1>9 DEF IInv, UsedInv
<1>15. TypeOK'
  <2>1. it.gpu \in GpuBlocks
    BY <1>1 DEF Item
  <2>2. cpu_lru' \subseteq Nodes
    BY <1>2, <1>5 DEF IInv, TypeOK
  <2> QED BY <1>3, <1>5, <2>1, <2>2 DEF IInv, TypeOK
<1>16. Waits'
  BY <1>1 DEF IInv, Waits
<1>17. ItemsInv'
  <2>1. \A i \in OutItems' : i \in OutItems /\ i.node # n
    BY <1>1
  <2>2. \A i \in InItems : i.node \in node_map /\ i.node # n
    BY <1>2 DEF IInv, ItemsInv
  <2>3. \A i \in OutItems' : /\ i.node \in node_map
                             /\ tree'[i.node].status \in {"SWAP2CPU", "GPU"}
                             /\ tree'[i.node].block = i.gpu
    BY <1>2, <1>3, <2>1 DEF IInv, ItemsInv
  <2>4. \A i \in InItems : /\ i.node \in node_map
                           /\ tree'[i.node].status = "SWAP2GPU"
                           /\ tree'[i.node].block = i.cpu
    BY <1>2, <1>3, <2>2 DEF IInv, ItemsInv
  <2> QED BY <1>1, <2>3, <2>4 DEF ItemsInv
<1>18. VictimsInv'
  BY <1>8 DEF VictimsInv, ItemHandled
<1>19. StatusInv'
  <2>1. InNodes' = InNodes /\ VictimNodes' = {} /\ VictimNodes = {}
    BY <1>1, <1>8 DEF InNodes, VictimNodes, ItemHandled
  <2>2. \A m \in OutNodes : m # n => m \in OutNodes'
    BY <1>1 DEF OutNodes
  <2>3. \A m \in node_map : tree[m].status = "SWAP2CPU" => m \in OutNodes
    BY <2>1 DEF IInv, StatusInv
  <2>4. \A m \in node_map : tree'[m].status = "SWAP2CPU" => m \in OutNodes'
    BY <1>2, <1>3, <1>4, <2>2, <2>3
  <2>5. \A m \in node_map : tree'[m].status = "SWAP2GPU" => m \in InNodes'
    BY <1>2, <1>3, <1>4, <2>1 DEF IInv, StatusInv
  <2>6. ASSUME NEW m \in node_map, tree'[tree'[m].parent].status \in {"CPU", "SWAP2CPU"}
        PROVE  tree'[m].status \in {"CPU", "SWAP2CPU"}
    <3>1. tree'[m].parent = tree[m].parent /\ tree[m].parent \in node_map \cup {Root}
      BY <1>2, <1>3, <1>4, <1>6 DEF Rooted, Linked
    <3>2. tree[tree[m].parent].status \in {"CPU", "SWAP2CPU"}
      BY <1>2, <1>3, <2>6, <3>1
    <3>3. tree[m].status \in {"CPU", "SWAP2CPU"}
      BY <3>2 DEF IInv, StatusInv
    <3> QED BY <1>2, <1>3, <1>4, <3>3
  <2> QED BY <2>1, <2>4, <2>5, <2>6 DEF StatusInv
<1>20. LruInv'
  <2>1. \A m \in {Root} \cup Nodes : tree'[m].kids = tree[m].kids
    BY <1>2, <1>3, <1>4
  <2>2. \A m \in node_map : tree'[m].status = "GPU" <=> tree[m].status = "GPU"
    BY <1>2, <1>3, <1>4
  <2>3. ASSUME NEW m \in node_map PROVE IsGpuLeaf(tree', m) <=> IsGpuLeaf(tree, m)
    <3>1. \A k \in tree[m].kids : k \in node_map
      BY <1>6 DEF Rooted, Linked
    <3> QED BY <1>2, <2>1, <2>2, <3>1 DEF IsGpuLeaf
  <2>4. ASSUME NEW m \in node_map, m # n PROVE IsCpuLeaf(tree', m) <=> IsCpuLeaf(tree, m)
    BY <1>2, <1>3, <2>4 DEF IsCpuLeaf
  <2>5. \A m \in node_map : tree'[m].shared = tree[m].shared
    BY <1>2, <1>3, <1>4
  <2>6. \A m \in gpu_lru' : m \in node_map /\ tree'[m].status = "GPU" /\ tree'[m].shared = 0
    BY <1>2, <1>3 DEF IInv, LruInv
  <2>7. \A m \in cpu_lru' : m \in node_map /\ tree'[m].status = "CPU" /\ tree'[m].shared = 0
    BY <1>2, <1>3, <1>4, <1>5, <1>9 DEF IInv, LruInv
  <2>8. ASSUME NEW m \in node_map, tree'[m].shared = 0
        PROVE  /\ IsGpuLeaf(tree', m) => m \in gpu_lru'
               /\ IsCpuLeaf(tree', m) => m \in cpu_lru'
    <3>1. IsGpuLeaf(tree', m) => m \in gpu_lru'
      BY <2>3, <2>5, <2>8 DEF IInv, LruInv
    <3>2. CASE m = n
      BY <1>5, <1>9, <3>1, <3>2
    <3>3. CASE m # n
      BY <1>5, <2>4, <2>5, <2>8, <3>1, <3>3 DEF IInv, LruInv
    <3> QED BY <3>2, <3>3
  <2> QED BY <2>6, <2>7, <2>8 DEF LruInv
<1>21. PhaseInv'
  BY <1>1, <1>8 DEF IInv, PhaseInv, ItemHandled
<1>22. RoomInv'
  BY <1>8 DEF IInv, RoomInv, ItemHandled
<1>23. Resident' = Resident \ {n} /\ n \in Resident
  <2>1. \A m \in node_map : m # n => tree'[m] = tree[m]
    BY <1>2, <1>3
  <2> QED BY <1>2, <1>4, <2>1 DEF Resident
<1>24. OwnedOnce(CpuLayout', CpuOwners, CpuBlocks)
  <2> DEFINE F == CpuLayout
             G == CpuLayout'
             S == {it.cpu}
             q == <<"node", n>>
  <2>1. F[FreeList] = G[FreeList]
    BY CpuLayoutIs, CpuLayoutNext
  <2>2. F[SwapOut] = {i.cpu : i \in OutItems} /\ G[SwapOut] = {i.cpu : i \in OutItems'}
    BY CpuLayoutIs, CpuLayoutNext
  <2>3. G[SwapOut] = F[SwapOut] \ S /\ S \subseteq F[SwapOut]
    BY <2>2, <1>1
  <2>4. F[q] = {} /\ G[q] = S /\ q \in CpuOwners
    BY <1>2, <1>4, <1>23, CpuLayoutIs, CpuLayoutNext
  <2>5. ASSUME NEW m \in Nodes, m # n PROVE G[<<"node", m>>] = F[<<"node", m>>]
    <3>1. m \in Resident' <=> m \in Resident
      BY <1>23, <2>5
    <3>2. tree'[m] = tree[m]
      BY <1>3, <2>5
    <3> QED BY <3>1, <3>2, CpuLayoutIs, CpuLayoutNext
  <2>6. ASSUME NEW o \in CpuOwners, o # SwapOut, o # q PROVE G[o] = F[o]
    BY <2>1, <2>5, <2>6, CpuOwnerIs
  <2>7. OwnedOnce(F, CpuOwners, CpuBlocks) /\ SwapOut \in CpuOwners /\ SwapOut # q
    BY CpuLayoutIs, CpuOwnersDiffer DEF IInv, OwnInv
  <2> HIDE DEF F, G, q
  <2>8. OwnedOnce(G, CpuOwners, CpuBlocks)
    BY <2>3, <2>4, <2>6, <2>7, HandedOver
  <2> QED BY <2>8 DEF G
<1>25. \A r \in Requests : Pending(r)' = Pending(r)
  <2> SUFFICES ASSUME NEW r \in Requests PROVE Pending(r)' = Pending(r)
    OBVIOUS
  <2>1. state[r] = "swapping" => tree'[cache_info[r]].depth = tree[cache_info[r]].depth
    <3>1. state[r] = "swapping" => cache_info[r] \in node_map
      BY LeafPlaces
    <3> QED BY <1>2, <1>3, <1>4, <3>1
  <2> QED BY <1>1, <1>16, <2>1, SamePending
<1>26. OwnedOnce(GpuLayout', GpuOwners, GpuBlocks)
  <2> DEFINE F == GpuLayout
             G == GpuLayout'
             S == {it.gpu}
             p == <<"node", n>>
  <2>1. F[FreeList] = gpu_free /\ G[FreeList] = gpu_free \cup S
    BY <1>5, GpuLayoutIs, GpuLayoutNext
  <2>2. F[p] = S /\ G[p] = {} /\ p \in GpuOwners
    BY <1>2, <1>23, GpuLayoutIs, GpuLayoutNext
  <2>3. ASSUME NEW m \in Nodes, m # n PROVE G[<<"node", m>>] = F[<<"node", m>>]
    <3>1. m \in Resident' <=> m \in Resident
      BY <1>23, <2>3
    <3>2. tree'[m] = tree[m]
      BY <1>3, <2>3
    <3> QED BY <3>1, <3>2, GpuLayoutIs, GpuLayoutNext
  <2>4. \A m \in Nodes : G[<<"reserved", m>>] = F[<<"reserved", m>>]
    <3>1. \A m \in Nodes : tree'[m].reserved = tree[m].reserved
      BY <1>3, <1>4
    <3> QED BY <3>1, GpuLayoutIs, GpuLayoutNext
  <2>5. \A r \in Requests : /\ G[<<"unfilled", r>>] = F[<<"unfilled", r>>]
                            /\ G[<<"pending", r>>] = F[<<"pending", r>>]
    BY <1>25, GpuLayoutIs, GpuLayoutNext
  <2>6. ASSUME NEW o \in GpuOwners, o # FreeList, o # p PROVE G[o] = F[o]
    BY <2>3, <2>4, <2>5, <2>6, GpuOwnerIs
  <2>7. OwnedOnce(F, GpuOwners, GpuBlocks) /\ FreeList \in GpuOwners /\ FreeList # p
    BY GpuLayoutIs, GpuOwnersDiffer DEF IInv, OwnInv
  <2> HIDE DEF F, G, p
  <2>8. OwnedOnce(G, GpuOwners, GpuBlocks)
    BY <2>1, <2>2, <2>6, <2>7, HandedOver
  <2> QED BY <2>8 DEF G
<1> QED BY <1>1, <1>11, <1>12, <1>13, <1>14, <1>15, <1>16, <1>17, <1>18, <1>19, <1>20, <1>21,
           <1>22, <1>24, <1>26 DEF IInv, OwnInv

-----------------------------------------------------------------------------
(* The node moves to its GPU block, the CPU block is free.                 *)
LEMMA HandledToGpu ==
    ASSUME IInv, ItemHandled, result[1].type # "SWAP2CPU",
           tree' = [tree EXCEPT ![FirstItem.node].status = "GPU", ![FirstItem.node].block = FirstItem.gpu],
           cpu_lru' = cpu_lru, gpu_free' = gpu_free, cpu_free' = cpu_free \cup {FirstItem.cpu},
           UNCHANGED <<node_map, gpu_lru, reqVars, evictVars, holder, state, table>>
    PROVE  IInv'
<1> DEFINE it == FirstItem
           n == it.node
<1> USE DEF reqVars, evictVars
<1>1. /\ it \in Item /\ SwapTypes' /\ OneTask' /\ InFlight # {}
      /\ \A t \in InFlight' : Distinct(t.items)
      /\ \A x : (\E t \in InFlight' : t.for = x) <=> (\E t \in InFlight : t.for = x)
      /\ it \in InItems /\ OutItems' = OutItems /\ InItems' = InItems \ {it}
      /\ holder \in Requests
      /\ \A i \in InItems' : i.node # n /\ i.gpu # it.gpu /\ i.cpu # it.cpu
  BY HandledItems
<1>2. /\ n \in node_map /\ tree[n].status = "SWAP2GPU" /\ tree[n].block = it.cpu
      /\ node_map \subseteq Nodes /\ tree \in [{Root} \cup Nodes -> NodeRecord] /\ n # Root
  BY <1>1, InvRooted DEF IInv, ItemsInv, TypeOK, Rooted
<1>3. /\ tree' \in [{Root} \cup Nodes -> NodeRecord]
      /\ tree'[n] = [tree[n] EXCEPT !.status = "GPU", !.block = it.gpu]
      /\ \A m \in {Root} \cup Nodes : m # n => tree'[m] = tree[m]
  <2>1. [tree[n] EXCEPT !.status = "GPU", !.block = it.gpu] \in NodeRecord
    <3>1. it.gpu \in Int /\ tree[n] \in NodeRecord
      BY <1>1, <1>2, CacheAssumption DEF Item, GpuBlocks
    <3> HIDE DEF it
    <3> QED BY <3>1 DEF NodeRecord
  <2> QED BY <1>2, <2>1
<1>4. /\ tree'[n].status = "GPU" /\ tree'[n].block = it.gpu /\ tree'[n].shared = tree[n].shared
      /\ tree'[n].parent = tree[n].parent /\ tree'[n].kids = tree[n].kids
      /\ tree'[n].key = tree[n].key /\ tree'[n].depth = tree[n].depth
      /\ tree'[n].reserved = tree[n].reserved
  BY <1>2, <1>3 DEF NodeRecord
<1>5. cpu_free' = cpu_free \cup {it.cpu}
  OBVIOUS
<1> HIDE DEF it
<1>0. PICK r \in Requests : holder = r
  BY <1>1
<1>6. Rooted(tree, node_map)
  BY InvRooted
<1>7. Rooted(tree', node_map)
  <2>2. \A m \in node_map \cup {Root} :
            /\ tree'[m].parent = tree[m].parent /\ tree'[m].kids = tree[m].kids
            /\ tree'[m].key = tree[m].key /\ tree'[m].depth = tree[m].depth
    BY <1>2, <1>3, <1>4
  <2> QED BY ONLY <1>6, <2>2, LinkedSame
<1> DEFINE last == cache_info[r]
           path == PathIn(tree, last)
           d == tree[last].depth
<1>8. /\ state[r] = "swapping" /\ SwappingInv(r) /\ last \in node_map
      /\ \A q \in Requests : q # r => state[q] # "swapping"
  BY <1>0, SwappingIs, LeafPlaces
<1>9. /\ OnPrompt(r, last) /\ last # Root /\ req_leaf_map[r] = NoNode /\ unfilled[r] = {}
      /\ Len(table[r]) = BlockNum(r)
      /\ \A m \in path : tree[m].status \in {"GPU", "SWAP2GPU"}
      /\ InNodes \subseteq path
      /\ d = Len(Prompt[r]) \/ \A m \in tree[last].kids : tree[m].key # Prompt[r][d + 1]
      /\ \A i, j \in d + 1 .. Len(table[r]) : i # j => table[r][i] # table[r][j]
      /\ \A i \in d + 1 .. Len(table[r]) : \A i2 \in InItems : table[r][i] # i2.gpu
      /\ TableSet(r, d) = BlocksAt({m \in path : tree[m].status = "GPU"})
                            \cup {i.gpu : i \in InItems}
  BY <1>8 DEF SwappingInv
<1>10. n \in path /\ Uses(r, n)
  BY <1>1, <1>8, <1>9, UsesPaths DEF InNodes
<1>11. \A m \in node_map \cup {Root} : PathIn(tree', m) = PathIn(tree, m)
  <2> SUFFICES ASSUME NEW m \in node_map \cup {Root} PROVE PathIn(tree', m) = PathIn(tree, m)
    OBVIOUS
  <2>1. PathIn(tree, m) \subseteq node_map
    BY <1>6, PathShapes DEF PathShape
  <2>2. \A k \in PathIn(tree, m) : k \in node_map' /\ tree'[k].parent = tree[k].parent
    BY <1>2, <1>3, <1>4, <2>1
  <2> QED BY <1>7, <2>2, PathsKept
<1>12. \A q \in Requests : \A m : Uses(q, m)' <=> Uses(q, m)
  BY <1>11, LeafPlaces, UsesPaths, UsesPathsNext
<1>13. \A q \in Requests : q # r => ~Uses(q, n)
  <2> SUFFICES ASSUME NEW q \in Requests, q # r, Uses(q, n) PROVE FALSE
    OBVIOUS
  <2>1. req_leaf_map[q] # NoNode /\ n \in PathIn(tree, req_leaf_map[q])
    BY <1>8, UsesPaths
  <2>2. state[q] \in {"running", "ended"} /\ AdmittedInv(q)
    BY <2>1, LeafPlaces DEF IInv, ReqInv
  <2> QED BY <1>2, <2>1, <2>2 DEF AdmittedInv
<1>14. ASSUME NEW q \in Requests, q # r
       PROVE  NewInv(q)' /\ SwappingInv(q)' /\ AdmittedInv(q)' /\ RunningInv(q)'
  <2>1. \A m \in node_map : Uses(q, m) => tree'[m] = tree[m]
    BY <1>2, <1>3, <1>13, <1>14
  <2> QED BY <1>7, <1>8, <1>14, <2>1, ReqFrame
<1>15. \A m \in node_map \cup {Root} : /\ tree'[m].depth = tree[m].depth /\ tree'[m].key = tree[m].key
                                       /\ tree'[m].kids = tree[m].kids
                                       /\ tree'[m].shared = tree[m].shared
  BY <1>2, <1>3, <1>4
<1>16. path \subseteq node_map
  BY <1>6, <1>8, PathShapes DEF PathShape
<1>17. SwappingInv(r)'
  <2>1. PathIn(tree', last) = path /\ tree'[last].depth = d
    BY <1>8, <1>11, <1>15
  <2> DEFINE newpath == PathIn(tree', last)
             e == tree'[last].depth
  <2>2. newpath = path /\ e = d
    BY <2>1
  <2> HIDE DEF newpath, e
  <2>3. OnPrompt(r, last)'
    <3>1. \A m \in path : tree'[m].key = tree[m].key /\ tree'[m].depth = tree[m].depth
      BY <1>15, <1>16
    <3>2. d <= Len(Prompt[r]) /\ \A m \in path : tree[m].key = Prompt[r][tree[m].depth]
      BY <1>9 DEF OnPrompt
    <3>3. \A m \in path : tree'[m].key = Prompt[r][tree'[m].depth]
      BY <3>1, <3>2
    <3>4. last \in node_map' \cup {Root}
      BY <1>8
    <3>5. cache_info'[r] = cache_info[r]
      OBVIOUS
    <3> HIDE DEF path, d
    <3> QED BY ONLY <2>1, <3>2, <3>3, <3>4, <3>5 DEF OnPrompt
  <2>4. \A m \in newpath : tree'[m].status \in {"GPU", "SWAP2GPU"}
    BY <1>2, <1>3, <1>4, <1>9, <1>16, <2>2
  <2>5. InNodes' \subseteq newpath
    BY <1>1, <1>9, <2>2 DEF InNodes
  <2>6. e = Len(Prompt[r]) \/ \A m \in tree'[last].kids : tree'[m].key # Prompt[r][e + 1]
    <3>1. \A m \in tree[last].kids : m \in node_map
      BY <1>6, <1>8 DEF Rooted, Linked
    <3> QED BY <1>8, <1>9, <1>15, <2>2, <3>1
  <2>7. /\ \A i, j \in e + 1 .. Len(table'[r]) : i # j => table'[r][i] # table'[r][j]
        /\ \A i \in e + 1 .. Len(table'[r]) : \A i2 \in InItems' : table'[r][i] # i2.gpu
    BY <1>1, <1>9, <2>2
  <2>8. {table'[r][i] : i \in 1 .. e} = {tree'[m].block : m \in {k \in newpath : tree'[k].status = "GPU"}}
                                           \cup {i.gpu : i \in InItems'}
    <3>1. {k \in path : tree'[k].status = "GPU"} = {k \in path : tree[k].status = "GPU"} \cup {n}
      BY <1>2, <1>3, <1>4, <1>10, <1>16
    <3>2. {tree'[m].block : m \in {k \in path : tree'[k].status = "GPU"}}
            = {tree[m].block : m \in {k \in path : tree[k].status = "GPU"}} \cup {it.gpu}
      <4>1. \A m \in {k \in path : tree[k].status = "GPU"} : tree'[m].block = tree[m].block
        BY <1>2, <1>3, <1>16
      <4> DEFINE A == {k \in path : tree[k].status = "GPU"}
                 B == {k \in path : tree'[k].status = "GPU"}
      <4>2. B = A \cup {n} /\ (\A m \in A : tree'[m].block = tree[m].block) /\ tree'[n].block = it.gpu
        BY <1>4, <3>1, <4>1
      <4> HIDE DEF path, A, B
      <4>3. {tree'[m].block : m \in B} = {tree[m].block : m \in A} \cup {it.gpu}
        BY ONLY <4>2
      <4> QED BY <4>3 DEF A, B
    <3>3. {i.gpu : i \in InItems} = {i.gpu : i \in InItems'} \cup {it.gpu}
      BY <1>1
    <3>4. {table'[r][i] : i \in 1 .. d} = {tree[m].block : m \in {k \in path : tree[k].status = "GPU"}}
                                            \cup {i.gpu : i \in InItems}
      BY <1>9 DEF TableSet, BlocksAt
    <3> HIDE DEF path, d
    <3> QED BY <2>2, <3>2, <3>3, <3>4
  <2>9. /\ state'[r] = "swapping" /\ req_leaf_map'[r] = NoNode /\ unfilled'[r] = {} /\ last # Root
        /\ Len(table'[r]) = BlockNum(r)
    BY <1>8, <1>9
  <2>10. last = cache_info'[r]
    OBVIOUS
  <2> HIDE DEF last
  <2>11. OnPrompt(r, cache_info[r])' = OnPrompt(r, last)'
    BY DEF last
  <2> QED BY ONLY <2>3, <2>4, <2>5, <2>6, <2>7, <2>8, <2>9, <2>10, <2>11
       DEF SwappingInv, BlocksAt, TableSet, newpath, e
<1>18. ReqInv'
  <2>1. NewInv(r)' /\ AdmittedInv(r)' /\ RunningInv(r)'
    BY <1>8 DEF NewInv, AdmittedInv, RunningInv
  <2> QED BY <1>1, <1>14, <1>17, <2>1 DEF IInv, ReqInv
<1>19. TreeInv'
  BY <1>2, <1>3, <1>7 DEF IInv, TreeInv, Rooted
<1>20. CountInv'
  <2>1. \A m : Users(m)' = Users(m)
    BY <1>12 DEF Users
  <2> QED BY <1>15, <2>1 DEF IInv, CountInv
<1>21. UsedInv'
  BY <1>2, <1>3, <1>4 DEF IInv, UsedInv
<1>22. TypeOK'
  <2>1. it.cpu \in CpuBlocks
    BY <1>1 DEF Item
  <2> QED BY <1>3, <1>5, <2>1 DEF IInv, TypeOK
<1>23. Waits'
  BY <1>1 DEF IInv, Waits
<1>24. ItemsInv'
  <2>1. \A i \in InItems' : i \in InItems /\ i.node # n
    BY <1>1
  <2>2. \A i \in OutItems : i.node \in node_map /\ i.node # n
    BY <1>2 DEF IInv, ItemsInv
  <2>3. \A i \in OutItems : /\ i.node \in node_map
                            /\ tree'[i.node].status \in {"SWAP2CPU", "GPU"}
                            /\ tree'[i.node].block = i.gpu
    BY <1>2, <1>3, <2>2 DEF IInv, ItemsInv
  <2>4. \A i \in InItems' : /\ i.node \in node_map
                            /\ tree'[i.node].status = "SWAP2GPU"
                            /\ tree'[i.node].block = i.cpu
    <3>1. \A i \in InItems : /\ i.node \in node_map
                             /\ tree[i.node].status = "SWAP2GPU" /\ tree[i.node].block = i.cpu
      BY DEF IInv, ItemsInv
    <3>2. \A m \in node_map : m # n => tree'[m] = tree[m]
      BY <1>2, <1>3
    <3> QED BY ONLY <2>1, <3>1, <3>2
  <2> QED BY <1>1, <2>3, <2>4 DEF ItemsInv
<1>25. VictimsInv'
  <2>1. \A i \in DOMAIN victims : victims[i].node # n
    BY <1>2 DEF IInv, VictimsInv
  <2>2. \A i \in DOMAIN victims : tree'[victims[i].node] = tree[victims[i].node]
    BY <1>2, <1>3, <2>1 DEF IInv, VictimsInv
  <2>3. victims' = victims /\ node_map' = node_map /\ holder' = holder
    BY DEF ItemHandled
  <2>4. VictimsInv
    BY DEF IInv
  <2> QED BY ONLY <2>2, <2>3, <2>4 DEF VictimsInv
<1>26. StatusInv'
  <2>1. OutNodes' = OutNodes /\ VictimNodes' = VictimNodes
    BY <1>1 DEF OutNodes, VictimNodes, ItemHandled
  <2>2. \A m \in InNodes : m # n => m \in InNodes'
    BY <1>1 DEF InNodes
  <2>3. \A m \in node_map : tree'[m].status = "SWAP2CPU" => m \in VictimNodes \cup OutNodes
    BY <1>2, <1>3, <1>4 DEF IInv, StatusInv
  <2>4. \A m \in node_map : tree'[m].status = "SWAP2GPU" => m \in InNodes'
    BY <1>2, <1>3, <1>4, <2>2 DEF IInv, StatusInv
  <2>5. tree[tree[n].parent].status \in {"GPU", "SWAP2GPU"}
    <3>1. tree[n].parent \in path \cup {Root}
      BY <1>6, <1>8, <1>10, PathShapes DEF PathShape
    <3> QED BY <1>9, <3>1 DEF IInv, TreeInv
  <2>6. ASSUME NEW m \in node_map, tree'[tree'[m].parent].status \in {"CPU", "SWAP2CPU"}
        PROVE  /\ m # n /\ tree[m].parent # n
               /\ tree'[m] = tree[m] /\ tree'[tree[m].parent] = tree[tree[m].parent]
               /\ tree'[m].parent = tree[m].parent
    <3>1. tree'[m].parent = tree[m].parent /\ tree[m].parent \in node_map \cup {Root}
      BY <1>2, <1>3, <1>4, <1>6 DEF Rooted, Linked
    <3>2. tree[m].parent # n
      BY <1>4, <2>6, <3>1
    <3>3. tree'[tree[m].parent] = tree[tree[m].parent]
      BY <1>2, <1>3, <3>1, <3>2
    <3>4. m # n
      BY <2>5, <2>6, <3>1, <3>3
    <3> QED BY <1>2, <1>3, <3>1, <3>2, <3>3, <3>4
  <2>7. ASSUME NEW m \in node_map
        PROVE  LET p == tree'[m].parent
               IN  /\ tree'[p].status \in {"CPU", "SWAP2CPU"} => tree'[m].status \in {"CPU", "SWAP2CPU"}
                   /\ tree'[p].status = "CPU" /\ tree'[m].status = "SWAP2CPU" => m \in OutNodes
    <3>1. CASE tree'[tree'[m].parent].status \in {"CPU", "SWAP2CPU"}
      <4>1. /\ tree'[m] = tree[m] /\ tree'[tree[m].parent] = tree[tree[m].parent]
            /\ tree'[m].parent = tree[m].parent
        BY <2>6, <3>1
      <4>2. LET p == tree[m].parent
            IN  /\ tree[p].status \in {"CPU", "SWAP2CPU"} => tree[m].status \in {"CPU", "SWAP2CPU"}
                /\ tree[p].status = "CPU" /\ tree[m].status = "SWAP2CPU" => m \in OutNodes
        BY DEF IInv, StatusInv
      <4> QED BY ONLY <4>1, <4>2
    <3>2. CASE tree'[tree'[m].parent].status \notin {"CPU", "SWAP2CPU"}
      BY ONLY <3>2
    <3> QED BY ONLY <3>1, <3>2
  <2> QED BY <2>1, <2>3, <2>4, <2>7 DEF StatusInv
<1>27. LruInv'
  <2>0. tree[n].shared # 0
    BY <1>2, <1>10, Unused
  <2>1. ASSUME NEW m \in node_map, IsGpuLeaf(tree', m), m # n PROVE IsGpuLeaf(tree, m)
    <3>1. \A k \in tree[m].kids : k \in node_map
      BY <1>6 DEF Rooted, Linked
    <3>2. \A k \in tree[m].kids : tree[k].status # "GPU"
      BY <1>2, <1>3, <1>15, <2>1, <3>1 DEF IsGpuLeaf
    <3> QED BY <1>2, <1>3, <2>1, <3>2 DEF IsGpuLeaf
  <2>2. ASSUME NEW m \in node_map, m # n PROVE IsCpuLeaf(tree', m) <=> IsCpuLeaf(tree, m)
    BY <1>2, <1>3, <2>2 DEF IsCpuLeaf
  <2>5. /\ \A m \in gpu_lru : m \in node_map /\ m # n /\ tree[m].status = "GPU" /\ tree[m].shared = 0
        /\ \A m \in cpu_lru : m \in node_map /\ m # n /\ tree[m].status = "CPU" /\ tree[m].shared = 0
    BY <2>0 DEF IInv, LruInv
  <2>6. \A m \in node_map : m # n => tree'[m] = tree[m]
    BY <1>2, <1>3
  <2>3. /\ \A m \in gpu_lru' : m \in node_map /\ tree'[m].status = "GPU" /\ tree'[m].shared = 0
        /\ \A m \in cpu_lru' : m \in node_map /\ tree'[m].status = "CPU" /\ tree'[m].shared = 0
    BY <2>5, <2>6
  <2>4. ASSUME NEW m \in node_map, tree'[m].shared = 0
        PROVE  /\ IsGpuLeaf(tree', m) => m \in gpu_lru'
               /\ IsCpuLeaf(tree', m) => m \in cpu_lru'
    <3>1. m # n /\ tree[m].shared = 0
      BY <1>15, <2>0, <2>4
    <3> QED BY <2>1, <2>2, <3>1 DEF IInv, LruInv
  <2> QED BY <2>3, <2>4 DEF LruInv
<1>28. PhaseInv'
  BY <1>1 DEF IInv, PhaseInv
<1>29. RoomInv'
  <2>1. holder # "free_gpu" /\ holder # "free_cpu"
    BY <1>0, NamesAssumption
  <2>5. IsFiniteSet(cpu_free')
    <3>1. IsFiniteSet(cpu_free)
      BY FreeFinite
    <3>2. IsFiniteSet(cpu_free \cup {it.cpu})
      BY ONLY <3>1, FS_AddElement
    <3> QED BY <1>5, <3>2
  <2>2. Cardinality(cpu_free) <= Cardinality(cpu_free')
    <3>1. cpu_free \in SUBSET cpu_free'
      BY <1>5
    <3> QED BY ONLY <2>5, <3>1, FS_Subset
  <2>3. Cardinality(cpu_free) \in Nat /\ Cardinality(cpu_free') \in Nat /\ Len(victims) \in Nat
    <3>2. Len(victims) \in Nat
      BY LenProperties DEF IInv, SwapTypes
    <3> QED BY <2>5, <3>2, FreeFinite, FS_CardinalityType
  <2>4. future' = "evict" => Len(victims') <= Cardinality(cpu_free')
    <3>1. future = "evict" => Len(victims) <= Cardinality(cpu_free)
      BY DEF IInv, RoomInv
    <3> QED BY <2>2, <2>3, <3>1 DEF ItemHandled
  <2> QED BY <2>1, <2>4 DEF IInv, RoomInv, ItemHandled
<1>30. Resident' = Resident \cup {n} /\ n \notin Resident
  <2>1. \A m \in node_map : m # n => tree'[m] = tree[m]
    BY <1>2, <1>3
  <2> QED BY <1>2, <1>4, <2>1 DEF Resident
<1>31. OwnedOnce(CpuLayout', CpuOwners, CpuBlocks)
  <2> DEFINE F == CpuLayout
             G == CpuLayout'
             S == {it.cpu}
             p == <<"node", n>>
  <2>1. F[FreeList] = cpu_free /\ G[FreeList] = cpu_free \cup S
    BY <1>5, CpuLayoutIs, CpuLayoutNext
  <2>2. F[SwapOut] = G[SwapOut]
    BY <1>1, CpuLayoutIs, CpuLayoutNext
  <2>3. F[p] = S /\ G[p] = {} /\ p \in CpuOwners
    BY <1>2, <1>30, CpuLayoutIs, CpuLayoutNext
  <2>4. ASSUME NEW m \in Nodes, m # n PROVE G[<<"node", m>>] = F[<<"node", m>>]
    <3>1. m \in Resident' <=> m \in Resident
      BY <1>30, <2>4
    <3>2. tree'[m] = tree[m]
      BY <1>3, <2>4
    <3> QED BY <3>1, <3>2, CpuLayoutIs, CpuLayoutNext
  <2>5. ASSUME NEW o \in CpuOwners, o # FreeList, o # p PROVE G[o] = F[o]
    BY <2>2, <2>4, <2>5, CpuOwnerIs
  <2>6. /\ OwnedOnce(F, CpuOwners, CpuBlocks) /\ FreeList \in CpuOwners /\ FreeList # p
        /\ G[FreeList] = F[FreeList] \cup S
    BY <2>1, CpuLayoutIs, CpuOwnersDiffer DEF IInv, OwnInv
  <2>7. S \subseteq F[p] /\ G[p] = F[p] \ S
    BY <2>3
  <2> HIDE DEF F, G, p, S
  <2>8. OwnedOnce(G, CpuOwners, CpuBlocks)
    BY ONLY <2>3, <2>5, <2>6, <2>7, HandedOver
  <2> QED BY <2>8 DEF G
<1>32. \A q \in Requests : q # r => Pending(q)' = Pending(q)
  <2>1. \A q \in Requests : q # r => Pending(q) = {} /\ Pending(q)' = {}
    BY <1>8, <1>1, <1>23, PendingIs, PendingIsNext DEF IInv
  <2> QED BY <2>1
<1>33. Pending(r)' = Pending(r) \ {it.gpu} /\ it.gpu \in Pending(r)
  <2>1. Pending(r) = {table[r][i] : i \in d + 1 .. Len(table[r])} \cup {i.gpu : i \in InItems}
    BY <1>8, PendingIs DEF IInv
  <2>2. Pending(r)' = {table'[r][i] : i \in tree'[cache_info'[r]].depth + 1 .. Len(table'[r])}
                        \cup {i.gpu : i \in InItems'}
    BY <1>1, <1>8, <1>23, PendingIsNext
  <2>3. tree'[cache_info'[r]].depth = d
    BY <1>8, <1>15
  <2>4. Pending(r)' = {table[r][i] : i \in d + 1 .. Len(table[r])} \cup {i.gpu : i \in InItems'}
    BY <2>2, <2>3
  <2>5. {i.gpu : i \in InItems'} = {i.gpu : i \in InItems} \ {it.gpu}
    BY <1>1
  <2>6. it.gpu \notin {table[r][i] : i \in d + 1 .. Len(table[r])}
    BY <1>1, <1>9
  <2>7. it.gpu \in {i.gpu : i \in InItems}
    BY <1>1
  <2> HIDE DEF d
  <2> QED BY <2>1, <2>4, <2>5, <2>6, <2>7
<1>34. OwnedOnce(GpuLayout', GpuOwners, GpuBlocks)
  <2> DEFINE F == GpuLayout
             G == GpuLayout'
             S == {it.gpu}
             p == <<"pending", r>>
             q == <<"node", n>>
  <2>1. F[FreeList] = G[FreeList]
    BY GpuLayoutIs, GpuLayoutNext
  <2>2. F[q] = {} /\ G[q] = S /\ q \in GpuOwners
    BY <1>2, <1>4, <1>30, GpuLayoutIs, GpuLayoutNext
  <2>3. G[p] = F[p] \ S /\ S \subseteq F[p] /\ p \in GpuOwners
    BY <1>33, GpuLayoutIs, GpuLayoutNext
  <2>4. ASSUME NEW m \in Nodes, m # n PROVE G[<<"node", m>>] = F[<<"node", m>>]
    <3>1. m \in Resident' <=> m \in Resident
      BY <1>30, <2>4
    <3>2. tree'[m] = tree[m]
      BY <1>3, <2>4
    <3> QED BY <3>1, <3>2, GpuLayoutIs, GpuLayoutNext
  <2>5. \A m \in Nodes : G[<<"reserved", m>>] = F[<<"reserved", m>>]
    <3>1. \A m \in Nodes : tree'[m].reserved = tree[m].reserved
      BY <1>3, <1>4
    <3> QED BY <3>1, GpuLayoutIs, GpuLayoutNext
  <2>6. \A k \in Requests : /\ G[<<"unfilled", k>>] = F[<<"unfilled", k>>]
                            /\ k # r => G[<<"pending", k>>] = F[<<"pending", k>>]
    BY <1>32, GpuLayoutIs, GpuLayoutNext
  <2>7. ASSUME NEW o \in GpuOwners, o # p, o # q PROVE G[o] = F[o]
    BY <2>1, <2>4, <2>5, <2>6, <2>7, GpuOwnerIs
  <2>8. OwnedOnce(F, GpuOwners, GpuBlocks) /\ p # q
    BY GpuOwnersDiffer DEF IInv, OwnInv
  <2> HIDE DEF F, G, p, q, S
  <2>9. OwnedOnce(G, GpuOwners, GpuBlocks)
    BY <2>2, <2>3, <2>7, <2>8, HandedOver
  <2> QED BY <2>9 DEF G
<1> QED BY <1>1, <1>18, <1>19, <1>20, <1>21, <1>22, <1>23, <1>24, <1>25, <1>26, <1>27, <1>28,
           <1>29, <1>31, <1>34 DEF IInv, OwnInv

(* recv_data_transfer_result handles the next item of a task.              *)
LEMMA HandleSwapResultKeeps == ASSUME IInv, Own(HandleSwapResult) PROVE IInv'
<1> USE DEF Own, HandleSwapResult
<1>1. ItemHandled /\ UNCHANGED <<node_map, gpu_lru, reqVars, evictVars, holder, state, table>>
  BY DEF ItemHandled, evictVars
<1>2. CASE result[1].type = "SWAP2CPU" /\ tree[FirstItem.node].status = "GPU"
  <2>1. /\ tree' = tree /\ cpu_lru' = cpu_lru /\ gpu_free' = gpu_free
        /\ cpu_free' = cpu_free \cup {FirstItem.cpu}
    BY <1>2 DEF FirstItem, CpuGivenBack
  <2> QED BY <1>1, <1>2, <2>1, HandledReused
<1>3. CASE result[1].type = "SWAP2CPU" /\ tree[FirstItem.node].status # "GPU"
  <2>1. /\ tree' = [tree EXCEPT ![FirstItem.node].status = "CPU", ![FirstItem.node].block = FirstItem.cpu]
        /\ gpu_free' = gpu_free \cup {FirstItem.gpu} /\ cpu_free' = cpu_free
    BY <1>3 DEF FirstItem, CpuGivenBack
  <2>2. cpu_lru' = IF tree[FirstItem.node].shared = 0 /\ IsCpuLeaf(tree', FirstItem.node)
                   THEN cpu_lru \cup {FirstItem.node} ELSE cpu_lru
    BY <1>3, <2>1 DEF FirstItem
  <2> QED BY <1>1, <1>3, <2>1, <2>2, HandledToCpu
<1>4. CASE result[1].type # "SWAP2CPU"
  <2>1. /\ tree' = [tree EXCEPT ![FirstItem.node].status = "GPU", ![FirstItem.node].block = FirstItem.gpu]
        /\ cpu_lru' = cpu_lru /\ gpu_free' = gpu_free /\ cpu_free' = cpu_free \cup {FirstItem.cpu}
    BY <1>4 DEF FirstItem, CpuGivenBack
  <2> QED BY <1>1, <1>4, <2>1, HandledToGpu
<1> QED BY <1>2, <1>3, <1>4

-----------------------------------------------------------------------------
(* Every node of a path but its last has the next one for a child.         *)
LEMMA PathKid ==
    ASSUME NEW t, NEW L, Rooted(t, L), NEW n \in L \cup {Root}, NEW m \in PathIn(t, n), m # n
    PROVE  \E k \in PathIn(t, n) : t[k].parent = m /\ k \in t[m].kids
<1> DEFINE P == PathIn(t, n)
<1>1. /\ P \subseteq L /\ (n # Root => n \in P)
      /\ \A q \in P : t[q].parent \in P \cup {Root}
      /\ \A q \in P : t[q].depth \in 1 .. t[n].depth
      /\ \A i \in 1 .. t[n].depth : \E q \in P : t[q].depth = i
      /\ \A q1, q2 \in P : t[q1].depth = t[q2].depth => q1 = q2
  BY PathShapes DEF PathShape
<1>2. n # Root
  BY PathRoot
<1>3. t[n].depth \in Nat /\ t[m].depth \in 1 .. t[n].depth /\ t[m].depth # t[n].depth
  BY <1>1, <1>2 DEF Rooted
<1>4. t[m].depth + 1 \in 1 .. t[n].depth
  BY <1>3
<1>5. PICK k \in P : t[k].depth = t[m].depth + 1
  BY <1>1, <1>4
<1>6. k \in L /\ t[k].parent \in P \cup {Root} /\ k \in t[t[k].parent].kids
      /\ t[k].depth = t[t[k].parent].depth + 1 /\ t[Root].depth = 0
      /\ t[t[k].parent].depth \in Nat
  BY <1>1, <1>5 DEF Rooted, Linked
<1>7. t[t[k].parent].depth = t[m].depth /\ t[m].depth # 0
  BY <1>3, <1>5, <1>6
<1>8. t[k].parent \in P
  BY <1>6, <1>7
<1>9. t[k].parent = m
  BY <1>1, <1>7, <1>8
<1> QED BY <1>5, <1>6, <1>9

(* The request to release has ended.                                       *)
LEMMA ReleaseTypes ==
    ASSUME IInv, releases # << >>, releases' = Tail(releases), state' = state
    PROVE  /\ Head(releases) \in Requests /\ state[Head(releases)] = "ended"
           /\ releases' \in Seq(Requests)
           /\ \A i \in DOMAIN releases' : state'[releases'[i]] = "ended"
<1> DEFINE L == Len(releases)
<1>1. releases \in Seq(Requests) /\ \A i \in DOMAIN releases : state[releases[i]] = "ended"
  BY DEF IInv, TypeOK, ReqInv
<1>2. /\ L \in Nat /\ L # 0 /\ DOMAIN releases = 1 .. L /\ Head(releases) = releases[1]
      /\ releases' \in Seq(Requests) /\ DOMAIN releases' = 1 .. L - 1
      /\ \A i \in 1 .. L - 1 : releases'[i] = releases[i + 1]
  BY <1>1
<1> HIDE DEF L
<1>3. 1 \in 1 .. L /\ \A i \in 1 .. L - 1 : i + 1 \in 1 .. L
  BY <1>2
<1>4. releases[1] \in Requests
  BY <1>1, <1>2, <1>3, ElementOfSeq
<1> QED BY <1>1, <1>2, <1>3, <1>4

\* what the invariant says of blocks and states, when only counts change
LEMMA SameStates ==
    ASSUME IInv, InFlight' = InFlight, victims' = victims, node_map' = node_map, holder' = holder,
           \A m \in node_map \cup {Root} : /\ tree'[m].status = tree[m].status /\ tree'[m].block = tree[m].block
                                           /\ tree'[m].parent = tree[m].parent
    PROVE  ItemsInv' /\ VictimsInv' /\ StatusInv'
<1>1. InItems' = InItems /\ OutItems' = OutItems /\ InNodes' = InNodes /\ OutNodes' = OutNodes
  BY DEF InItems, OutItems, InNodes, OutNodes
<1>2. \A m \in node_map : tree[m].parent \in node_map \cup {Root}
  BY InvRooted DEF Rooted, Linked
<1>3. ItemsInv'
  BY <1>1 DEF IInv, ItemsInv
<1>4. VictimsInv'
  BY DEF IInv, VictimsInv
<1>5. StatusInv'
  <2>1. \A m \in node_map : /\ tree'[m].status = tree[m].status
                            /\ tree'[tree'[m].parent].status = tree[tree[m].parent].status
    BY <1>2
  <2>2. VictimNodes' = VictimNodes
    BY DEF VictimNodes
  <2>3. StatusInv
    BY DEF IInv
  <2> QED BY ONLY <1>1, <2>1, <2>2, <2>3, node_map' = node_map DEF StatusInv
<1> QED BY <1>3, <1>4, <1>5

-----------------------------------------------------------------------------
(* release_block_ids.                                                      *)

(* A request without a leaf has nothing to release.                        *)
LEMMA ReleasedNothing ==
    ASSUME IInv, releases # << >>, releases' = Tail(releases),
           UNCHANGED <<poolVars, treeVars, req_leaf_map, cache_info, unfilled, holder, evictVars, swapVars, state, table>>
    PROVE  IInv'
<1> USE DEF poolVars, treeVars, evictVars, swapVars
<1>1. /\ releases' \in Seq(Requests)
      /\ \A i \in DOMAIN releases' : state'[releases'[i]] = "ended"
  BY ReleaseTypes
<1>2. InFlight' = InFlight /\ InItems' = InItems /\ OutItems' = OutItems
  BY DEF InFlight, InItems, OutItems
<1>3. Rooted(tree', node_map')
  BY InvRooted
<1>4. ASSUME NEW r \in Requests
      PROVE  /\ NewInv(r)' /\ SwappingInv(r)' /\ AdmittedInv(r)' /\ RunningInv(r)'
             /\ \A n : Uses(r, n)' <=> Uses(r, n)
  BY <1>2, <1>3, ReqFrame
<1>5. ReqInv'
  BY <1>1, <1>4 DEF IInv, ReqInv
<1>6. CountInv'
  <2>1. \A n : Users(n)' = Users(n)
    BY <1>4 DEF Users
  <2> QED BY <2>1 DEF IInv, CountInv
<1>7. TreeInv' /\ LruInv' /\ UsedInv' /\ TypeOK'
  BY <1>1 DEF IInv, TreeInv, LruInv, UsedInv, IsGpuLeaf, IsCpuLeaf, TypeOK
<1>8. SwapTypes' /\ OneTask' /\ Waits'
  BY <1>2 DEF IInv, SwapTypes, OneTask, Waits
<1>9. ItemsInv' /\ VictimsInv' /\ StatusInv'
  BY <1>2, SameStates
<1>10. PhaseInv' /\ RoomInv'
  BY <1>2 DEF IInv, PhaseInv, RoomInv
<1>11. OwnInv'
  <2>1. \A r \in Requests : Pending(r)' = Pending(r)
    BY <1>2, <1>8, SamePending
  <2> QED BY <1>2, <2>1, SameGpuLayout, SameCpuLayout DEF OwnInv
<1> QED BY <1>5, <1>6, <1>7, <1>8, <1>9, <1>10, <1>11 DEF IInv

(* release_block_ids counts its request out along the path.                *)
LEMMA ReleaseKeeps == ASSUME IInv, Own(ReleaseBlockIds) PROVE IInv'
<1>r. PICK r \in Requests : Head(releases) = r
  <2>1. releases # << >> /\ releases \in Seq(Requests)
    BY DEF Own, ReleaseBlockIds, IInv, TypeOK
  <2> QED BY <2>1
<1> DEFINE leaf == req_leaf_map[r]
           P == PathIn(tree, leaf)
<1>0. PathUp(leaf) = P
  BY DEF PathUp, PathIn
<1>1. CASE leaf = NoNode
  BY <1>1, <1>r, ReleasedNothing DEF Own, ReleaseBlockIds, poolVars, treeVars
<1>2. CASE leaf # NoNode
  <2>1. /\ releases # << >> /\ holder = Nobody /\ releases' = Tail(releases)
        /\ req_leaf_map' = [req_leaf_map EXCEPT ![r] = NoNode]
        /\ cache_info' = [cache_info EXCEPT ![r] = NoNode]
        /\ tree' = [n \in DOMAIN tree |-> IF n \in P THEN [tree[n] EXCEPT !.shared = @ - 1] ELSE tree[n]]
        /\ gpu_free' = gpu_free \cup (IF leaf = Root THEN unfilled[r] ELSE {})
        /\ unfilled' = [unfilled EXCEPT ![r] = IF leaf = Root THEN {} ELSE @]
        /\ UNCHANGED <<cpu_free, node_map, cpu_lru, holder, evictVars, swapVars, state, table>>
    BY <1>2, <1>0, <1>r DEF Own, ReleaseBlockIds
  <2>2. gpu_lru' = IF leaf # Root /\ tree'[leaf].shared = 0 /\ IsGpuLeaf(tree', leaf)
                   THEN gpu_lru \cup {leaf} ELSE gpu_lru
    BY <1>2, <1>0, <1>r, <2>1 DEF Own, ReleaseBlockIds
  <2>3. /\ r \in Requests /\ state[r] = "ended" /\ releases' \in Seq(Requests)
        /\ \A i \in DOMAIN releases' : state'[releases'[i]] = "ended"
    BY <1>r, <2>1, ReleaseTypes
    <2> USE DEF evictVars, swapVars
  <2>4. /\ node_map \subseteq Nodes /\ tree \in [{Root} \cup Nodes -> NodeRecord]
        /\ req_leaf_map \in [Requests -> {Root, NoNode} \cup Nodes]
        /\ cache_info \in [Requests -> {Root, NoNode} \cup Nodes]
        /\ unfilled \in [Requests -> SUBSET GpuBlocks]
    BY DEF IInv, TypeOK
  <2>5. Rooted(tree, node_map) /\ Root \notin node_map
    BY InvRooted DEF Rooted
  <2>6. /\ leaf \in node_map \cup {Root} /\ cache_info[r] = NoNode
        /\ \A n \in P : tree[n].status = "GPU"
    BY <1>2, <2>3 DEF IInv, ReqInv, AdmittedInv
  <2>7. P \subseteq node_map /\ (leaf # Root => leaf \in P)
    BY <2>5, <2>6, PathShapes DEF PathShape
  <2>8. \A n : Uses(r, n) <=> n \in P
    BY <1>2, <2>3, UsesPaths
  <2>9. \A n \in {Root} \cup Nodes :
            /\ n \in P => tree'[n] = [tree[n] EXCEPT !.shared = @ - 1]
            /\ n \notin P => tree'[n] = tree[n]
    BY <2>1, <2>4
  <2> HIDE DEF P
  <2>10. ASSUME NEW n \in {Root} \cup Nodes
         PROVE  /\ tree'[n].parent = tree[n].parent /\ tree'[n].kids = tree[n].kids
                /\ tree'[n].key = tree[n].key /\ tree'[n].depth = tree[n].depth
                /\ tree'[n].status = tree[n].status /\ tree'[n].block = tree[n].block
                /\ tree'[n].reserved = tree[n].reserved
                /\ tree'[n].shared = IF n \in P THEN tree[n].shared - 1 ELSE tree[n].shared
    <3>1. tree[n] \in NodeRecord
      BY <2>4
    <3>2. CASE n \in P
      <4>1. tree'[n] = [tree[n] EXCEPT !.shared = @ - 1]
        BY <2>9, <3>2
      <4> QED BY ONLY <3>1, <3>2, <4>1 DEF NodeRecord
    <3>3. CASE n \notin P
      BY <2>9, <3>3
    <3> QED BY <3>2, <3>3
  <2>11. tree' \in [{Root} \cup Nodes -> NodeRecord]
    <3>1. ASSUME NEW n \in {Root} \cup Nodes PROVE tree'[n] \in NodeRecord
      <4>1. tree[n] \in NodeRecord
        BY <2>4
      <4>2. CASE n \in P
        <5>1. tree'[n] = [tree[n] EXCEPT !.shared = @ - 1]
          BY <2>9, <4>2
        <5> QED BY ONLY <4>1, <5>1 DEF NodeRecord
      <4>3. CASE n \notin P
        BY <2>9, <4>1, <4>3
      <4> QED BY <4>2, <4>3
    <3> QED BY <2>1, <2>4, <3>1
  <2>12. Rooted(tree', node_map)
    <3>1. \A m \in node_map \cup {Root} :
              /\ tree'[m].parent = tree[m].parent /\ tree'[m].kids = tree[m].kids
              /\ tree'[m].key = tree[m].key /\ tree'[m].depth = tree[m].depth
      BY <2>4, <2>10
    <3> QED BY ONLY <2>5, <3>1, LinkedSame
  <2>13. InFlight' = InFlight /\ InItems' = InItems /\ OutItems' = OutItems
    BY <2>1 DEF InFlight, InItems, OutItems
  <2>14. /\ req_leaf_map'[r] = NoNode /\ cache_info'[r] = NoNode
         /\ \A q \in Requests : q # r => /\ req_leaf_map'[q] = req_leaf_map[q] /\ cache_info'[q] = cache_info[q]
                                         /\ unfilled'[q] = unfilled[q]
    BY <2>1, <2>3, <2>4
  <2>15. ASSUME NEW q \in Requests, q # r
         PROVE  /\ NewInv(q)' /\ SwappingInv(q)' /\ AdmittedInv(q)' /\ RunningInv(q)'
                /\ \A n : Uses(q, n)' <=> Uses(q, n)
    <3>1. state[q] # "swapping"
      BY <2>1, NoSwapIn, NamesAssumption DEF IInv
    <3>2. \A n \in node_map : n \in Nodes /\ n \in node_map'
      BY <2>1, <2>4
    <3> QED BY <2>1, <2>10, <2>12, <2>14, <2>15, <3>1, <3>2, ReqFrame
  <2>16. \A n : ~Uses(r, n)'
    BY <2>1, <2>3, <2>14, UsesPathsNext
  <2>17. ReqInv'
    <3>1. NewInv(r)' /\ SwappingInv(r)' /\ AdmittedInv(r)' /\ RunningInv(r)'
      BY <2>1, <2>3, <2>14 DEF NewInv, SwappingInv, AdmittedInv, RunningInv
    <3> QED BY <2>1, <2>3, <2>15, <3>1 DEF IInv, ReqInv
  <2>18. CountInv'
    <3> SUFFICES ASSUME NEW n \in node_map
                 PROVE  IsFiniteSet(Users(n)') /\ tree'[n].shared = Cardinality(Users(n)')
      BY <2>1 DEF CountInv
    <3>1. IsFiniteSet(Users(n)) /\ tree[n].shared = Cardinality(Users(n))
      BY DEF IInv, CountInv
    <3>2. Users(n)' = Users(n) \ {r}
      BY <2>15, <2>16 DEF Users
    <3>3. r \in Users(n) <=> n \in P
      BY <2>3, <2>8 DEF Users
    <3>4. /\ IsFiniteSet(Users(n) \ {r})
          /\ Cardinality(Users(n) \ {r}) =
                IF r \in Users(n) THEN Cardinality(Users(n)) - 1 ELSE Cardinality(Users(n))
      BY ONLY <3>1, FS_RemoveElement
    <3>5. tree'[n].shared = IF n \in P THEN tree[n].shared - 1 ELSE tree[n].shared
      BY <2>4, <2>10
    <3> QED BY ONLY <3>1, <3>2, <3>3, <3>4, <3>5
  <2>19. TreeInv'
    <3>1. Root \notin P
      BY <2>5, <2>7
    <3> QED BY <2>1, <2>10, <2>12, <3>1 DEF IInv, TreeInv, Rooted
  <2>20. TypeOK'
    <3>1. req_leaf_map' \in [Requests -> {Root, NoNode} \cup Nodes]
      BY <2>1, <2>4
    <3>2. cache_info' \in [Requests -> {Root, NoNode} \cup Nodes]
      BY <2>1, <2>4
    <3>3. unfilled' \in [Requests -> SUBSET GpuBlocks]
      BY <2>1, <2>4
    <3>4. gpu_free' \subseteq GpuBlocks
      <4>1. unfilled[r] \subseteq GpuBlocks
        BY <2>3, <2>4
      <4> QED BY <2>1, <4>1 DEF IInv, TypeOK
    <3>5. gpu_lru' \subseteq Nodes
      BY <2>2, <2>4, <2>6 DEF IInv, TypeOK
    <3> QED BY <2>1, <2>3, <2>11, <3>1, <3>2, <3>3, <3>4, <3>5 DEF IInv, TypeOK
  <2>21. UsedInv'
    <3> SUFFICES ASSUME NEW n \in node_map
                 PROVE  /\ tree'[n].shared # 0 => tree'[n].status \in {"GPU", "SWAP2GPU"}
                        /\ tree'[n].status # "GPU" => tree'[n].reserved = {}
      BY <2>1 DEF UsedInv
    <3>1. CASE n \in P
      BY <2>4, <2>6, <2>10, <3>1 DEF P
    <3>2. CASE n \notin P
      BY <2>4, <2>10, <3>2 DEF IInv, UsedInv
    <3> QED BY <3>1, <3>2
  <2>22. LruInv'
    <3>1. \A n \in P : tree[n].shared # 0
      BY <2>3, <2>7, <2>8, Unused
    <3>2. \A n \in gpu_lru : n \in node_map /\ n \notin P /\ tree[n].status = "GPU" /\ tree[n].shared = 0
      BY <3>1 DEF IInv, LruInv
    <3>3. \A n \in cpu_lru : n \in node_map /\ n \notin P /\ tree[n].status = "CPU" /\ tree[n].shared = 0
      BY <3>1 DEF IInv, LruInv
    <3>4. \A n \in gpu_lru' : n \in node_map /\ tree'[n].status = "GPU" /\ tree'[n].shared = 0
      <4> SUFFICES ASSUME NEW n \in gpu_lru' PROVE n \in node_map /\ tree'[n].status = "GPU" /\ tree'[n].shared = 0
        OBVIOUS
      <4>1. CASE n \in gpu_lru
        BY <2>4, <2>10, <3>2, <4>1
      <4>2. CASE n \notin gpu_lru
        <5>1. n = leaf /\ leaf # Root /\ tree'[leaf].shared = 0
          BY <2>2, <4>2
        <5>2. leaf \in P /\ leaf \in node_map /\ tree[leaf].status = "GPU"
          BY <2>6, <2>7, <5>1 DEF P
        <5> QED BY <2>4, <2>10, <5>1, <5>2
      <4> QED BY <4>1, <4>2
    <3>5. \A n \in cpu_lru' : n \in node_map /\ tree'[n].status = "CPU" /\ tree'[n].shared = 0
      BY <2>1, <2>4, <2>10, <3>3
    <3>6. ASSUME NEW n \in node_map
          PROVE  /\ IsGpuLeaf(tree', n) <=> IsGpuLeaf(tree, n)
                 /\ IsCpuLeaf(tree', n) <=> IsCpuLeaf(tree, n)
      <4>1. \A k \in tree[n].kids : k \in node_map
        BY <2>5 DEF Rooted, Linked
      <4> QED BY <2>4, <2>10, <4>1 DEF IsGpuLeaf, IsCpuLeaf
    <3>7. ASSUME NEW n \in node_map, tree'[n].shared = 0
          PROVE  /\ IsGpuLeaf(tree', n) => n \in gpu_lru'
                 /\ IsCpuLeaf(tree', n) => n \in cpu_lru'
      <4>1. CASE n \notin P
        <5>1. tree[n].shared = 0
          BY <2>4, <2>10, <3>7, <4>1
        <5> QED BY <2>1, <2>2, <3>6, <5>1 DEF IInv, LruInv
      <4>2. CASE n \in P
        <5>1. tree[n].status = "GPU"
          BY <2>6, <4>2 DEF P
        <5>2. ~IsCpuLeaf(tree, n)
          BY <5>1 DEF IsCpuLeaf
        <5>3. CASE n = leaf
          BY <2>2, <2>5, <3>6, <3>7, <5>2, <5>3
        <5>4. CASE n # leaf
          <6>1. PICK k \in P : k \in tree[n].kids
            BY <2>5, <2>6, <4>2, <5>4, PathKid DEF P
          <6>2. tree[k].status = "GPU"
            BY <2>6 DEF P
          <6> QED BY <3>6, <5>2, <6>1, <6>2 DEF IsGpuLeaf
        <5> QED BY <5>3, <5>4
      <4> QED BY <4>1, <4>2
    <3> QED BY <2>1, <3>4, <3>5, <3>7 DEF LruInv
  <2>23. SwapTypes' /\ OneTask' /\ Waits'
    BY <2>1, <2>13 DEF IInv, SwapTypes, OneTask, Waits
  <2>24. ItemsInv' /\ VictimsInv' /\ StatusInv'
    <3>1. \A m \in node_map \cup {Root} : /\ tree'[m].status = tree[m].status /\ tree'[m].block = tree[m].block
                                          /\ tree'[m].parent = tree[m].parent
      BY <2>4, <2>10
    <3> QED BY <2>1, <2>13, <3>1, SameStates
  <2>25. PhaseInv' /\ RoomInv'
    <3>1. \A n \in node_map : tree'[n].status = tree[n].status
      BY <2>4, <2>10
    <3> QED BY <2>1, <2>13, <3>1 DEF IInv, PhaseInv, RoomInv
  <2>26. Resident' = Resident
    <3>1. \A n \in node_map : tree'[n].status = tree[n].status
      BY <2>4, <2>10
    <3> QED BY <2>1, <3>1 DEF Resident
  <2>27. OwnedOnce(CpuLayout', CpuOwners, CpuBlocks)
    <3>1. ASSUME NEW o \in CpuOwners PROVE CpuLayout'[o] = CpuLayout[o]
      <4>1. ASSUME NEW n \in Nodes PROVE CpuLayout'[<<"node", n>>] = CpuLayout[<<"node", n>>]
        <5>1. tree'[n].block = tree[n].block
          BY <2>10
        <5> QED BY <2>1, <2>26, <5>1, CpuLayoutIs, CpuLayoutNext
      <4> QED BY <2>1, <2>13, <4>1, CpuLayoutIs, CpuLayoutNext, CpuOwnerIs
    <3> QED BY <3>1, SameOwners DEF IInv, OwnInv
  <2>28. OwnedOnce(GpuLayout', GpuOwners, GpuBlocks)
    <3> DEFINE F == GpuLayout
               G == GpuLayout'
               S == IF leaf = Root THEN unfilled[r] ELSE {}
               p == <<"unfilled", r>>
    <3>1. F[FreeList] = gpu_free /\ G[FreeList] = gpu_free \cup S
      BY <2>1, GpuLayoutIs, GpuLayoutNext
    <3>2. F[p] = unfilled[r] /\ G[p] = unfilled'[r] /\ p \in GpuOwners
      BY <2>3, GpuLayoutIs, GpuLayoutNext
    <3>3. unfilled'[r] = IF leaf = Root THEN {} ELSE unfilled[r]
      BY <2>1, <2>3, <2>4
    <3>4. G[p] = F[p] \ S /\ S \subseteq F[p]
      BY <3>2, <3>3
    <3>5. ASSUME NEW n \in Nodes
          PROVE  G[<<"node", n>>] = F[<<"node", n>>] /\ G[<<"reserved", n>>] = F[<<"reserved", n>>]
      <4>1. tree'[n].block = tree[n].block /\ tree'[n].reserved = tree[n].reserved
        BY <2>10
      <4>2. G[<<"node", n>>] = F[<<"node", n>>]
        BY <2>26, <4>1, GpuLayoutIs, GpuLayoutNext
      <4>3. node_map' = node_map
        BY <2>1
      <4>4. G[<<"reserved", n>>] = F[<<"reserved", n>>]
        BY <4>1, <4>3, GpuLayoutIs, GpuLayoutNext
      <4> QED BY <4>2, <4>4
    <3>6. ASSUME NEW q \in Requests
          PROVE  G[<<"pending", q>>] = F[<<"pending", q>>]
      <4>1. state[q] # "swapping"
        BY <2>1, NoSwapIn, NamesAssumption DEF IInv
      <4>2. Pending(q) = {} /\ Pending(q)' = {}
        BY <2>1, <4>1 DEF Pending
      <4> QED BY <4>2, GpuLayoutIs, GpuLayoutNext
    <3>7. \A q \in Requests : q # r => G[<<"unfilled", q>>] = F[<<"unfilled", q>>]
      BY <2>14, GpuLayoutIs, GpuLayoutNext
    <3>8. ASSUME NEW o \in GpuOwners, o # FreeList, o # p PROVE G[o] = F[o]
      BY <3>5, <3>6, <3>7, <3>8, GpuOwnerIs
    <3>9. OwnedOnce(F, GpuOwners, GpuBlocks) /\ FreeList \in GpuOwners /\ FreeList # p
          /\ G[FreeList] = F[FreeList] \cup S
      BY <3>1, GpuLayoutIs, GpuOwnersDiffer DEF IInv, OwnInv
    <3> HIDE DEF F, G, p, S
    <3>10. OwnedOnce(G, GpuOwners, GpuBlocks)
      BY <3>2, <3>4, <3>8, <3>9, HandedOver
    <3> QED BY <3>10 DEF G
  <2> QED BY <2>17, <2>18, <2>19, <2>20, <2>21, <2>22, <2>23, <2>24, <2>25, <2>27, <2>28 DEF IInv, OwnInv
<1> QED BY <1>1, <1>2

-----------------------------------------------------------------------------
(* A node without children that nobody uses leaves the tree.               *)
Unlinked(n) ==
    /\ node_map' = node_map \ {n}
    /\ \A m \in (node_map \ {n}) \cup {Root} :
          /\ tree'[m].parent = tree[m].parent /\ tree'[m].key = tree[m].key
          /\ tree'[m].depth = tree[m].depth /\ tree'[m].status = tree[m].status
          /\ tree'[m].block = tree[m].block /\ tree'[m].shared = tree[m].shared
          /\ tree'[m].reserved = tree[m].reserved
          /\ tree'[m].kids = tree[m].kids \ {n}

\* every task, victim and request stays as it is
Untouched ==
    UNCHANGED <<reqVars, swapVars, victims, holder, future, state, table>>

(* The tree stays linked.                                                  *)
LEMMA UnlinkedTree ==
    ASSUME IInv, NEW n \in node_map, tree[n].kids = {}, tree[n].shared = 0, Unlinked(n)
    PROVE  /\ Rooted(tree', node_map') /\ TreeInv' /\ UsedInv'
           /\ \A m \in node_map' : tree[m].parent # n
<1> DEFINE L == node_map \ {n}
<1>1. Rooted(tree, node_map) /\ Linked(tree, node_map) /\ Root \notin node_map
  BY InvRooted DEF Rooted
<1>2. /\ node_map' = L
      /\ \A m \in L \cup {Root} :
          /\ tree'[m].parent = tree[m].parent /\ tree'[m].key = tree[m].key
          /\ tree'[m].depth = tree[m].depth /\ tree'[m].status = tree[m].status
          /\ tree'[m].block = tree[m].block /\ tree'[m].shared = tree[m].shared
          /\ tree'[m].reserved = tree[m].reserved
          /\ tree'[m].kids = tree[m].kids \ {n}
  BY DEF Unlinked
<1>3. \A m \in L : tree[m].parent # n
  BY <1>1 DEF Linked
<1>4. \A m \in L \cup {Root} : m \in node_map \cup {Root}
  OBVIOUS
<1>5. n \notin L /\ L \subseteq node_map
  OBVIOUS
<1>6. \A m \in node_map : m # n => m \in L
  OBVIOUS
<1> HIDE DEF L
<1>7. \A m \in L : tree[m].parent \in L \cup {Root}
  BY <1>1, <1>3, <1>5, <1>6 DEF Linked
<1>8. Linked(tree', L)
  <2>1. tree'[Root].depth = 0
    BY <1>1, <1>2 DEF Linked
  <2>2. ASSUME NEW m \in L
        PROVE  /\ tree'[m].parent \in L \cup {Root}
               /\ m \in tree'[tree'[m].parent].kids
               /\ tree'[m].depth = tree'[tree'[m].parent].depth + 1
    BY <1>1, <1>2, <1>5, <1>7 DEF Linked
  <2>3. ASSUME NEW m \in L \cup {Root}, NEW k \in tree'[m].kids
        PROVE  k \in L /\ k \in tree[m].kids /\ tree'[k].parent = m /\ tree'[k].key = tree[k].key
    BY <1>1, <1>2, <1>4, <1>6 DEF Linked
  <2>4. ASSUME NEW m \in L \cup {Root}, NEW k1 \in tree'[m].kids, NEW k2 \in tree'[m].kids,
               tree'[k1].key = tree'[k2].key
        PROVE  k1 = k2
    BY <1>1, <1>4, <2>3, <2>4 DEF Linked
  <2> QED BY <2>1, <2>2, <2>3, <2>4 DEF Linked
<1>9. Rooted(tree', L)
  <2>1. \A m \in L \cup {Root} : tree'[m].depth \in Nat
    BY <1>1, <1>2, <1>4 DEF Rooted
  <2> QED BY <1>1, <1>5, <1>8, <2>1 DEF Rooted
<1>10. TreeInv'
  BY <1>2, <1>8 DEF IInv, TreeInv
<1>11. UsedInv'
  BY <1>2, <1>5 DEF IInv, UsedInv
<1> QED BY <1>2, <1>3, <1>9, <1>10, <1>11

(* Every request keeps its path and its blocks.                            *)
LEMMA UnlinkedUsers ==
    ASSUME IInv, NEW n \in node_map, tree[n].kids = {}, tree[n].shared = 0, Unlinked(n), Untouched
    PROVE  /\ ReqInv' /\ CountInv'
           /\ \A r \in Requests : Pending(r)' = Pending(r)
           /\ SwapTypes' /\ OneTask' /\ Waits'
<1> USE DEF Untouched, reqVars, swapVars
<1>1. Rooted(tree', node_map') /\ Rooted(tree, node_map)
  BY UnlinkedTree, InvRooted
<1>2. InFlight' = InFlight /\ InItems' = InItems
  BY DEF InFlight, InItems
<1>3. ASSUME NEW r \in Requests
      PROVE  /\ NewInv(r)' /\ SwappingInv(r)' /\ AdmittedInv(r)' /\ RunningInv(r)'
             /\ \A m : Uses(r, m)' <=> Uses(r, m)
  <2>1. ~Uses(r, n)
    BY Unused
  <2>2. \A m \in node_map : Uses(r, m) =>
               /\ m \in node_map' /\ tree'[m].parent = tree[m].parent
               /\ tree'[m].depth = tree[m].depth /\ tree'[m].key = tree[m].key
               /\ tree'[m].block = tree[m].block /\ tree'[m].status = tree[m].status
    BY <2>1 DEF Unlinked
  <2>3. ASSUME state[r] = "swapping", NEW k \in tree'[cache_info[r]].kids
        PROVE  k \in tree[cache_info[r]].kids /\ tree'[k].key = tree[k].key
    <3>1. cache_info[r] \in node_map /\ cache_info[r] # n
      <4>1. cache_info[r] \in node_map
        BY <2>3, LeafPlaces
      <4>2. Uses(r, cache_info[r])
        BY <1>1, <2>3, <4>1, UsesPaths, PathStep
      <4> QED BY <2>1, <4>1, <4>2
    <3>2. k \in tree[cache_info[r]].kids /\ k # n
      BY <2>3, <3>1 DEF Unlinked
    <3>3. k \in node_map
      BY <1>1, <3>1, <3>2 DEF Rooted, Linked
    <3> QED BY <3>2, <3>3 DEF Unlinked
  <2> QED BY <1>1, <1>2, <2>2, <2>3, ReqFrame
<1>4. ReqInv'
  BY <1>3 DEF IInv, ReqInv
<1>5. CountInv'
  <2>1. \A m : Users(m)' = Users(m)
    BY <1>3 DEF Users
  <2>2. \A m \in node_map' : m \in node_map /\ tree'[m].shared = tree[m].shared
    BY DEF Unlinked
  <2> QED BY <2>1, <2>2 DEF IInv, CountInv
<1>6. SwapTypes' /\ OneTask' /\ Waits'
  BY <1>2 DEF IInv, SwapTypes, OneTask, Waits
<1>7. ASSUME NEW r \in Requests PROVE Pending(r)' = Pending(r)
  <2>1. state[r] = "swapping" => tree'[cache_info[r]].depth = tree[cache_info[r]].depth
    <3> HAVE state[r] = "swapping"
    <3>1. cache_info[r] \in node_map
      BY LeafPlaces
    <3>2. Uses(r, cache_info[r])
      BY <1>1, <3>1, UsesPaths, PathStep
    <3>3. cache_info[r] # n
      BY <3>2, Unused
    <3> QED BY <3>1, <3>3 DEF Unlinked
  <2> QED BY <1>2, <1>6, <2>1, SamePending
<1> QED BY <1>4, <1>5, <1>6, <1>7

(* Tasks and victims are about other nodes.                                *)
LEMMA UnlinkedStates ==
    ASSUME IInv, NEW n \in node_map, tree[n].kids = {}, tree[n].shared = 0, Unlinked(n), Untouched,
           n \notin InNodes \cup OutNodes \cup VictimNodes
    PROVE  ItemsInv' /\ VictimsInv' /\ StatusInv' /\ PhaseInv'
<1>1. /\ InFlight' = InFlight /\ InItems' = InItems /\ OutItems' = OutItems
      /\ InNodes' = InNodes /\ OutNodes' = OutNodes /\ VictimNodes' = VictimNodes
      /\ victims' = victims /\ holder' = holder /\ future' = future
  BY DEF Untouched, swapVars, InFlight, InItems, OutItems, InNodes, OutNodes, VictimNodes
<1>2. \A m \in node_map : m # n =>
        /\ m \in node_map' /\ tree'[m].status = tree[m].status /\ tree'[m].block = tree[m].block
        /\ tree'[m].parent = tree[m].parent
  BY DEF Unlinked
<1>3. ItemsInv'
  <2>1. /\ \A it \in OutItems : it.node # n
        /\ \A it \in InItems : it.node # n
    BY DEF InNodes, OutNodes
  <2> QED BY <1>1, <1>2, <2>1 DEF IInv, ItemsInv
<1>4. VictimsInv'
  <2>1. \A i \in DOMAIN victims : victims[i].node # n
    BY DEF VictimNodes
  <2> QED BY <1>1, <1>2, <2>1 DEF IInv, VictimsInv
<1>5. StatusInv'
  <2>1. \A m \in node_map' : m \in node_map /\ m # n
    BY DEF Unlinked
  <2>2. \A m \in node_map' : tree[m].parent # n /\ tree[m].parent \in node_map \cup {Root}
    BY <2>1, UnlinkedTree, InvRooted DEF Rooted, Linked
  <2>3. tree'[Root].status = tree[Root].status
    BY DEF Unlinked
  <2>4. \A m \in node_map' : /\ tree'[m].status = tree[m].status
                              /\ tree'[m].parent = tree[m].parent
                              /\ tree'[tree[m].parent].status = tree[tree[m].parent].status
    BY <1>2, <2>1, <2>2, <2>3
  <2>5. ASSUME NEW m \in node_map'
        PROVE  LET p == tree'[m].parent
               IN  /\ tree'[p].status \in {"CPU", "SWAP2CPU"} => tree'[m].status \in {"CPU", "SWAP2CPU"}
                   /\ tree'[p].status = "CPU" /\ tree'[m].status = "SWAP2CPU" => m \in OutNodes
    <3>1. LET p == tree[m].parent
          IN  /\ tree[p].status \in {"CPU", "SWAP2CPU"} => tree[m].status \in {"CPU", "SWAP2CPU"}
              /\ tree[p].status = "CPU" /\ tree[m].status = "SWAP2CPU" => m \in OutNodes
      BY <2>1 DEF IInv, StatusInv
    <3> QED BY <2>4, <3>1
  <2>6. /\ \A m \in node_map' : tree'[m].status = "SWAP2CPU" => m \in VictimNodes \cup OutNodes
        /\ \A m \in node_map' : tree'[m].status = "SWAP2GPU" => m \in InNodes
    BY <2>1, <2>4 DEF IInv, StatusInv
  <2> QED BY <1>1, <2>5, <2>6 DEF StatusInv
<1>6. PhaseInv'
  <2>1. \A m \in node_map' : m \in node_map /\ tree'[m].status = tree[m].status
    BY DEF Unlinked
  <2> QED BY <1>1, <2>1 DEF IInv, PhaseInv
<1> QED BY <1>3, <1>4, <1>5, <1>6

(* Leaves stay leaves; only the parent of the node can become one.         *)
LEMMA UnlinkedLeaves ==
    ASSUME IInv, NEW n \in node_map, Unlinked(n), NEW m \in node_map, m # n
    PROVE  /\ m # tree[n].parent =>
                /\ IsGpuLeaf(tree', m) <=> IsGpuLeaf(tree, m)
                /\ IsCpuLeaf(tree', m) <=> IsCpuLeaf(tree, m)
           /\ tree[n].status # "GPU" => (IsGpuLeaf(tree', m) <=> IsGpuLeaf(tree, m))
           /\ IsGpuLeaf(tree, m) => IsGpuLeaf(tree', m)
           /\ IsCpuLeaf(tree, m) => IsCpuLeaf(tree', m)
<1>1. \A k \in tree[m].kids : k \in node_map /\ tree[k].parent = m
  BY InvRooted DEF Rooted, Linked
<1>2. tree'[m].status = tree[m].status /\ tree'[m].kids = tree[m].kids \ {n}
  BY DEF Unlinked
<1>3. \A k \in tree[m].kids \ {n} : tree'[k].status = tree[k].status
  BY <1>1 DEF Unlinked
<1>4. m # tree[n].parent => n \notin tree[m].kids
  BY <1>1
<1> QED BY <1>2, <1>3, <1>4 DEF IsGpuLeaf, IsCpuLeaf

-----------------------------------------------------------------------------
(* A node that is no leaf may be dropped from the candidates.              *)
LEMMA DroppedKeeps ==
    ASSUME IInv, NEW n, gpu_lru' \in {gpu_lru, gpu_lru \ {n}}, cpu_lru' \in {cpu_lru, cpu_lru \ {n}},
           gpu_lru' # gpu_lru => ~(tree[n].shared = 0 /\ IsGpuLeaf(tree, n)),
           cpu_lru' # cpu_lru => ~(tree[n].shared = 0 /\ IsCpuLeaf(tree, n)),
           UNCHANGED <<poolVars, node_map, tree, reqVars, swapVars, evictVars, holder, state, table>>
    PROVE  IInv'
<1> USE DEF poolVars, reqVars, swapVars, evictVars
<1>1. InFlight' = InFlight /\ InItems' = InItems /\ OutItems' = OutItems
  BY DEF InFlight, InItems, OutItems
<1>2. Rooted(tree', node_map')
  BY InvRooted
<1>3. ASSUME NEW r \in Requests
      PROVE  /\ NewInv(r)' /\ SwappingInv(r)' /\ AdmittedInv(r)' /\ RunningInv(r)'
             /\ \A m : Uses(r, m)' <=> Uses(r, m)
  BY <1>1, <1>2, ReqFrame
<1>4. ReqInv' /\ CountInv'
  <2>1. \A m : Users(m)' = Users(m)
    BY <1>3 DEF Users
  <2>2. ReqInv'
    BY <1>3 DEF IInv, ReqInv
  <2> QED BY <2>1, <2>2 DEF IInv, CountInv
<1>5. TreeInv' /\ UsedInv' /\ TypeOK'
  BY DEF IInv, TreeInv, UsedInv, TypeOK
<1>6. LruInv'
  BY DEF IInv, LruInv, IsGpuLeaf, IsCpuLeaf
<1>7. SwapTypes' /\ OneTask' /\ Waits'
  BY <1>1 DEF IInv, SwapTypes, OneTask, Waits
<1>8. ItemsInv' /\ VictimsInv' /\ StatusInv'
  BY <1>1, SameStates
<1>9. PhaseInv' /\ RoomInv'
  BY <1>1 DEF IInv, PhaseInv, RoomInv
<1>10. OwnInv'
  <2>1. \A r \in Requests : Pending(r)' = Pending(r)
    BY <1>1, <1>7, SamePending
  <2> QED BY <1>1, <2>1, SameGpuLayout, SameCpuLayout DEF OwnInv
<1> QED BY <1>4, <1>5, <1>6, <1>7, <1>8, <1>9, <1>10 DEF IInv

(* Only the parent loses a child.                                          *)
LEMMA KidsLeft ==
    ASSUME IInv, NEW n \in node_map
    PROVE  /\ tree[n].parent \in node_map \cup {Root} /\ tree[n].parent # n
           /\ {m \in tree[tree[n].parent].kids : tree[m].key # tree[n].key}
                = tree[tree[n].parent].kids \ {n}
           /\ \A m \in (node_map \cup {Root}) \ {tree[n].parent} : tree[m].kids = tree[m].kids \ {n}
<1> DEFINE p == tree[n].parent
<1>1. Linked(tree, node_map) /\ \A m \in node_map \cup {Root} : tree[m].depth \in Nat
  BY InvRooted DEF Rooted
<1>2. p \in node_map \cup {Root} /\ n \in tree[p].kids /\ tree[n].depth = tree[p].depth + 1
  BY <1>1 DEF Linked
<1>3. p # n
  BY <1>1, <1>2
<1>4. \A m \in tree[p].kids : tree[m].key = tree[n].key <=> m = n
  BY <1>1, <1>2 DEF Linked
<1>5. {m \in tree[p].kids : tree[m].key # tree[n].key} = tree[p].kids \ {n}
  BY <1>4
<1>6. \A m \in node_map \cup {Root} : n \in tree[m].kids => p = m
  BY <1>1 DEF Linked
<1> QED BY <1>2, <1>3, <1>5, <1>6

\* what free_cpu_block_ids does with a leaf
CpuLeafFreed(n) ==
    LET p == tree[n].parent
        t == [tree EXCEPT ![p].kids = {m \in @ : tree[m].key # tree[n].key}]
    IN  /\ tree' = t /\ freed' = freed + 1
        /\ cpu_free' = cpu_free \cup {tree[n].block}
        /\ node_map' = node_map \ {n}
        /\ cpu_lru' = IF p # Root /\ t[p].shared = 0 /\ IsCpuLeaf(t, p)
                      THEN (cpu_lru \ {n}) \cup {p} ELSE cpu_lru \ {n}

(* The CPU block of the leaf is free, the leaf is gone.                    *)
LEMMA CpuLeafFreedKeeps ==
    ASSUME IInv, holder = "free_cpu", freed < MaxSeqBlocks,
           NEW n \in cpu_lru, tree[n].shared = 0, IsCpuLeaf(tree, n), CpuLeafFreed(n),
           UNCHANGED <<gpu_free, gpu_lru, reqVars, swapVars, holder, future, victims, state, table>>
    PROVE  IInv'
<1> DEFINE p == tree[n].parent
<1>1. /\ n \in node_map /\ n \in Nodes /\ tree[n].status = "CPU" /\ tree[n].kids = {}
      /\ n \notin InNodes \cup OutNodes \cup VictimNodes
  BY DEF IInv, LruInv, TypeOK, IsCpuLeaf, ItemsInv, VictimsInv, InNodes, OutNodes, VictimNodes
<1>2. /\ p \in node_map \cup {Root} /\ p # n
      /\ {m \in tree[p].kids : tree[m].key # tree[n].key} = tree[p].kids \ {n}
      /\ \A m \in (node_map \cup {Root}) \ {p} : tree[m].kids = tree[m].kids \ {n}
  BY <1>1, KidsLeft
<1>3. /\ tree' = [tree EXCEPT ![p].kids = tree[p].kids \ {n}] /\ freed' = freed + 1
      /\ cpu_free' = cpu_free \cup {tree[n].block}
      /\ node_map' = node_map \ {n}
      /\ cpu_lru' = IF p # Root /\ tree'[p].shared = 0 /\ IsCpuLeaf(tree', p)
                    THEN (cpu_lru \ {n}) \cup {p} ELSE cpu_lru \ {n}
  BY <1>2 DEF CpuLeafFreed
<1> HIDE DEF p
<1>4. node_map \subseteq Nodes /\ tree \in [{Root} \cup Nodes -> NodeRecord]
  BY DEF IInv, TypeOK
<1>5. tree[p] \in NodeRecord /\ p \in {Root} \cup Nodes
  BY <1>2, <1>4
<1>6. /\ tree'[p] = [tree[p] EXCEPT !.kids = tree[p].kids \ {n}]
      /\ \A m \in {Root} \cup Nodes : m # p => tree'[m] = tree[m]
  BY <1>3, <1>4, <1>5
<1>7. /\ tree'[p] \in NodeRecord /\ tree'[p].kids = tree[p].kids \ {n}
      /\ tree'[p].parent = tree[p].parent /\ tree'[p].key = tree[p].key
      /\ tree'[p].depth = tree[p].depth /\ tree'[p].status = tree[p].status
      /\ tree'[p].block = tree[p].block /\ tree'[p].shared = tree[p].shared
      /\ tree'[p].reserved = tree[p].reserved
  BY ONLY <1>5, <1>6 DEF NodeRecord
<1>8. tree' \in [{Root} \cup Nodes -> NodeRecord]
  <2>1. \A m \in {Root} \cup Nodes : tree'[m] \in NodeRecord
    BY <1>4, <1>6, <1>7
  <2>2. tree' = [m \in {Root} \cup Nodes |-> tree'[m]]
    BY <1>3, <1>4
  <2> QED BY <2>1, <2>2
<1>9. Unlinked(n)
  <2>1. ASSUME NEW m \in (node_map \ {n}) \cup {Root}, m # p
        PROVE  tree'[m] = tree[m] /\ tree[m].kids = tree[m].kids \ {n}
    BY <1>2, <1>4, <1>6, <2>1
  <2>2. ASSUME NEW m \in (node_map \ {n}) \cup {Root}
        PROVE  /\ tree'[m].parent = tree[m].parent /\ tree'[m].key = tree[m].key
               /\ tree'[m].depth = tree[m].depth /\ tree'[m].status = tree[m].status
               /\ tree'[m].block = tree[m].block /\ tree'[m].shared = tree[m].shared
               /\ tree'[m].reserved = tree[m].reserved
               /\ tree'[m].kids = tree[m].kids \ {n}
    BY <1>7, <2>1
  <2> QED BY <1>3, <2>2 DEF Unlinked
<1>10. Untouched
  BY DEF Untouched
<1>11. /\ Rooted(tree', node_map') /\ TreeInv' /\ UsedInv'
       /\ ReqInv' /\ CountInv' /\ \A r \in Requests : Pending(r)' = Pending(r)
       /\ SwapTypes' /\ OneTask' /\ Waits'
       /\ ItemsInv' /\ VictimsInv' /\ StatusInv' /\ PhaseInv'
  <2>1. Rooted(tree', node_map') /\ TreeInv' /\ UsedInv'
    BY <1>1, <1>9, UnlinkedTree
  <2>2. /\ ReqInv' /\ CountInv' /\ \A r \in Requests : Pending(r)' = Pending(r)
        /\ SwapTypes' /\ OneTask' /\ Waits'
    BY <1>1, <1>9, <1>10, UnlinkedUsers
  <2>3. ItemsInv' /\ VictimsInv' /\ StatusInv' /\ PhaseInv'
    BY <1>1, <1>9, <1>10, UnlinkedStates
  <2> QED BY <2>1, <2>2, <2>3
<1>12. /\ cpu_free \subseteq CpuBlocks /\ tree[n].block \in CpuBlocks /\ tree[n].block \notin cpu_free
  <2>1. n \notin Resident
    BY <1>1 DEF Resident
  <2>2. /\ CpuLayout[<<"node", n>>] = {tree[n].block} /\ <<"node", n>> \in CpuOwners
        /\ CpuLayout[FreeList] = cpu_free /\ FreeList \in CpuOwners /\ <<"node", n>> # FreeList
    BY <1>1, <2>1, CpuLayoutIs, CpuOwnersDiffer
  <2> QED BY <2>2 DEF IInv, OwnInv, OwnedOnce, TypeOK
<1>13. TypeOK'
  <2>1. freed + 1 \in 0 .. MaxSeqBlocks
    BY CacheAssumption DEF IInv, TypeOK
  <2>2. cpu_lru' \subseteq Nodes
    BY <1>2, <1>3, <1>4 DEF IInv, TypeOK
  <2>3. cpu_free' \subseteq CpuBlocks /\ node_map' \subseteq Nodes
    BY <1>3, <1>4, <1>12
  <2> QED BY <1>3, <1>8, <2>1, <2>2, <2>3 DEF IInv, TypeOK, reqVars
<1>14. RoomInv'
  <2>1. freed <= Cardinality(cpu_free) /\ future # "failed" /\ Len(victims) <= MaxSeqBlocks
        /\ future = "free_cpu"
    BY DEF IInv, RoomInv, PhaseInv
  <2>2. IsFiniteSet(cpu_free) /\ Cardinality(cpu_free) \in Nat
    BY FreeFinite
  <2>3. Cardinality(cpu_free \cup {tree[n].block}) = Cardinality(cpu_free) + 1
    BY ONLY <1>12, <2>2, FS_AddElement
  <2>4. freed \in Nat
    BY DEF IInv, TypeOK
  <2>5. freed' <= Cardinality(cpu_free')
    BY <1>3, <2>1, <2>2, <2>3, <2>4
  <2> QED BY <2>1, <2>5 DEF RoomInv
<1>15. LruInv'
  <2>1. /\ \A m \in gpu_lru : m \in node_map /\ tree[m].status = "GPU" /\ tree[m].shared = 0
        /\ \A m \in cpu_lru : m \in node_map /\ tree[m].status = "CPU" /\ tree[m].shared = 0
        /\ \A m \in node_map : tree[m].shared = 0 =>
              (IsGpuLeaf(tree, m) => m \in gpu_lru) /\ (IsCpuLeaf(tree, m) => m \in cpu_lru)
    BY DEF IInv, LruInv
  <2>2. \A m \in node_map : m # n =>
            m \in node_map' /\ tree'[m].status = tree[m].status /\ tree'[m].shared = tree[m].shared
    BY <1>9 DEF Unlinked
  <2>3. \A m \in gpu_lru' : m \in node_map' /\ tree'[m].status = "GPU" /\ tree'[m].shared = 0
    BY <1>1, <2>1, <2>2
  <2>4. \A m \in cpu_lru' : m \in node_map' /\ tree'[m].status = "CPU" /\ tree'[m].shared = 0
    <3> SUFFICES ASSUME NEW m \in cpu_lru'
                 PROVE  m \in node_map' /\ tree'[m].status = "CPU" /\ tree'[m].shared = 0
      OBVIOUS
    <3>1. CASE m \in cpu_lru \ {n}
      BY <2>1, <2>2, <3>1
    <3>2. CASE m \notin cpu_lru \ {n}
      <4>1. m = p /\ p # Root /\ tree'[p].shared = 0 /\ IsCpuLeaf(tree', p)
        BY <1>3, <3>2
      <4> QED BY <1>2, <1>3, <4>1 DEF IsCpuLeaf
    <3> QED BY <3>1, <3>2
  <2>5. ASSUME NEW m \in node_map', tree'[m].shared = 0
        PROVE  /\ IsGpuLeaf(tree', m) => m \in gpu_lru'
               /\ IsCpuLeaf(tree', m) => m \in cpu_lru'
    <3>1. m \in node_map /\ m # n /\ tree[m].shared = 0
      BY <1>3, <2>2, <2>5
    <3>2. /\ m # p => (IsCpuLeaf(tree', m) <=> IsCpuLeaf(tree, m))
          /\ IsGpuLeaf(tree', m) <=> IsGpuLeaf(tree, m)
      BY <1>1, <1>9, <3>1, UnlinkedLeaves DEF p
    <3>3. m # Root
      BY <3>1, InvRooted DEF Rooted
    <3> QED BY <1>3, <2>1, <2>5, <3>1, <3>2, <3>3
  <2> QED BY <2>3, <2>4, <2>5 DEF LruInv
<1>16. Resident' = Resident /\ n \notin Resident
  BY <1>1, <1>3, <1>9 DEF Resident, Unlinked
<1>17. OwnedOnce(GpuLayout', GpuOwners, GpuBlocks)
  <2>1. tree[n].reserved = {}
    BY <1>1 DEF IInv, UsedInv
  <2>2. \A m \in Resident : tree'[m].block = tree[m].block
    BY <1>9, <1>16 DEF Unlinked, Resident
  <2>3. ASSUME NEW m \in Nodes
        PROVE  /\ GpuLayout'[<<"node", m>>] = GpuLayout[<<"node", m>>]
               /\ GpuLayout'[<<"reserved", m>>] = GpuLayout[<<"reserved", m>>]
    <3>1. GpuLayout'[<<"node", m>>] = GpuLayout[<<"node", m>>]
      BY <1>16, <2>2, GpuLayoutIs, GpuLayoutNext
    <3>2. CASE m = n
      <4>1. n \notin node_map' /\ n \in node_map
        BY <1>1, <1>3
      <4>2. GpuLayout[<<"reserved", m>>] = {}
        BY <2>1, <3>2, <4>1, GpuLayoutIs
      <4>3. GpuLayout'[<<"reserved", m>>] = {}
        BY <3>2, <4>1, GpuLayoutNext
      <4> QED BY <3>1, <4>2, <4>3
    <3>3. CASE m # n
      <4>1. m \in node_map' <=> m \in node_map
        BY <1>3, <3>3
      <4>2. m \in node_map => tree'[m].reserved = tree[m].reserved
        BY <1>9, <3>3 DEF Unlinked
      <4>3. GpuLayout[<<"reserved", m>>] = IF m \in node_map THEN tree[m].reserved ELSE {}
        BY GpuLayoutIs
      <4>4. GpuLayout'[<<"reserved", m>>] = IF m \in node_map' THEN tree'[m].reserved ELSE {}
        BY GpuLayoutNext
      <4> QED BY ONLY <3>1, <4>1, <4>2, <4>3, <4>4
    <3> QED BY <3>1, <3>2, <3>3
  <2>4. \A r \in Requests : /\ GpuLayout'[<<"unfilled", r>>] = GpuLayout[<<"unfilled", r>>]
                            /\ GpuLayout'[<<"pending", r>>] = GpuLayout[<<"pending", r>>]
    BY <1>11, GpuLayoutIs, GpuLayoutNext DEF reqVars
  <2>5. GpuLayout'[FreeList] = GpuLayout[FreeList]
    BY GpuLayoutIs, GpuLayoutNext
  <2>6. \A o \in GpuOwners : GpuLayout'[o] = GpuLayout[o]
    BY <2>3, <2>4, <2>5, GpuOwnerIs
  <2> QED BY <2>6, SameOwners DEF IInv, OwnInv
<1>18. OwnedOnce(CpuLayout', CpuOwners, CpuBlocks)
  <2> DEFINE F == CpuLayout
             G == CpuLayout'
             S == {tree[n].block}
             q == <<"node", n>>
  <2>1. F[FreeList] = cpu_free /\ G[FreeList] = cpu_free \cup S
    BY <1>3, CpuLayoutIs, CpuLayoutNext
  <2>2. F[SwapOut] = G[SwapOut]
    <3>1. OutItems' = OutItems
      BY DEF swapVars, OutItems, InFlight
    <3> QED BY <3>1, CpuLayoutIs, CpuLayoutNext
  <2>3. F[q] = S /\ G[q] = {} /\ q \in CpuOwners
    BY <1>1, <1>3, <1>16, CpuLayoutIs, CpuLayoutNext
  <2>4. ASSUME NEW m \in Nodes, m # n PROVE G[<<"node", m>>] = F[<<"node", m>>]
    <3>1. m \in node_map' \ Resident' <=> m \in node_map \ Resident
      BY <1>3, <1>16, <2>4
    <3>2. m \in node_map => tree'[m].block = tree[m].block
      BY <1>9, <2>4 DEF Unlinked
    <3> QED BY <3>1, <3>2, CpuLayoutIs, CpuLayoutNext
  <2>5. ASSUME NEW o \in CpuOwners, o # FreeList, o # q PROVE G[o] = F[o]
    BY <2>2, <2>4, <2>5, CpuOwnerIs
  <2>6. /\ OwnedOnce(F, CpuOwners, CpuBlocks) /\ FreeList \in CpuOwners /\ FreeList # q
        /\ G[FreeList] = F[FreeList] \cup S
    BY <2>1, CpuLayoutIs, CpuOwnersDiffer DEF IInv, OwnInv
  <2> HIDE DEF F, G, q, S
  <2>7. OwnedOnce(G, CpuOwners, CpuBlocks)
    BY <2>3, <2>5, <2>6, HandedOver
  <2> QED BY <2>7 DEF G
<1> QED BY <1>11, <1>13, <1>14, <1>15, <1>17, <1>18 DEF IInv, OwnInv

(* free_cpu_block_ids frees the next leaf, or drops a stale candidate.     *)
LEMMA FreeCpuVictimKeeps == ASSUME IInv, Own(FreeCpuVictim) PROVE IInv'
<1>1. /\ holder = "free_cpu" /\ freed < MaxSeqBlocks
      /\ UNCHANGED <<gpu_free, gpu_lru, reqVars, swapVars, holder, future, victims, state, table>>
  BY DEF Own, FreeCpuVictim
<1>2. PICK n \in cpu_lru :
        IF tree[n].shared = 0 /\ IsCpuLeaf(tree, n) THEN CpuLeafFreed(n)
        ELSE cpu_lru' = cpu_lru \ {n} /\ UNCHANGED <<tree, freed, cpu_free, node_map>>
  BY DEF Own, FreeCpuVictim, CpuLeafFreed
<1>3. CASE tree[n].shared = 0 /\ IsCpuLeaf(tree, n)
  BY <1>1, <1>2, <1>3, CpuLeafFreedKeeps
<1>4. CASE ~(tree[n].shared = 0 /\ IsCpuLeaf(tree, n))
  <2>1. /\ gpu_lru' \in {gpu_lru, gpu_lru \ {n}} /\ cpu_lru' \in {cpu_lru, cpu_lru \ {n}}
        /\ gpu_lru' # gpu_lru => ~(tree[n].shared = 0 /\ IsGpuLeaf(tree, n))
        /\ cpu_lru' # cpu_lru => ~(tree[n].shared = 0 /\ IsCpuLeaf(tree, n))
    BY <1>1, <1>2, <1>4
  <2>2. UNCHANGED <<poolVars, node_map, tree, reqVars, swapVars, evictVars, holder, state, table>>
    BY <1>1, <1>2, <1>4 DEF poolVars, evictVars
  <2> QED BY ONLY IInv, <2>1, <2>2, DroppedKeeps
<1> QED BY <1>3, <1>4

-----------------------------------------------------------------------------
(* Without CPU blocks every node is on the GPU, and a leaf has no children. *)
LEMMA AllOnGpu ==
    ASSUME IInv, WithoutCpu
    PROVE  /\ \A m \in node_map : tree[m].status = "GPU"
           /\ \A m \in node_map : IsGpuLeaf(tree, m) => tree[m].kids = {}
           /\ InNodes = {} /\ OutNodes = {} /\ VictimNodes = {}
<1>1. (\A m \in node_map : tree[m].status = "GPU") /\ victims = << >> /\ InFlight = {}
  BY DEF IInv, PhaseInv
<1>2. \A m \in node_map : \A k \in tree[m].kids : k \in node_map
  BY InvRooted DEF Rooted, Linked
<1>3. \A m \in node_map : IsGpuLeaf(tree, m) => tree[m].kids = {}
  BY <1>1, <1>2 DEF IsGpuLeaf
<1> QED BY <1>1, <1>3 DEF InNodes, OutNodes, VictimNodes, InItems, OutItems

(* free_block_ids_async frees the blocks of the leaf, the leaf is gone.    *)
LEMMA GpuLeafFreedKeeps ==
    ASSUME IInv, WithoutCpu, holder = "free_gpu", freed < MaxSeqBlocks,
           NEW n \in gpu_lru, tree[n].shared = 0, IsGpuLeaf(tree, n),
           tree' = Detached(n), freed' = freed + 1,
           gpu_free' = gpu_free \cup (tree[n].reserved \cup {tree[n].block}),
           node_map' = node_map \ {n}, gpu_lru' = PushParent(tree', n, gpu_lru \ {n}),
           UNCHANGED <<cpu_free, cpu_lru, reqVars, swapVars, holder, future, victims, state, table>>
    PROVE  IInv'
<1> DEFINE p == tree[n].parent
<1>1. /\ n \in node_map /\ n \in Nodes /\ tree[n].status = "GPU" /\ tree[n].kids = {}
      /\ n \notin InNodes \cup OutNodes \cup VictimNodes
      /\ \A m \in node_map : tree[m].status = "GPU"
  <2>1. n \in node_map /\ n \in Nodes
    BY DEF IInv, LruInv, TypeOK
  <2> QED BY <2>1, AllOnGpu
<1>2. /\ p \in node_map \cup {Root} /\ p # n
      /\ {m \in tree[p].kids : tree[m].key # tree[n].key} = tree[p].kids \ {n}
      /\ \A m \in (node_map \cup {Root}) \ {p} : tree[m].kids = tree[m].kids \ {n}
  BY <1>1, KidsLeft
<1>3. /\ tree' = [tree EXCEPT ![n].status = "CPU", ![n].reserved = {}, ![p].kids = {m \in @ : tree[m].key # tree[n].key}]
      /\ gpu_lru' = IF tree'[n].parent # Root /\ tree'[tree'[n].parent].kids = {}
                       /\ tree'[tree'[n].parent].shared = 0 /\ IsGpuLeaf(tree', tree'[n].parent)
                    THEN (gpu_lru \ {n}) \cup {tree'[n].parent} ELSE gpu_lru \ {n}
  BY DEF Detached, PushParent
<1> HIDE DEF p
<1>4. node_map \subseteq Nodes /\ tree \in [{Root} \cup Nodes -> NodeRecord]
  BY DEF IInv, TypeOK
<1>5. tree[p] \in NodeRecord /\ p \in {Root} \cup Nodes /\ tree[n] \in NodeRecord
  BY <1>1, <1>2, <1>4
<1>6. /\ tree'[p] = [tree[p] EXCEPT !.kids = tree[p].kids \ {n}]
      /\ tree'[n] = [tree[n] EXCEPT !.status = "CPU", !.reserved = {}]
      /\ \A m \in {Root} \cup Nodes : m # p /\ m # n => tree'[m] = tree[m]
  <2>1. tree'[p] = [tree[p] EXCEPT !.kids = {m \in @ : tree[m].key # tree[n].key}]
    BY ONLY <1>1, <1>2, <1>3, <1>4, <1>5
  <2>2. tree'[n] = [tree[n] EXCEPT !.status = "CPU", !.reserved = {}]
    BY ONLY <1>1, <1>2, <1>3, <1>4, <1>5
  <2>3. \A m \in {Root} \cup Nodes : m # p /\ m # n => tree'[m] = tree[m]
    BY ONLY <1>1, <1>2, <1>3, <1>4, <1>5
  <2> QED BY ONLY <1>2, <2>1, <2>2, <2>3
<1>7. /\ tree'[p] \in NodeRecord /\ tree'[p].kids = tree[p].kids \ {n}
      /\ tree'[p].parent = tree[p].parent /\ tree'[p].key = tree[p].key
      /\ tree'[p].depth = tree[p].depth /\ tree'[p].status = tree[p].status
      /\ tree'[p].block = tree[p].block /\ tree'[p].shared = tree[p].shared
      /\ tree'[p].reserved = tree[p].reserved
  BY ONLY <1>5, <1>6 DEF NodeRecord
<1>8. tree'[n] \in NodeRecord /\ tree'[n].parent = p
  <2>1. tree'[n] \in NodeRecord
    BY ONLY <1>5, <1>6 DEF NodeRecord
  <2>2. tree'[n].parent = tree[n].parent
    BY ONLY <1>5, <1>6 DEF NodeRecord
  <2> QED BY <2>1, <2>2 DEF p
<1>9. tree' \in [{Root} \cup Nodes -> NodeRecord]
  <2>1. \A m \in {Root} \cup Nodes : tree'[m] \in NodeRecord
    BY <1>4, <1>6, <1>7, <1>8
  <2>2. tree' = [m \in {Root} \cup Nodes |-> tree'[m]]
    BY ONLY <1>3, <1>4
  <2> QED BY ONLY <2>1, <2>2
<1>10. Unlinked(n)
  <2>1. ASSUME NEW m \in (node_map \ {n}) \cup {Root}, m # p
        PROVE  tree'[m] = tree[m] /\ tree[m].kids = tree[m].kids \ {n}
    <3>1. m # n
      BY <1>1, InvRooted DEF Rooted
    <3> QED BY ONLY <1>2, <1>4, <1>6, <2>1, <3>1
  <2>2. ASSUME NEW m \in (node_map \ {n}) \cup {Root}
        PROVE  /\ tree'[m].parent = tree[m].parent /\ tree'[m].key = tree[m].key
               /\ tree'[m].depth = tree[m].depth /\ tree'[m].status = tree[m].status
               /\ tree'[m].block = tree[m].block /\ tree'[m].shared = tree[m].shared
               /\ tree'[m].reserved = tree[m].reserved
               /\ tree'[m].kids = tree[m].kids \ {n}
    BY ONLY <1>7, <2>1, <2>2
  <2> QED BY ONLY <2>2, node_map' = node_map \ {n} DEF Unlinked
<1>11. Untouched
  BY DEF Untouched
<1>12. /\ Rooted(tree', node_map') /\ TreeInv' /\ UsedInv'
       /\ ReqInv' /\ CountInv' /\ \A r \in Requests : Pending(r)' = Pending(r)
       /\ SwapTypes' /\ OneTask' /\ Waits'
       /\ ItemsInv' /\ VictimsInv' /\ StatusInv' /\ PhaseInv'
  <2>1. Rooted(tree', node_map') /\ TreeInv' /\ UsedInv'
    BY ONLY IInv, <1>1, <1>10, UnlinkedTree, tree[n].shared = 0
  <2>2. /\ ReqInv' /\ CountInv' /\ \A r \in Requests : Pending(r)' = Pending(r)
        /\ SwapTypes' /\ OneTask' /\ Waits'
    BY ONLY IInv, <1>1, <1>10, <1>11, UnlinkedUsers, tree[n].shared = 0
  <2>3. ItemsInv' /\ VictimsInv' /\ StatusInv' /\ PhaseInv'
    BY ONLY IInv, <1>1, <1>10, <1>11, UnlinkedStates, tree[n].shared = 0
  <2> QED BY <2>1, <2>2, <2>3
<1>13. /\ GpuLayout[<<"node", n>>] = {tree[n].block} /\ GpuLayout[<<"reserved", n>>] = tree[n].reserved
       /\ GpuLayout[FreeList] = gpu_free
  <2>1. n \in Resident
    BY <1>1 DEF Resident
  <2> QED BY <1>1, <2>1, GpuLayoutIs
<1>14. TypeOK'
  <2>1. freed + 1 \in 0 .. MaxSeqBlocks
    BY CacheAssumption DEF IInv, TypeOK
  <2>2. gpu_lru' \subseteq Nodes
    <3>1. p # Root => p \in Nodes
      BY <1>5
    <3> QED BY <1>3, <1>8, <3>1 DEF IInv, TypeOK
  <2>3. gpu_free' \subseteq GpuBlocks /\ node_map' \subseteq Nodes
    <3>1. <<"node", n>> \in GpuOwners /\ <<"reserved", n>> \in GpuOwners
      BY <1>1, GpuLayoutIs
    <3>2. tree[n].block \in GpuBlocks /\ tree[n].reserved \subseteq GpuBlocks
      BY <1>13, <3>1 DEF IInv, OwnInv, OwnedOnce
    <3> QED BY <1>4, <3>2 DEF IInv, TypeOK
  <2> QED BY <1>9, <2>1, <2>2, <2>3 DEF IInv, TypeOK, reqVars
<1>15. RoomInv'
  BY NamesAssumption DEF IInv, RoomInv, WithoutCpu
<1>16. LruInv'
  <2>1. /\ \A m \in gpu_lru : m \in node_map /\ tree[m].status = "GPU" /\ tree[m].shared = 0
        /\ \A m \in cpu_lru : m \in node_map /\ tree[m].status = "CPU" /\ tree[m].shared = 0
        /\ \A m \in node_map : tree[m].shared = 0 =>
              (IsGpuLeaf(tree, m) => m \in gpu_lru) /\ (IsCpuLeaf(tree, m) => m \in cpu_lru)
    BY DEF IInv, LruInv
  <2>2. \A m \in node_map : m # n =>
            m \in node_map' /\ tree'[m].status = tree[m].status /\ tree'[m].shared = tree[m].shared
    BY <1>10 DEF Unlinked
  <2>3. \A m \in cpu_lru' : m \in node_map' /\ tree'[m].status = "CPU" /\ tree'[m].shared = 0
    BY <1>1, <2>1
  <2>4. \A m \in gpu_lru' : m \in node_map' /\ tree'[m].status = "GPU" /\ tree'[m].shared = 0
    <3> SUFFICES ASSUME NEW m \in gpu_lru'
                 PROVE  m \in node_map' /\ tree'[m].status = "GPU" /\ tree'[m].shared = 0
      OBVIOUS
    <3>1. CASE m \in gpu_lru \ {n}
      BY <2>1, <2>2, <3>1
    <3>2. CASE m \notin gpu_lru \ {n}
      <4>1. m = p /\ p # Root /\ tree'[p].shared = 0 /\ IsGpuLeaf(tree', p)
        BY <1>3, <1>8, <3>2
      <4> QED BY <1>2, <4>1 DEF IsGpuLeaf
    <3> QED BY <3>1, <3>2
  <2>5. ASSUME NEW m \in node_map', tree'[m].shared = 0
        PROVE  /\ IsGpuLeaf(tree', m) => m \in gpu_lru'
               /\ IsCpuLeaf(tree', m) => m \in cpu_lru'
    <3>1. m \in node_map /\ m # n /\ tree[m].shared = 0 /\ tree'[m].status = "GPU"
      BY <1>1, <2>2, <2>5
    <3>2. m # p => (IsGpuLeaf(tree', m) <=> IsGpuLeaf(tree, m))
      BY <1>1, <1>10, <3>1, UnlinkedLeaves DEF p
    <3>3. m # Root
      BY <3>1, InvRooted DEF Rooted
    <3>4. ~IsCpuLeaf(tree', m)
      BY <3>1 DEF IsCpuLeaf
    <3>5. IsGpuLeaf(tree', m) => tree'[m].kids = {}
      <4>1. \A k \in tree'[m].kids : k \in node_map'
        BY <1>12, <2>5 DEF Rooted, Linked
      <4> QED BY <1>1, <2>2, <4>1 DEF IsGpuLeaf
    <3>6. CASE m = p
      BY <1>3, <1>8, <2>5, <3>3, <3>4, <3>5, <3>6
    <3>7. CASE m # p
      BY <1>3, <2>1, <3>1, <3>2, <3>4, <3>7
    <3> QED BY <3>6, <3>7
  <2> QED BY <2>3, <2>4, <2>5 DEF LruInv
<1>17. Resident' = Resident \ {n} /\ node_map \ Resident = {} /\ node_map' \ Resident' = {}
  BY <1>1, <1>10 DEF Resident, Unlinked
<1>18. OwnedOnce(CpuLayout', CpuOwners, CpuBlocks)
  <2>1. OutItems' = OutItems
    BY DEF swapVars, OutItems, InFlight
  <2>2. \A m \in Nodes : CpuLayout'[<<"node", m>>] = CpuLayout[<<"node", m>>]
    BY <1>17, CpuLayoutIs, CpuLayoutNext
  <2>3. \A o \in CpuOwners : CpuLayout'[o] = CpuLayout[o]
    BY <2>1, <2>2, CpuLayoutIs, CpuLayoutNext, CpuOwnerIs
  <2> QED BY <2>3, SameOwners DEF IInv, OwnInv
<1>19. OwnedOnce(GpuLayout', GpuOwners, GpuBlocks)
  <2> DEFINE F == GpuLayout
             G == GpuLayout'
             R == tree[n].reserved
             S == {tree[n].block}
             q == <<"node", n>>
             s == <<"reserved", n>>
             H == [o \in GpuOwners |-> IF o = FreeList THEN F[o] \cup R ELSE IF o = s THEN {} ELSE F[o]]
  <2>1. F[FreeList] = gpu_free /\ G[FreeList] = (F[FreeList] \cup R) \cup S
    BY <1>13, GpuLayoutNext
  <2>2. F[q] = S /\ G[q] = {} /\ F[s] = R /\ G[s] = {}
    <3>1. n \notin node_map' /\ n \notin Resident'
      BY <1>17
    <3>2. G[q] = {} /\ G[s] = {}
      BY <1>1, <3>1, GpuLayoutNext
    <3> QED BY <1>13, <3>2
  <2>3. ASSUME NEW m \in Nodes, m # n
        PROVE  G[<<"node", m>>] = F[<<"node", m>>] /\ G[<<"reserved", m>>] = F[<<"reserved", m>>]
    <3>1. (m \in Resident' <=> m \in Resident) /\ (m \in node_map' <=> m \in node_map)
      BY <1>17, <2>3
    <3>2. m \in node_map => tree'[m].reserved = tree[m].reserved /\ tree'[m].block = tree[m].block
      BY <1>10, <2>3 DEF Unlinked
    <3>3. m \in Resident => m \in node_map
      BY DEF Resident
    <3>4. /\ F[<<"node", m>>] = IF m \in Resident THEN {tree[m].block} ELSE {}
          /\ F[<<"reserved", m>>] = IF m \in node_map THEN tree[m].reserved ELSE {}
      BY GpuLayoutIs
    <3>5. /\ G[<<"node", m>>] = IF m \in Resident' THEN {tree'[m].block} ELSE {}
          /\ G[<<"reserved", m>>] = IF m \in node_map' THEN tree'[m].reserved ELSE {}
      BY GpuLayoutNext
    <3> QED BY ONLY <3>1, <3>2, <3>3, <3>4, <3>5
  <2>4. \A r \in Requests : G[<<"unfilled", r>>] = F[<<"unfilled", r>>] /\ G[<<"pending", r>>] = F[<<"pending", r>>]
    BY <1>12, GpuLayoutIs, GpuLayoutNext DEF reqVars
  <2>5. ASSUME NEW o \in GpuOwners, o # FreeList, o # q, o # s PROVE G[o] = F[o]
    BY <2>3, <2>4, <2>5, GpuOwnerIs
  <2>6. /\ OwnedOnce(F, GpuOwners, GpuBlocks)
        /\ FreeList \in GpuOwners /\ q \in GpuOwners /\ s \in GpuOwners
        /\ FreeList # q /\ FreeList # s /\ q # s
    BY <1>1, GpuLayoutIs, GpuOwnersDiffer DEF IInv, OwnInv
  <2> HIDE DEF F, G, q, s, R, S
  <2>7. OwnedOnce(H, GpuOwners, GpuBlocks)
    <3>1. /\ R \subseteq F[s] /\ H[s] = F[s] \ R /\ H[FreeList] = F[FreeList] \cup R
          /\ \A o \in GpuOwners : o # s /\ o # FreeList => H[o] = F[o]
      BY <2>2, <2>6
    <3> HIDE DEF H
    <3> QED BY <2>6, <3>1, HandedOver
  <2>8. /\ S \subseteq H[q] /\ G[q] = H[q] \ S /\ G[FreeList] = H[FreeList] \cup S
        /\ \A o \in GpuOwners : o # q /\ o # FreeList => G[o] = H[o]
    BY <2>1, <2>2, <2>5, <2>6
  <2> HIDE DEF H
  <2>9. OwnedOnce(G, GpuOwners, GpuBlocks)
    <3>1. q \in GpuOwners /\ FreeList \in GpuOwners /\ q # FreeList
      BY ONLY <2>6
    <3> QED BY ONLY <2>7, <2>8, <3>1, HandedOver
  <2> QED BY <2>9 DEF G
<1> QED BY <1>12, <1>14, <1>15, <1>16, <1>18, <1>19 DEF IInv, OwnInv

-----------------------------------------------------------------------------
(* The list of victims.                                                    *)

(* InsertAt puts an element between two others.                            *)
LEMMA InsertAtFacts ==
    ASSUME NEW T, NEW s \in Seq(T), NEW at \in 1 .. Len(s) + 1, NEW e \in T
    PROVE  /\ InsertAt(s, at, e) \in Seq(T)
           /\ Len(InsertAt(s, at, e)) = Len(s) + 1
           /\ \A i \in 1 .. Len(s) + 1 :
                InsertAt(s, at, e)[i] = IF i < at THEN s[i] ELSE IF i = at THEN e ELSE s[i - 1]
<1> DEFINE L == Len(s)
           a == SubSeq(s, 1, at - 1)
           b == SubSeq(s, at, L)
           c == a \o <<e>>
<1>1. L \in Nat /\ DOMAIN s = 1 .. L /\ \A i \in 1 .. L : s[i] \in T
  BY LenProperties, ElementOfSeq
<1> HIDE DEF L
<1>2. at \in Nat /\ 1 <= at /\ at <= L + 1
  BY <1>1 DEF L
<1>3. a \in Seq(T) /\ Len(a) = at - 1 /\ \A i \in 1 .. at - 1 : a[i] = s[i]
  <2>1. \A i \in 1 .. at - 1 : s[i] \in T
    BY <1>1, <1>2
  <2> QED BY <1>1, <1>2, <2>1
<1>4. b \in Seq(T) /\ Len(b) = L - at + 1 /\ \A i \in 1 .. L - at + 1 : b[i] = s[at + i - 1]
  <2>1. \A i \in at .. L : s[i] \in T
    BY <1>1, <1>2
  <2> QED BY <1>1, <1>2, <2>1
<1> HIDE DEF a, b
<1>5. c \in Seq(T) /\ Len(c) = at /\ (\A i \in 1 .. at - 1 : c[i] = s[i]) /\ c[at] = e
  BY <1>2, <1>3
<1> HIDE DEF c
<1> DEFINE w == c \o b
<1>6. w \in Seq(T) /\ Len(w) = L + 1
      /\ \A i \in 1 .. L + 1 : w[i] = IF i <= at THEN c[i] ELSE b[i - at]
  <2>1. w \in Seq(T) /\ Len(w) = Len(c) + Len(b)
        /\ \A i \in 1 .. Len(c) + Len(b) : w[i] = IF i <= Len(c) THEN c[i] ELSE b[i - Len(c)]
    BY ONLY <1>4, <1>5, ConcatProperties
  <2>2. at + (L - at + 1) = L + 1
    BY <1>1, <1>2
  <2> QED BY ONLY <1>4, <1>5, <2>1, <2>2
<1> HIDE DEF w
<1>7. ASSUME NEW i \in 1 .. L + 1
      PROVE  w[i] = IF i < at THEN s[i] ELSE IF i = at THEN e ELSE s[i - 1]
  <2>1. CASE i < at
    BY <1>1, <1>2, <1>5, <1>6, <2>1
  <2>2. CASE i = at
    BY <1>1, <1>2, <1>5, <1>6, <2>2
  <2>3. CASE i > at
    <3>1. i - at \in 1 .. L - at + 1 /\ at + (i - at) - 1 = i - 1
      BY <1>1, <1>2, <2>3
    <3>2. b[i - at] = s[i - 1]
      BY <1>4, <3>1
    <3> QED BY <1>1, <1>2, <1>6, <2>3, <3>2
  <2>4. i \in Int /\ at \in Int
    BY <1>1, <1>2
  <2> QED BY <2>1, <2>2, <2>3, <2>4
<1>8. InsertAt(s, at, e) = w
  BY DEF InsertAt, w, c, a, b, L
<1> QED BY <1>6, <1>7, <1>8 DEF L

(* The victims after AddVictim: the old ones and the new one.              *)
LEMMA VictimAdded ==
    ASSUME SwapTypes, NEW n \in Nodes, tree[n].block \in GpuBlocks, n \notin VictimNodes,
           \A i, j \in DOMAIN victims : victims[i].node = victims[j].node => i = j
    PROVE  LET vs == AddVictim(victims, n)
           IN  /\ vs \in Seq(Victim) /\ Len(vs) = Len(victims) + 1
               /\ \A i \in DOMAIN vs : \/ vs[i] = [node |-> n, gpu |-> tree[n].block]
                                       \/ \E j \in DOMAIN victims : vs[i] = victims[j]
               /\ \A j \in DOMAIN victims : \E i \in DOMAIN vs : vs[i] = victims[j]
               /\ \E i \in DOMAIN vs : vs[i].node = n
               /\ \A i, j \in DOMAIN vs : vs[i].node = vs[j].node => i = j
<1> DEFINE L == Len(victims)
           e == [node |-> n, gpu |-> tree[n].block]
           same == {i \in DOMAIN victims : tree[victims[i].node].input = tree[n].input}
           at == IF same = {} THEN Len(victims) + 1 ELSE CHOOSE i \in same : \A j \in same : i <= j
           vs == AddVictim(victims, n)
<1>1. victims \in Seq(Victim) /\ L \in Nat /\ DOMAIN victims = 1 .. L
  BY DEF SwapTypes
<1>2. e \in Victim /\ e.node = n
  BY DEF Victim
<1>3. at \in 1 .. L + 1
  <2>1. CASE same = {}
    BY <1>1, <2>1
  <2>2. CASE same # {}
    <3>1. same \subseteq 1 .. L /\ same \subseteq Nat
      BY <1>1
    <3>2. \E i \in same : \A j \in same : i <= j
      BY <2>2, <3>1, LeastNat
    <3>3. at \in same
      BY <2>2, <3>2
    <3>4. at \in 1 .. L
      BY <3>1, <3>3
    <3> QED BY ONLY <1>1, <3>4
  <2> QED BY <2>1, <2>2
<1>4. vs = InsertAt(victims, at, e)
  BY DEF AddVictim
<1> HIDE DEF at, same, e, vs
<1>5. /\ vs \in Seq(Victim) /\ Len(vs) = L + 1
      /\ \A i \in 1 .. L + 1 : vs[i] = IF i < at THEN victims[i] ELSE IF i = at THEN e ELSE victims[i - 1]
  <2>1. at \in 1 .. Len(victims) + 1
    BY <1>3
  <2>2. victims \in Seq(Victim) /\ e \in Victim
    BY <1>1, <1>2
  <2>3. /\ InsertAt(victims, at, e) \in Seq(Victim) /\ Len(InsertAt(victims, at, e)) = Len(victims) + 1
        /\ \A i \in 1 .. Len(victims) + 1 :
             InsertAt(victims, at, e)[i] = IF i < at THEN victims[i] ELSE IF i = at THEN e ELSE victims[i - 1]
    BY ONLY <2>1, <2>2, InsertAtFacts
  <2> QED BY ONLY <1>4, <2>3
<1> HIDE DEF L
<1>6. DOMAIN vs = 1 .. L + 1
  BY <1>5
<1>7. at \in Nat /\ 1 <= at /\ at <= L + 1
  BY <1>1, <1>3
<1>8. /\ \A i \in 1 .. L + 1 : i < at => vs[i] = victims[i] /\ i \in 1 .. L
      /\ vs[at] = e
      /\ \A i \in 1 .. L + 1 : i > at => vs[i] = victims[i - 1] /\ i - 1 \in 1 .. L
  BY <1>1, <1>5, <1>7
<1>9. \A i \in 1 .. L + 1 : vs[i] = e \/ \E j \in DOMAIN victims : vs[i] = victims[j]
  BY <1>1, <1>7, <1>8
<1>10. ASSUME NEW j \in DOMAIN victims PROVE \E i \in 1 .. L + 1 : vs[i] = victims[j]
  <2>1. CASE j < at
    BY <1>1, <1>8, <2>1
  <2>2. CASE j >= at
    <3>1. j + 1 \in 1 .. L + 1 /\ j + 1 > at /\ (j + 1) - 1 = j
      BY <1>1, <1>7, <2>2
    <3>2. vs[j + 1] = victims[j]
      BY <1>8, <3>1
    <3> QED BY <3>1, <3>2
  <2> QED BY <1>1, <1>7, <2>1, <2>2
<1>11. \A j \in 1 .. L : victims[j].node # n
  BY <1>1 DEF VictimNodes
<1>12. ASSUME NEW i \in 1 .. L + 1, NEW j \in 1 .. L + 1, i < j PROVE vs[i].node # vs[j].node
  <2>0. at \in Nat /\ i \in Nat /\ j \in Nat
    BY <1>1, <1>7
  <2>1. CASE i < at /\ j < at
    <3>1. i \in DOMAIN victims /\ j \in DOMAIN victims /\ i # j /\ vs[i] = victims[i] /\ vs[j] = victims[j]
      BY <1>1, <1>8, <1>12, <2>0, <2>1
    <3> QED BY <3>1
  <2>2. CASE i < at /\ j = at
    BY <1>1, <1>2, <1>8, <1>11, <2>2
  <2>3. CASE i < at /\ j > at
    <3>1. i # j - 1
      BY <2>0, <2>3
    <3>2. i \in DOMAIN victims /\ j - 1 \in DOMAIN victims /\ vs[i] = victims[i] /\ vs[j] = victims[j - 1]
      BY <1>1, <1>8, <2>3
    <3> QED BY <3>1, <3>2
  <2>4. CASE i = at
    <3>1. j > at
      BY <1>12, <2>0, <2>4
    <3>2. j - 1 \in 1 .. L /\ vs[j] = victims[j - 1] /\ vs[i] = e
      BY <1>8, <2>4, <3>1
    <3> QED BY <1>2, <1>11, <3>2
  <2>5. CASE i > at
    <3>1. j > at /\ i - 1 # j - 1
      BY <1>12, <2>0, <2>5
    <3>2. i - 1 \in DOMAIN victims /\ j - 1 \in DOMAIN victims /\ vs[i] = victims[i - 1] /\ vs[j] = victims[j - 1]
      BY <1>1, <1>8, <2>5, <3>1
    <3> QED BY <3>1, <3>2
  <2> QED BY <2>0, <2>1, <2>2, <2>3, <2>4, <2>5
<1>13. \A i, j \in 1 .. L + 1 : vs[i].node = vs[j].node => i = j
  <2> SUFFICES ASSUME NEW i \in 1 .. L + 1, NEW j \in 1 .. L + 1, vs[i].node = vs[j].node, i # j PROVE FALSE
    OBVIOUS
  <2>1. i < j \/ j < i
    BY <1>1
  <2> QED BY <1>12, <2>1
<1>14. vs[at].node = n /\ at \in 1 .. L + 1
  BY <1>2, <1>3, <1>8
<1> QED BY <1>5, <1>6, <1>9, <1>10, <1>13, <1>14 DEF vs, e, L

-----------------------------------------------------------------------------
(* With CPU blocks the leaf becomes a victim and stays in the tree.        *)
LEMMA GpuLeafLeavesKeeps ==
    ASSUME IInv, ~WithoutCpu, holder = "free_gpu", freed < MaxSeqBlocks,
           NEW n \in gpu_lru, tree[n].shared = 0, IsGpuLeaf(tree, n),
           tree' = Leaving(n), freed' = freed + 1, victims' = AddVictim(victims, n),
           gpu_free' = gpu_free \cup tree[n].reserved, gpu_lru' = PushParent(tree', n, gpu_lru \ {n}),
           UNCHANGED <<node_map, cpu_free, cpu_lru, reqVars, swapVars, holder, future, state, table>>
    PROVE  IInv'
<1> USE DEF reqVars, swapVars
<1> DEFINE p == tree[n].parent
<1>1. n \in node_map /\ n \in Nodes /\ tree[n].status = "GPU"
  BY DEF IInv, LruInv, TypeOK
<1>2. /\ InItems = {} /\ InNodes = {} /\ OutItems = {} /\ OutNodes = {}
      /\ (\A r \in Requests : state[r] # "swapping") /\ future = "none"
  <2>1. future = "none"
    BY DEF IInv, PhaseInv
  <2> QED BY <2>1, NoSwapIn, NoSwapOut, NamesAssumption DEF IInv
<1>3. InFlight' = InFlight /\ InItems' = InItems /\ OutItems' = OutItems /\ InNodes' = {} /\ OutNodes' = {}
  BY <1>2 DEF InFlight, InItems, OutItems, InNodes, OutNodes
<1>4. Rooted(tree, node_map) /\ Linked(tree, node_map) /\ Root \notin node_map
      /\ node_map \subseteq Nodes /\ tree \in [{Root} \cup Nodes -> NodeRecord]
  BY InvRooted DEF IInv, TypeOK, Rooted
<1>5. /\ tree' = [tree EXCEPT ![n].status = "SWAP2CPU", ![n].reserved = {}]
      /\ gpu_lru' = IF tree'[n].parent # Root /\ tree'[tree'[n].parent].shared = 0
                       /\ IsGpuLeaf(tree', tree'[n].parent)
                    THEN (gpu_lru \ {n}) \cup {tree'[n].parent} ELSE gpu_lru \ {n}
  BY DEF Leaving, PushParent
<1>6. /\ tree'[n] = [tree[n] EXCEPT !.status = "SWAP2CPU", !.reserved = {}]
      /\ \A m \in {Root} \cup Nodes : m # n => tree'[m] = tree[m]
  BY ONLY <1>1, <1>4, <1>5
<1>7. tree[n] \in NodeRecord
  BY <1>1, <1>4
<1>8. /\ tree'[n].status = "SWAP2CPU" /\ tree'[n].reserved = {} /\ tree'[n].shared = tree[n].shared
      /\ tree'[n].parent = tree[n].parent /\ tree'[n].kids = tree[n].kids /\ tree'[n].key = tree[n].key
      /\ tree'[n].depth = tree[n].depth /\ tree'[n].block = tree[n].block
      /\ tree'[n] \in NodeRecord
  BY ONLY <1>6, <1>7 DEF NodeRecord
<1>9. tree' \in [{Root} \cup Nodes -> NodeRecord]
  <2>1. \A m \in {Root} \cup Nodes : tree'[m] \in NodeRecord
    BY ONLY <1>4, <1>6, <1>8
  <2>2. tree' = [m \in {Root} \cup Nodes |-> tree'[m]]
    BY ONLY <1>4, <1>5
  <2> QED BY ONLY <2>1, <2>2
<1>10. \A m \in {Root} \cup Nodes :
          /\ tree'[m].shared = tree[m].shared
          /\ tree'[m].parent = tree[m].parent /\ tree'[m].kids = tree[m].kids /\ tree'[m].key = tree[m].key
          /\ tree'[m].depth = tree[m].depth /\ tree'[m].block = tree[m].block
          /\ m # n => tree'[m].status = tree[m].status /\ tree'[m].reserved = tree[m].reserved
  BY ONLY <1>6, <1>8
<1>11. Rooted(tree', node_map')
  <2>1. \A m \in node_map \cup {Root} :
            /\ tree'[m].parent = tree[m].parent /\ tree'[m].kids = tree[m].kids
            /\ tree'[m].key = tree[m].key /\ tree'[m].depth = tree[m].depth
    BY <1>4, <1>10
  <2>2. node_map' = node_map
    OBVIOUS
  <2> QED BY ONLY <1>4, <2>1, <2>2, LinkedSame
<1>12. ASSUME NEW r \in Requests
       PROVE  /\ NewInv(r)' /\ SwappingInv(r)' /\ AdmittedInv(r)' /\ RunningInv(r)'
              /\ \A m : Uses(r, m)' <=> Uses(r, m)
  <2>1. ~Uses(r, n)
    BY <1>1, Unused
  <2>2. \A m \in node_map : Uses(r, m) => tree'[m] = tree[m]
    BY <1>4, <1>6, <2>1
  <2> QED BY <1>2, <1>11, <2>2, ReqFrame
<1>13. ReqInv'
  BY <1>12 DEF IInv, ReqInv
<1>14. CountInv'
  <2>1. \A m : Users(m)' = Users(m)
    BY <1>12 DEF Users
  <2> QED BY <1>4, <1>10, <2>1 DEF IInv, CountInv
<1>15. TreeInv'
  <2>1. Root # n /\ tree'[Root] = tree[Root]
    BY <1>1, <1>4, <1>6
  <2> QED BY <1>11, <2>1 DEF IInv, TreeInv, Rooted
<1>16. UsedInv'
  <2> SUFFICES ASSUME NEW m \in node_map
               PROVE  /\ tree'[m].shared # 0 => tree'[m].status \in {"GPU", "SWAP2GPU"}
                      /\ tree'[m].status # "GPU" => tree'[m].reserved = {}
    BY DEF UsedInv
  <2> QED BY <1>4, <1>8, <1>10 DEF IInv, UsedInv
<1>17. n \in Resident /\ Resident' = Resident
  BY <1>1, <1>4, <1>8, <1>10 DEF Resident
<1>18. /\ GpuLayout[<<"node", n>>] = {tree[n].block} /\ GpuLayout[<<"reserved", n>>] = tree[n].reserved
       /\ tree[n].block \in GpuBlocks /\ tree[n].reserved \subseteq GpuBlocks
  <2>1. /\ GpuLayout[<<"node", n>>] = {tree[n].block} /\ GpuLayout[<<"reserved", n>>] = tree[n].reserved
        /\ <<"node", n>> \in GpuOwners /\ <<"reserved", n>> \in GpuOwners
    BY <1>1, <1>17, GpuLayoutIs
  <2> QED BY <2>1 DEF IInv, OwnInv, OwnedOnce
<1>19. n \notin VictimNodes
  BY <1>1 DEF IInv, VictimsInv, VictimNodes
<1>20. /\ victims' \in Seq(Victim) /\ Len(victims') = Len(victims) + 1
       /\ \A i \in DOMAIN victims' : \/ victims'[i] = [node |-> n, gpu |-> tree[n].block]
                                     \/ \E j \in DOMAIN victims : victims'[i] = victims[j]
       /\ \A j \in DOMAIN victims : \E i \in DOMAIN victims' : victims'[i] = victims[j]
       /\ \E i \in DOMAIN victims' : victims'[i].node = n
       /\ \A i, j \in DOMAIN victims' : victims'[i].node = victims'[j].node => i = j
  <2>1. SwapTypes /\ \A i, j \in DOMAIN victims : victims[i].node = victims[j].node => i = j
    BY DEF IInv, VictimsInv
  <2> QED BY <1>1, <1>18, <1>19, <2>1, VictimAdded
<1>21. TypeOK'
  <2>1. freed + 1 \in 0 .. MaxSeqBlocks
    BY CacheAssumption DEF IInv, TypeOK
  <2>2. gpu_lru' \subseteq Nodes
    <3>1. p \in node_map \cup {Root}
      BY <1>1, <1>4 DEF Linked
    <3> QED BY <1>4, <1>5, <1>8, <3>1 DEF IInv, TypeOK
  <2> QED BY <1>9, <1>18, <2>1, <2>2 DEF IInv, TypeOK
<1>22. SwapTypes' /\ OneTask' /\ Waits'
  BY <1>3, <1>20 DEF IInv, SwapTypes, OneTask, Waits
<1>23. ItemsInv'
  BY <1>2, <1>3 DEF IInv, ItemsInv
<1>24. VictimsInv'
  <2>1. ASSUME NEW i \in DOMAIN victims'
        PROVE  /\ victims'[i].node \in node_map /\ tree'[victims'[i].node].status = "SWAP2CPU"
               /\ tree'[victims'[i].node].block = victims'[i].gpu
    <3>1. CASE victims'[i] = [node |-> n, gpu |-> tree[n].block]
      BY <1>1, <1>8, <3>1
    <3>2. CASE \E j \in DOMAIN victims : victims'[i] = victims[j]
      <4>1. PICK j \in DOMAIN victims : victims'[i] = victims[j]
        BY <3>2
      <4>2. /\ victims[j].node \in node_map /\ tree[victims[j].node].status = "SWAP2CPU"
            /\ tree[victims[j].node].block = victims[j].gpu
        BY DEF IInv, VictimsInv
      <4>3. victims[j].node \in Nodes /\ victims[j].node # n
        BY <1>1, <1>4, <4>2
      <4> QED BY <1>10, <4>1, <4>2, <4>3
    <3> QED BY <1>20, <3>1, <3>2
  <2> QED BY <1>20, <2>1 DEF VictimsInv
<1>25. VictimNodes \cup {n} \subseteq VictimNodes'
  BY <1>20 DEF VictimNodes
<1>26. StatusInv'
  <2>1. ASSUME NEW m \in node_map, tree'[m].status = "SWAP2CPU" PROVE m \in VictimNodes'
    BY <1>2, <1>4, <1>10, <1>25, <2>1 DEF IInv, StatusInv
  <2>2. ASSUME NEW m \in node_map, tree'[m].status = "SWAP2GPU" PROVE FALSE
    <3>1. m # n
      BY <1>8, <2>2
    <3> QED BY <1>2, <1>4, <1>10, <2>2, <3>1 DEF IInv, StatusInv
  <2>3. ASSUME NEW m \in node_map
        PROVE  /\ tree'[tree[m].parent].status \in {"CPU", "SWAP2CPU"} => tree'[m].status \in {"CPU", "SWAP2CPU"}
               /\ ~(tree'[tree[m].parent].status = "CPU" /\ tree'[m].status = "SWAP2CPU")
    <3> DEFINE q == tree[m].parent
    <3>1. q \in node_map \cup {Root} /\ q \in {Root} \cup Nodes /\ m \in tree[q].kids /\ m \in Nodes
      BY <1>4 DEF Linked
    <3>2. /\ tree[q].status \in {"CPU", "SWAP2CPU"} => tree[m].status \in {"CPU", "SWAP2CPU"}
          /\ ~(tree[q].status = "CPU" /\ tree[m].status = "SWAP2CPU")
      BY <1>2 DEF IInv, StatusInv
    <3> HIDE DEF q
    <3>3. CASE q = n
      <4>1. tree[m].status # "GPU"
        BY <3>1, <3>3 DEF IsGpuLeaf
      <4>2. tree[m].status # "SWAP2GPU"
        BY <1>2 DEF IInv, StatusInv
      <4>3. tree[m].status \in {"CPU", "SWAP2CPU"}
        BY <1>4, <3>1, <4>1, <4>2 DEF NodeRecord
      <4>4. m # n
        BY <1>1, <4>3
      <4> QED BY <1>8, <1>10, <3>1, <3>3, <4>3, <4>4 DEF q
    <3>4. CASE q # n /\ m = n
      <4>1. tree[q].status \notin {"CPU", "SWAP2CPU"}
        BY <1>1, <3>2, <3>4
      <4> QED BY <1>10, <3>1, <3>4, <4>1 DEF q
    <3>5. CASE q # n /\ m # n
      BY <1>10, <3>1, <3>2, <3>5 DEF q
    <3> QED BY <3>3, <3>4, <3>5
  <2>4. \A m \in node_map : tree'[m].parent = tree[m].parent
    BY <1>4, <1>10
  <2>5. node_map' = node_map
    OBVIOUS
  <2> QED BY ONLY <2>1, <2>2, <2>3, <2>4, <2>5 DEF StatusInv
<1>27. PhaseInv'
  BY <1>3 DEF IInv, PhaseInv, WithoutCpu
<1>28. RoomInv'
  <2>1. freed = Len(victims)
    BY DEF IInv, RoomInv
  <2>2. freed \in Nat /\ MaxSeqBlocks \in Nat
    BY CacheAssumption DEF IInv, TypeOK
  <2>3. freed' = Len(victims') /\ Len(victims') <= MaxSeqBlocks
    BY <1>20, <2>1, <2>2
  <2> QED BY <1>2, <2>3 DEF RoomInv
<1>29. LruInv'
  <2>1. /\ \A m \in gpu_lru : m \in node_map /\ tree[m].status = "GPU" /\ tree[m].shared = 0
        /\ \A m \in cpu_lru : m \in node_map /\ tree[m].status = "CPU" /\ tree[m].shared = 0
        /\ \A m \in node_map : tree[m].shared = 0 =>
              (IsGpuLeaf(tree, m) => m \in gpu_lru) /\ (IsCpuLeaf(tree, m) => m \in cpu_lru)
    BY DEF IInv, LruInv
  <2>2. p \in node_map \cup {Root} /\ tree'[n].parent = p
    BY <1>1, <1>4, <1>8 DEF Linked
  <2>3. \A m \in cpu_lru' : m \in node_map /\ tree'[m].status = "CPU" /\ tree'[m].shared = 0
    BY <1>1, <1>4, <1>10, <2>1
  <2> HIDE DEF p
  <2>4. \A m \in gpu_lru' : m \in node_map /\ tree'[m].status = "GPU" /\ tree'[m].shared = 0
    <3> SUFFICES ASSUME NEW m \in gpu_lru'
                 PROVE  m \in node_map /\ tree'[m].status = "GPU" /\ tree'[m].shared = 0
      OBVIOUS
    <3>1. CASE m \in gpu_lru \ {n}
      BY <1>4, <1>10, <2>1, <3>1
    <3>2. CASE m \notin gpu_lru \ {n}
      <4>1. m = p /\ p # Root /\ tree'[p].shared = 0 /\ IsGpuLeaf(tree', p)
        BY <1>5, <2>2, <3>2
      <4> QED BY <2>2, <4>1 DEF IsGpuLeaf
    <3> QED BY <3>1, <3>2
  <2>5. ASSUME NEW m \in node_map, tree'[m].shared = 0
        PROVE  /\ IsGpuLeaf(tree', m) => m \in gpu_lru'
               /\ IsCpuLeaf(tree', m) => m \in cpu_lru'
    <3>1. m \in Nodes /\ m # Root /\ tree[m].shared = 0 /\ \A k \in tree[m].kids : k \in node_map /\ tree[k].parent = m
      BY <1>4, <1>10, <2>5 DEF Linked
    <3>2. CASE m = n
      BY <1>8, <3>2 DEF IsGpuLeaf, IsCpuLeaf
    <3>3. CASE m # n
      <4>1. IsCpuLeaf(tree', m) => IsCpuLeaf(tree, m)
        BY <1>10, <3>1, <3>3 DEF IsCpuLeaf
      <4>2. CASE m = p
        BY <1>5, <2>1, <2>2, <2>5, <3>1, <4>1, <4>2
      <4>3. CASE m # p
        <5>1. \A k \in tree[m].kids : k # n /\ tree'[k].status = tree[k].status
          BY <1>4, <1>10, <3>1, <4>3 DEF p
        <5>2. IsGpuLeaf(tree', m) => IsGpuLeaf(tree, m)
          BY <1>10, <3>1, <3>3, <5>1 DEF IsGpuLeaf
        <5> QED BY <1>5, <2>1, <3>1, <3>3, <4>1, <5>2
      <4> QED BY <4>2, <4>3
    <3> QED BY <3>2, <3>3
  <2>6. node_map' = node_map
    OBVIOUS
  <2> QED BY ONLY <2>3, <2>4, <2>5, <2>6 DEF LruInv
<1>30. OwnedOnce(CpuLayout', CpuOwners, CpuBlocks)
  <2>1. ASSUME NEW m \in Nodes PROVE CpuLayout'[<<"node", m>>] = CpuLayout[<<"node", m>>]
    <3>1. tree'[m].block = tree[m].block /\ node_map' = node_map
      BY <1>10
    <3> QED BY <1>17, <3>1, CpuLayoutIs, CpuLayoutNext
  <2>2. \A o \in CpuOwners : CpuLayout'[o] = CpuLayout[o]
    BY <1>3, <2>1, CpuLayoutIs, CpuLayoutNext, CpuOwnerIs
  <2> QED BY <2>2, SameOwners DEF IInv, OwnInv
<1>31. OwnedOnce(GpuLayout', GpuOwners, GpuBlocks)
  <2> DEFINE F == GpuLayout
             G == GpuLayout'
             R == tree[n].reserved
             s == <<"reserved", n>>
  <2>1. F[FreeList] = gpu_free /\ G[FreeList] = F[FreeList] \cup R
    BY GpuLayoutIs, GpuLayoutNext
  <2>2. F[s] = R /\ G[s] = {}
    BY <1>1, <1>8, <1>18, GpuLayoutNext
  <2>3. ASSUME NEW m \in Nodes PROVE G[<<"node", m>>] = F[<<"node", m>>]
    <3>1. F[<<"node", m>>] = IF m \in Resident THEN {tree[m].block} ELSE {}
      BY GpuLayoutIs
    <3>2. G[<<"node", m>>] = IF m \in Resident' THEN {tree'[m].block} ELSE {}
      BY GpuLayoutNext
    <3>3. tree'[m].block = tree[m].block
      BY <1>10
    <3> QED BY ONLY <1>17, <3>1, <3>2, <3>3
  <2>4. ASSUME NEW m \in Nodes, m # n PROVE G[<<"reserved", m>>] = F[<<"reserved", m>>]
    <3>1. F[<<"reserved", m>>] = IF m \in node_map THEN tree[m].reserved ELSE {}
      BY GpuLayoutIs
    <3>2. G[<<"reserved", m>>] = IF m \in node_map' THEN tree'[m].reserved ELSE {}
      BY GpuLayoutNext
    <3>3. tree'[m].reserved = tree[m].reserved /\ node_map' = node_map
      BY <1>10, <2>4
    <3> QED BY ONLY <3>1, <3>2, <3>3
  <2>5. \A r \in Requests : G[<<"unfilled", r>>] = F[<<"unfilled", r>>] /\ G[<<"pending", r>>] = F[<<"pending", r>>]
    <3>1. \A r \in Requests : Pending(r)' = Pending(r)
      BY <1>2 DEF Pending
    <3> QED BY <3>1, GpuLayoutIs, GpuLayoutNext
  <2>6. ASSUME NEW o \in GpuOwners, o # FreeList, o # s PROVE G[o] = F[o]
    BY <2>3, <2>4, <2>5, <2>6, GpuOwnerIs
  <2>7. /\ OwnedOnce(F, GpuOwners, GpuBlocks)
        /\ FreeList \in GpuOwners /\ s \in GpuOwners /\ FreeList # s
    BY <1>1, GpuLayoutIs, GpuOwnersDiffer DEF IInv, OwnInv
  <2>8. R \subseteq F[s] /\ G[s] = F[s] \ R
    BY <2>2
  <2> HIDE DEF F, G, s, R
  <2>9. OwnedOnce(G, GpuOwners, GpuBlocks)
    BY <2>1, <2>6, <2>7, <2>8, HandedOver
  <2> QED BY <2>9 DEF G
<1> QED BY <1>13, <1>14, <1>15, <1>16, <1>21, <1>22, <1>23, <1>24, <1>26, <1>27, <1>28, <1>29,
           <1>30, <1>31 DEF IInv, OwnInv

(* free_block_ids_async takes the next leaf, or drops a stale candidate.   *)
LEMMA FreeVictimKeeps == ASSUME IInv, Own(FreeVictim) PROVE IInv'
<1>1. /\ holder = "free_gpu" /\ freed < MaxSeqBlocks
      /\ UNCHANGED <<cpu_free, cpu_lru, reqVars, swapVars, holder, future, state, table>>
  BY DEF Own, FreeVictim
<1>2. PICK n \in gpu_lru :
        IF tree[n].shared = 0 /\ IsGpuLeaf(tree, n)
        THEN /\ tree' = (IF WithoutCpu THEN Detached(n) ELSE Leaving(n))
             /\ freed' = freed + 1
             /\ gpu_free' = gpu_free \cup (tree[n].reserved \cup (IF WithoutCpu THEN {tree[n].block} ELSE {}))
             /\ node_map' = (IF WithoutCpu THEN node_map \ {n} ELSE node_map)
             /\ victims' = (IF WithoutCpu THEN victims ELSE AddVictim(victims, n))
             /\ gpu_lru' = PushParent(IF WithoutCpu THEN Detached(n) ELSE Leaving(n), n, gpu_lru \ {n})
        ELSE gpu_lru' = gpu_lru \ {n} /\ UNCHANGED <<tree, freed, gpu_free, node_map, victims>>
  BY DEF Own, FreeVictim
<1>3. CASE tree[n].shared = 0 /\ IsGpuLeaf(tree, n) /\ WithoutCpu
  <2>1. /\ tree' = Detached(n) /\ freed' = freed + 1 /\ victims' = victims
        /\ gpu_free' = gpu_free \cup (tree[n].reserved \cup {tree[n].block})
        /\ node_map' = node_map \ {n} /\ gpu_lru' = PushParent(tree', n, gpu_lru \ {n})
    BY <1>2, <1>3
  <2> QED BY <1>1, <1>3, <2>1, GpuLeafFreedKeeps
<1>4. CASE tree[n].shared = 0 /\ IsGpuLeaf(tree, n) /\ ~WithoutCpu
  <2>1. /\ tree' = Leaving(n) /\ freed' = freed + 1 /\ victims' = AddVictim(victims, n)
        /\ gpu_free' = gpu_free \cup tree[n].reserved
        /\ node_map' = node_map /\ gpu_lru' = PushParent(tree', n, gpu_lru \ {n})
    BY <1>2, <1>4
  <2> QED BY <1>1, <1>4, <2>1, GpuLeafLeavesKeeps
<1>5. CASE ~(tree[n].shared = 0 /\ IsGpuLeaf(tree, n))
  <2>1. /\ gpu_lru' \in {gpu_lru, gpu_lru \ {n}} /\ cpu_lru' \in {cpu_lru, cpu_lru \ {n}}
        /\ gpu_lru' # gpu_lru => ~(tree[n].shared = 0 /\ IsGpuLeaf(tree, n))
        /\ cpu_lru' # cpu_lru => ~(tree[n].shared = 0 /\ IsCpuLeaf(tree, n))
    BY <1>1, <1>2, <1>5
  <2>2. UNCHANGED <<poolVars, node_map, tree, reqVars, swapVars, evictVars, holder, state, table>>
    BY <1>1, <1>2, <1>5 DEF poolVars, evictVars
  <2> QED BY ONLY IInv, <2>1, <2>2, DroppedKeeps
<1> QED BY <1>3, <1>4, <1>5

-----------------------------------------------------------------------------
(* What build_path leaves behind: the nodes "new", one below the other,    *)
(* below "last" in the tree t.                                             *)
Spare(k, ids) == {ids[i] : i \in k + 1 .. Len(ids)}
NewLeaf(k, last, new) == IF k = 0 THEN last ELSE new[k]

Built(t, r, last, from, ids, new, k, leaf) ==
    /\ from + k = Len(Prompt[r]) /\ leaf = NewLeaf(k, last, new)
    /\ k \in Nat /\ Len(new) = k /\ Len(ids) \in Nat /\ k <= Len(ids)
    /\ \A i, j \in 1 .. k : new[i] = new[j] => i = j
    /\ \A i \in 1 .. k : new[i] \in Nodes \ node_map
    /\ node_map' = node_map \cup {new[i] : i \in 1 .. k}
    /\ tree' = [n \in {Root} \cup Nodes |-> tree'[n]]
    /\ \A n \in {Root} \cup Nodes :
          \/ tree'[n] \in NodeRecord
          \/ n \in node_map' /\ (tree'[n].depth \in 0 .. MaxNodes => tree'[n] \in NodeRecord)
    /\ req_leaf_map' = [req_leaf_map EXCEPT ![r] = leaf]
    /\ unfilled' = [unfilled EXCEPT ![r] = IF leaf = Root THEN Spare(k, ids) ELSE @]
    /\ \A n \in node_map \cup {Root} :
          /\ tree'[n].parent = t[n].parent /\ tree'[n].key = t[n].key
          /\ tree'[n].depth = t[n].depth /\ tree'[n].status = t[n].status
          /\ tree'[n].block = t[n].block /\ tree'[n].shared = t[n].shared
          /\ n # leaf \/ n = Root => tree'[n].reserved = t[n].reserved
          /\ n = leaf /\ n # Root => tree'[n].reserved = t[n].reserved \cup Spare(k, ids)
          /\ n # last => tree'[n].kids = t[n].kids
          /\ n = last => tree'[n].kids = t[n].kids \cup {new[i] : i \in {j \in 1 .. k : j = 1}}
    /\ \A i \in 1 .. k :
          /\ tree'[new[i]].parent = IF i = 1 THEN last ELSE new[i - 1]
          /\ tree'[new[i]].key = Prompt[r][from + i] /\ tree'[new[i]].depth = from + i
          /\ tree'[new[i]].block = ids[i] /\ tree'[new[i]].status = "GPU"
          /\ tree'[new[i]].shared = 1
          /\ tree'[new[i]].reserved = IF i = k THEN Spare(k, ids) ELSE {}
          /\ tree'[new[i]].kids = IF i = k THEN {} ELSE {new[i + 1]}

(* build_path makes such nodes.                                            *)
LEMMA BuildsNodes ==
    ASSUME NEW t, NEW r \in Requests, NEW last, NEW from \in Nat, NEW ids \in Seq(GpuBlocks),
           Rooted(t, node_map), node_map \subseteq Nodes, t \in [{Root} \cup Nodes -> NodeRecord],
           last \in node_map \cup {Root}, t[last].depth = from, from <= Len(Prompt[r]),
           from = Len(Prompt[r]) \/ \A m \in t[last].kids : t[m].key # Prompt[r][from + 1],
           Len(ids) = BlockNum(r) - from,
           BuildPath(t, r, last, from, ids, Dec)
    PROVE  \E new, k, leaf : Built(t, r, last, from, ids, new, k, leaf)
<1> DEFINE k == Len(Prompt[r]) - from
           new == Allocate(Unreferenced, k)
           leaf == IF k = 0 THEN last ELSE new[k]
           spare == {ids[i] : i \in k + 1 .. k + Dec + (IF r \in Unfilled THEN 1 ELSE 0)}
           node(i) == [parent |-> IF i = 1 THEN last ELSE new[i - 1],
                       key |-> Prompt[r][from + i], depth |-> t[last].depth + i,
                       block |-> ids[i], status |-> "GPU", shared |-> 1,
                       reserved |-> IF i = k THEN spare ELSE {},
                       kids |-> IF i = k THEN {} ELSE {new[i + 1]},
                       input |-> Prompt[r]]
           above == [t[last] EXCEPT
                       !.kids = IF k = 0 THEN @
                                ELSE {m \in @ : t[m].key # Prompt[r][from + 1]} \cup {new[1]},
                       !.reserved = IF leaf = last /\ last # Root THEN @ \cup spare ELSE @]
<1>1. /\ k <= Cardinality(Unreferenced)
      /\ tree' = [n \in DOMAIN t |->
                        IF \E i \in 1 .. k : new[i] = n
                        THEN node(CHOOSE i \in 1 .. k : new[i] = n)
                        ELSE IF n = last THEN above ELSE t[n]]
      /\ node_map' = node_map \cup Range(new)
      /\ req_leaf_map' = [req_leaf_map EXCEPT ![r] = leaf]
      /\ unfilled' = [unfilled EXCEPT ![r] = IF leaf = Root THEN spare ELSE @]
  BY DEF BuildPath
<1>2. Len(Prompt[r]) \in Nat /\ k \in Nat /\ from + k = Len(Prompt[r])
      /\ \A i \in 1 .. k : Prompt[r][from + i] \in Range(Prompt[r])
  <2>1. Prompt[r] \in Seq(Range(Prompt[r]))
    BY CacheAssumption
  <2>2. Len(Prompt[r]) \in Nat /\ \A i \in 1 .. Len(Prompt[r]) : Prompt[r][i] \in Range(Prompt[r])
    BY ONLY <2>1, LenProperties, ElementOfSeq
  <2>3. k \in Nat /\ from + k = Len(Prompt[r])
    BY <2>2
  <2> HIDE DEF k
  <2>4. \A i \in 1 .. k : from + i \in 1 .. Len(Prompt[r])
    BY <2>2, <2>3
  <2> QED BY <2>2, <2>3, <2>4
<1>3. spare = Spare(k, ids) /\ Len(ids) \in Nat /\ k <= Len(ids)
  <2>1. Len(ids) = k + Dec + (IF r \in Unfilled THEN 1 ELSE 0)
    <3>1. Len(ids) = (Len(Prompt[r]) + (IF r \in Unfilled THEN 1 ELSE 0) + Dec) - from
      BY DEF BlockNum
    <3> DEFINE u == IF r \in Unfilled THEN 1 ELSE 0
    <3>2. u \in Nat /\ Dec \in Nat /\ Len(ids) = (Len(Prompt[r]) + u + Dec) - from
      BY <3>1, DecAssumption
    <3> HIDE DEF u
    <3>3. Len(ids) = k + Dec + u
      BY ONLY <1>2, <3>2, from \in Nat
    <3> QED BY <3>3 DEF u
  <2> HIDE DEF k
  <2>2. spare = Spare(k, ids)
    BY <2>1 DEF Spare
  <2> QED BY <1>2, <2>1, <2>2, DecAssumption
<1>4. leaf = NewLeaf(k, last, new)
  BY DEF NewLeaf
<1> HIDE DEF k, spare
<1>5. /\ new \in [1 .. k -> Unreferenced] /\ new \in Seq(Unreferenced) /\ Len(new) = k
      /\ \A i, j \in 1 .. k : new[i] = new[j] => i = j
  <2>1. Unreferenced \in SUBSET (0 .. MaxNodes) /\ MaxNodes \in Nat
    BY CacheAssumption DEF Unreferenced, Nodes
  <2>2. /\ Allocate(Unreferenced, k) \in [1 .. k -> Unreferenced]
        /\ \A i, j \in 1 .. k : i # j => Allocate(Unreferenced, k)[i] # Allocate(Unreferenced, k)[j]
        /\ Allocate(Unreferenced, k) \in Seq(Unreferenced) /\ Len(Allocate(Unreferenced, k)) = k
    BY ONLY <1>1, <1>2, <2>1, AllocateFacts
  <2>3. new = Allocate(Unreferenced, k)
    OBVIOUS
  <2> HIDE DEF new
  <2> QED BY ONLY <2>2, <2>3
<1> HIDE DEF new
<1>6. \A i \in 1 .. k : new[i] \in Nodes \ node_map
  BY <1>5 DEF Unreferenced
<1>7. Range(new) = {new[i] : i \in 1 .. k}
  BY <1>5 DEF Range
<1>8. Root \notin Nodes /\ DOMAIN t = {Root} \cup Nodes /\ last \in DOMAIN t
  BY DEF Root, Nodes
<1>9. \A i \in 1 .. k : ids[i] \in GpuBlocks
  <2>1. \A i \in 1 .. Len(ids) : ids[i] \in GpuBlocks
    BY ONLY ids \in Seq(GpuBlocks), ElementOfSeq
  <2> QED BY <1>2, <1>3, <2>1
<1>10. spare \subseteq GpuBlocks
  <2>1. \A i \in 1 .. Len(ids) : ids[i] \in GpuBlocks
    BY ONLY ids \in Seq(GpuBlocks), ElementOfSeq
  <2>2. \A i \in k + 1 .. Len(ids) : ids[i] \in GpuBlocks
    BY <1>2, <2>1
  <2> QED BY <1>3, <2>2 DEF Spare
<1>11. \A i \in 1 .. k : tree'[new[i]] = node(i)
  <2> SUFFICES ASSUME NEW i \in 1 .. k PROVE tree'[new[i]] = node(i)
    OBVIOUS
  <2>1. new[i] \in DOMAIN t
    BY <1>6, <1>8
  <2>2. (CHOOSE j \in 1 .. k : new[j] = new[i]) = i
    BY <1>5
  <2> HIDE DEF node
  <2> QED BY <1>1, <2>1, <2>2
<1>12. last \notin {new[i] : i \in 1 .. k}
  BY <1>6, <1>8
<1>13. tree'[last] = above
  <2> HIDE DEF above, node
  <2> QED BY <1>1, <1>8, <1>12
<1>14. \A n \in {Root} \cup Nodes : n # last /\ n \notin {new[i] : i \in 1 .. k} => tree'[n] = t[n]
  <2> HIDE DEF above, node
  <2> QED BY <1>1, <1>8
<1>15. t[last] \in NodeRecord
  BY <1>8
<1>16. k # 0 => {m \in t[last].kids : t[m].key # Prompt[r][from + 1]} = t[last].kids
  BY <1>2
<1>17. /\ tree'[last].parent = t[last].parent /\ tree'[last].key = t[last].key
       /\ tree'[last].depth = t[last].depth /\ tree'[last].status = t[last].status
       /\ tree'[last].block = t[last].block /\ tree'[last].shared = t[last].shared
       /\ tree'[last].reserved = IF leaf = last /\ last # Root THEN t[last].reserved \cup spare ELSE t[last].reserved
       /\ tree'[last].kids = IF k = 0 THEN t[last].kids ELSE t[last].kids \cup {new[1]}
  <2>1. /\ tree'[last].parent = t[last].parent /\ tree'[last].key = t[last].key
        /\ tree'[last].depth = t[last].depth /\ tree'[last].status = t[last].status
        /\ tree'[last].block = t[last].block /\ tree'[last].shared = t[last].shared
    BY ONLY <1>13, <1>15 DEF NodeRecord, above
  <2>2. tree'[last].reserved = IF leaf = last /\ last # Root THEN t[last].reserved \cup spare ELSE t[last].reserved
    BY ONLY <1>13, <1>15 DEF NodeRecord, above
  <2>3. tree'[last].kids = IF k = 0 THEN t[last].kids
                           ELSE {m \in t[last].kids : t[m].key # Prompt[r][from + 1]} \cup {new[1]}
    BY ONLY <1>13, <1>15 DEF NodeRecord, above
  <2> QED BY ONLY <1>16, <2>1, <2>2, <2>3
<1>18. \A i \in 1 .. k :
          /\ tree'[new[i]].parent = IF i = 1 THEN last ELSE new[i - 1]
          /\ tree'[new[i]].key = Prompt[r][from + i] /\ tree'[new[i]].depth = from + i
          /\ tree'[new[i]].block = ids[i] /\ tree'[new[i]].status = "GPU"
          /\ tree'[new[i]].shared = 1
          /\ tree'[new[i]].reserved = IF i = k THEN spare ELSE {}
          /\ tree'[new[i]].kids = IF i = k THEN {} ELSE {new[i + 1]}
  <2> SUFFICES ASSUME NEW i \in 1 .. k
               PROVE  /\ tree'[new[i]].parent = IF i = 1 THEN last ELSE new[i - 1]
                      /\ tree'[new[i]].key = Prompt[r][from + i] /\ tree'[new[i]].depth = from + i
                      /\ tree'[new[i]].block = ids[i] /\ tree'[new[i]].status = "GPU"
                      /\ tree'[new[i]].shared = 1
                      /\ tree'[new[i]].reserved = IF i = k THEN spare ELSE {}
                      /\ tree'[new[i]].kids = IF i = k THEN {} ELSE {new[i + 1]}
    OBVIOUS
  <2>1. tree'[new[i]] = node(i)
    BY <1>11
  <2>2. node(i).depth = from + i
    OBVIOUS
  <2> QED BY ONLY <2>1, <2>2
<1>19. \A i \in 1 .. k : leaf # last /\ new[i] # Root
  BY <1>2, <1>6, <1>8, <1>12
<1>20. {new[i] : i \in {j \in 1 .. k : j = 1}} = IF k = 0 THEN {} ELSE {new[1]}
  BY <1>2
<1>21. \A n \in {Root} \cup Nodes :
          \/ tree'[n] \in NodeRecord
          \/ n \in node_map' /\ (tree'[n].depth \in 0 .. MaxNodes => tree'[n] \in NodeRecord)
  <2>1. tree'[last] \in NodeRecord
    <3>1. k # 0 => new[1] \in Nodes
      BY <1>2, <1>6
    <3>2. t[last].kids \subseteq Nodes /\ t[last].reserved \subseteq GpuBlocks
      BY <1>15 DEF NodeRecord
    <3> DEFINE K == IF k = 0 THEN t[last].kids
                    ELSE {m \in t[last].kids : t[m].key # Prompt[r][from + 1]} \cup {new[1]}
               R == IF leaf = last /\ last # Root THEN t[last].reserved \cup spare ELSE t[last].reserved
    <3>3. K \subseteq Nodes /\ R \subseteq GpuBlocks
      BY <1>10, <3>1, <3>2
    <3>4. above = [t[last] EXCEPT !.kids = K, !.reserved = R]
      BY ONLY <1>15 DEF NodeRecord
    <3> HIDE DEF K, R, above
    <3>5. tree'[last] = [t[last] EXCEPT !.kids = K, !.reserved = R]
      BY ONLY <1>13, <3>4
    <3>6. K \in SUBSET Nodes /\ R \in SUBSET GpuBlocks
      BY <3>3
    <3> QED BY ONLY <1>15, <3>5, <3>6 DEF NodeRecord
  <2>2. ASSUME NEW i \in 1 .. k
        PROVE  new[i] \in node_map' /\ (tree'[new[i]].depth \in 0 .. MaxNodes => tree'[new[i]] \in NodeRecord)
    <3> SUFFICES ASSUME tree'[new[i]].depth \in 0 .. MaxNodes PROVE tree'[new[i]] \in NodeRecord
      BY <1>1, <1>7
    <3>1. from + i \in 0 .. MaxNodes
      BY <1>18
    <3>2. Prompt[r][from + i] \in UNION {Range(Prompt[q]) : q \in Requests}
      BY <1>2
    <3>3. Prompt[r] \in Range(Prompt)
      BY CacheAssumption DEF Range
    <3>4. ids[i] \in Int
      BY <1>9 DEF GpuBlocks
    <3>5. (IF i = 1 THEN last ELSE new[i - 1]) \in {NoNode, Root} \cup Nodes
      BY <1>2, <1>6, <1>8
    <3>6. (IF i = k THEN {} ELSE {new[i + 1]}) \in SUBSET Nodes
      BY <1>2, <1>6
    <3>7. (IF i = k THEN spare ELSE {}) \in SUBSET GpuBlocks
      BY <1>10
    <3>8. t[last].depth + i \in 0 .. MaxNodes
      BY <3>1
    <3>9. node(i) \in NodeRecord
      BY ONLY <3>2, <3>3, <3>4, <3>5, <3>6, <3>7, <3>8 DEF NodeRecord
    <3> QED BY <1>11, <3>9
  <2> QED BY <1>8, <1>14, <2>1, <2>2
<1>22. tree' = [n \in {Root} \cup Nodes |-> tree'[n]]
  <2> HIDE DEF above, node
  <2> QED BY ONLY <1>1, <1>8
<1>23. Len(Prompt[r]) - from = k
  BY DEF k
<1>24. ASSUME NEW n \in node_map \cup {Root}
       PROVE  /\ tree'[n].parent = t[n].parent /\ tree'[n].key = t[n].key
              /\ tree'[n].depth = t[n].depth /\ tree'[n].status = t[n].status
              /\ tree'[n].block = t[n].block /\ tree'[n].shared = t[n].shared
              /\ n # leaf \/ n = Root => tree'[n].reserved = t[n].reserved
              /\ n = leaf /\ n # Root => tree'[n].reserved = t[n].reserved \cup spare
              /\ n # last => tree'[n].kids = t[n].kids
              /\ n = last => tree'[n].kids = t[n].kids \cup {new[i] : i \in {j \in 1 .. k : j = 1}}
  <2>1. n \notin {new[i] : i \in 1 .. k} /\ n \in {Root} \cup Nodes
    BY <1>6, <1>8
  <2>2. CASE n = last
    BY ONLY <1>17, <1>20, <2>2
  <2>3. CASE n # last
    <3>1. tree'[n] = t[n]
      BY <1>14, <2>1, <2>3
    <3>2. n # leaf
      BY <1>2, <2>1, <2>3
    <3> QED BY ONLY <2>3, <3>1, <3>2
  <2> QED BY <2>2, <2>3
<1> HIDE DEF leaf
<1>25. Built(t, r, last, from, ids, new, k, leaf)
  <2>1. /\ from + k = Len(Prompt[r]) /\ leaf = NewLeaf(k, last, new)
        /\ k \in Nat /\ Len(new) = k /\ Len(ids) \in Nat /\ k <= Len(ids)
        /\ \A i, j \in 1 .. k : new[i] = new[j] => i = j
        /\ \A i \in 1 .. k : new[i] \in Nodes \ node_map
    BY ONLY <1>2, <1>3, <1>4, <1>5, <1>6
  <2>2. node_map' = node_map \cup {new[i] : i \in 1 .. k}
    BY ONLY <1>1, <1>7
  <2>3. /\ req_leaf_map' = [req_leaf_map EXCEPT ![r] = leaf]
        /\ unfilled' = [unfilled EXCEPT ![r] = IF leaf = Root THEN Spare(k, ids) ELSE @]
    BY ONLY <1>1, <1>3
  <2> HIDE DEF node, above
  <2>4. \A n \in node_map \cup {Root} :
          /\ tree'[n].parent = t[n].parent /\ tree'[n].key = t[n].key
          /\ tree'[n].depth = t[n].depth /\ tree'[n].status = t[n].status
          /\ tree'[n].block = t[n].block /\ tree'[n].shared = t[n].shared
          /\ n # leaf \/ n = Root => tree'[n].reserved = t[n].reserved
          /\ n = leaf /\ n # Root => tree'[n].reserved = t[n].reserved \cup Spare(k, ids)
          /\ n # last => tree'[n].kids = t[n].kids
          /\ n = last => tree'[n].kids = t[n].kids \cup {new[i] : i \in {j \in 1 .. k : j = 1}}
    BY ONLY <1>3, <1>24
  <2>5. \A i \in 1 .. k :
          /\ tree'[new[i]].parent = IF i = 1 THEN last ELSE new[i - 1]
          /\ tree'[new[i]].key = Prompt[r][from + i] /\ tree'[new[i]].depth = from + i
          /\ tree'[new[i]].block = ids[i] /\ tree'[new[i]].status = "GPU"
          /\ tree'[new[i]].shared = 1
          /\ tree'[new[i]].reserved = IF i = k THEN Spare(k, ids) ELSE {}
          /\ tree'[new[i]].kids = IF i = k THEN {} ELSE {new[i + 1]}
    BY ONLY <1>3, <1>18
  <2> QED BY ONLY <1>21, <1>22, <2>1, <2>2, <2>3, <2>4, <2>5 DEF Built
<1> QED BY <1>25

-----------------------------------------------------------------------------
(* The new nodes hang below the tree, which is otherwise as it was.        *)
BuiltBelow(t, r, last, new, k, leaf) ==
    /\ Rooted(tree', node_map')
    /\ node_map' \subseteq Nodes /\ tree' \in [{Root} \cup Nodes -> NodeRecord]
    /\ leaf \in node_map' \cup {Root} /\ tree'[leaf].depth = Len(Prompt[r])
    /\ PathIn(tree', leaf) = PathIn(t, last) \cup {new[i] : i \in 1 .. k}

(* The tree with the new nodes is linked, and their path is the old one    *)
(* and they.                                                               *)
LEMMA BuiltTree ==
    ASSUME NEW t, NEW r \in Requests, NEW last, NEW from \in Nat, NEW ids, NEW new, NEW k, NEW leaf,
           Rooted(t, node_map), node_map \subseteq Nodes,
           last \in node_map \cup {Root}, t[last].depth = from,
           from = Len(Prompt[r]) \/ \A m \in t[last].kids : t[m].key # Prompt[r][from + 1],
           Built(t, r, last, from, ids, new, k, leaf)
    PROVE  BuiltBelow(t, r, last, new, k, leaf)
<1> DEFINE L == node_map'
           N == {new[i] : i \in 1 .. k}
<1>1. Linked(t, node_map) /\ Root \notin node_map /\ \A n \in node_map \cup {Root} : t[n].depth \in Nat
  BY DEF Rooted
<1>2. /\ k \in Nat /\ from + k = Len(Prompt[r]) /\ leaf = IF k = 0 THEN last ELSE new[k]
      /\ \A i, j \in 1 .. k : new[i] = new[j] => i = j
      /\ \A i \in 1 .. k : new[i] \in Nodes \ node_map
      /\ L = node_map \cup N
  BY DEF Built, NewLeaf
<1>3. Root \notin Nodes
  BY DEF Root, Nodes
<1>4. \A n \in node_map \cup {Root} :
          /\ tree'[n].parent = t[n].parent /\ tree'[n].key = t[n].key
          /\ tree'[n].depth = t[n].depth
          /\ n # last => tree'[n].kids = t[n].kids
          /\ n = last => tree'[n].kids = t[n].kids \cup {new[i] : i \in {j \in 1 .. k : j = 1}}
  BY DEF Built
<1>5. \A i \in 1 .. k :
          /\ tree'[new[i]].parent = IF i = 1 THEN last ELSE new[i - 1]
          /\ tree'[new[i]].key = Prompt[r][from + i] /\ tree'[new[i]].depth = from + i
          /\ tree'[new[i]].kids = IF i = k THEN {} ELSE {new[i + 1]}
  BY DEF Built
<1>6. \A i \in 1 .. k : /\ new[i] \in N /\ new[i] \notin node_map \cup {Root}
                        /\ i # 1 => i - 1 \in 1 .. k /\ i - 1 # k
                        /\ i # k => i + 1 \in 1 .. k
  BY <1>2, <1>3
<1>5a. \A i \in 1 .. k : tree'[new[i]].parent = IF i = 1 THEN last ELSE new[i - 1]
  BY ONLY <1>5
<1>5b. \A i \in 1 .. k : tree'[new[i]].key = Prompt[r][from + i]
  BY ONLY <1>5
<1>5c. \A i \in 1 .. k : tree'[new[i]].depth = from + i
  BY ONLY <1>5
<1>5d. \A i \in 1 .. k : tree'[new[i]].kids = IF i = k THEN {} ELSE {new[i + 1]}
  BY ONLY <1>5
<1>6a. \A i \in 1 .. k : new[i] \in N /\ new[i] \notin node_map \cup {Root}
  BY ONLY <1>6
<1> HIDE DEF L, N
<1>7. Linked(tree', L)
  <2>1. tree'[Root].depth = 0
    BY <1>1, <1>4 DEF Linked
  <2>2. ASSUME NEW n \in L
        PROVE  /\ tree'[n].parent \in L \cup {Root}
               /\ n \in tree'[tree'[n].parent].kids
               /\ tree'[n].depth = tree'[tree'[n].parent].depth + 1
    <3>1. CASE n \in node_map
      <4>1. /\ t[n].parent \in node_map \cup {Root} /\ n \in t[t[n].parent].kids
            /\ t[n].depth = t[t[n].parent].depth + 1
        BY <1>1, <3>1 DEF Linked
      <4>2. n \in tree'[t[n].parent].kids
        BY <1>4, <4>1
      <4> QED BY <1>2, <1>4, <3>1, <4>1, <4>2
    <3>2. CASE n \notin node_map
      <4>1. PICK i \in 1 .. k : n = new[i]
        BY <1>2, <3>2 DEF N
      <4>2. CASE i = 1
        <5>1. tree'[n].parent = last /\ tree'[n].depth = from + 1 /\ tree'[last].depth = from
          BY <1>4, <1>5a, <1>5c, <4>1, <4>2
        <5>2. n \in tree'[last].kids
          BY <1>4, <4>1, <4>2
        <5> QED BY <1>2, <5>1, <5>2
      <4>3. CASE i # 1
        <5>1. i - 1 \in 1 .. k /\ i - 1 # k /\ (i - 1) + 1 = i /\ from + i = from + (i - 1) + 1
          BY ONLY <1>2, <4>1, <4>3, from \in Nat, i \in 1 .. k
        <5>2. tree'[n].parent = new[i - 1] /\ tree'[n].depth = from + i
          BY <1>5a, <1>5c, <4>1, <4>3
        <5>3. tree'[new[i - 1]].depth = from + (i - 1)
          BY <1>5c, <5>1
        <5>4. tree'[new[i - 1]].kids = {n}
          BY <1>5d, <4>1, <5>1
        <5>5. new[i - 1] \in L
          BY <1>2, <1>6a, <5>1
        <5> QED BY ONLY <5>1, <5>2, <5>3, <5>4, <5>5
      <4> QED BY <4>2, <4>3
    <3> QED BY <3>1, <3>2
  <2>3. ASSUME NEW n \in L \cup {Root}, NEW m \in tree'[n].kids
        PROVE  m \in L /\ tree'[m].parent = n
    <3>1. CASE n \in node_map \cup {Root} /\ m \in t[n].kids
      <4>1. m \in node_map /\ t[m].parent = n
        BY <1>1, <3>1 DEF Linked
      <4> QED BY <1>2, <1>4, <4>1
    <3>2. CASE n \in node_map \cup {Root} /\ m \notin t[n].kids
      <4>1. n = last /\ \E i \in 1 .. k : i = 1 /\ m = new[i]
        BY <1>4, <2>3, <3>2
      <4>2. PICK i \in 1 .. k : i = 1 /\ m = new[i]
        BY <4>1
      <4>3. tree'[m].parent = last
        BY <1>5a, <4>2
      <4> QED BY <1>2, <1>6a, <4>1, <4>2, <4>3
    <3>3. CASE n \notin node_map \cup {Root}
      <4>1. PICK i \in 1 .. k : n = new[i]
        BY <1>2, <3>3 DEF N
      <4>2. i # k /\ m = new[i + 1]
        <5>1. tree'[new[i]].kids = IF i = k THEN {} ELSE {new[i + 1]}
          BY <1>5d
        <5> QED BY ONLY <2>3, <4>1, <5>1
      <4>3. i + 1 \in 1 .. k /\ i + 1 # 1 /\ (i + 1) - 1 = i
        BY ONLY <1>2, <4>2, i \in 1 .. k
      <4>4. tree'[new[i + 1]].parent = new[(i + 1) - 1]
        BY <1>5a, <4>3
      <4>5. new[i + 1] \in L
        BY <1>2, <1>6a, <4>3
      <4> QED BY ONLY <4>1, <4>2, <4>3, <4>4, <4>5
    <3> QED BY <3>1, <3>2, <3>3
  <2>4. ASSUME NEW n \in L \cup {Root}, NEW m1 \in tree'[n].kids, NEW m2 \in tree'[n].kids,
               tree'[m1].key = tree'[m2].key
        PROVE  m1 = m2
    <3>1. CASE n \in node_map \cup {Root}
      <4>1. \A m \in tree'[n].kids : \/ m \in t[n].kids /\ m \in node_map /\ tree'[m].key = t[m].key
                                     \/ n = last /\ 1 \in 1 .. k /\ m = new[1] /\ tree'[m].key = Prompt[r][from + 1]
        <5> SUFFICES ASSUME NEW m \in tree'[n].kids, m \notin t[n].kids
                     PROVE  n = last /\ 1 \in 1 .. k /\ m = new[1] /\ tree'[m].key = Prompt[r][from + 1]
          BY <1>1, <1>4, <3>1 DEF Linked
        <5>1. n = last /\ \E i \in 1 .. k : i = 1 /\ m = new[i]
          BY <1>4, <3>1
        <5>2. 1 \in 1 .. k /\ m = new[1]
          BY ONLY <5>1
        <5> QED BY <1>5b, <5>1, <5>2
      <4>2. 1 \in 1 .. k => \A m \in t[last].kids : t[m].key # Prompt[r][from + 1]
        BY <1>2
      <4>3. \A m, l \in t[n].kids : t[m].key = t[l].key => m = l
        BY <1>1, <3>1 DEF Linked
      <4> QED BY <2>4, <4>1, <4>2, <4>3
    <3>2. CASE n \notin node_map \cup {Root}
      <4>1. PICK i \in 1 .. k : n = new[i]
        BY <1>2, <3>2 DEF N
      <4>2. tree'[new[i]].kids = IF i = k THEN {} ELSE {new[i + 1]}
        BY <1>5d
      <4> QED BY ONLY <2>4, <4>1, <4>2
    <3> QED BY <3>1, <3>2
  <2> QED BY <2>1, <2>2, <2>3, <2>4 DEF Linked
<1>8. Root \notin L
  BY <1>1, <1>2, <1>3 DEF N
<1>9. \A n \in L \cup {Root} : tree'[n].depth \in Nat
  <2>1. \A i \in 1 .. k : from + i \in Nat
    BY <1>2
  <2> QED BY <1>1, <1>2, <1>4, <1>5c, <2>1 DEF N
<1>10. Rooted(tree', L)
  BY <1>7, <1>8, <1>9 DEF Rooted
<1>11. L \subseteq Nodes
  BY <1>2 DEF N
<1>12. tree' \in [{Root} \cup Nodes -> NodeRecord]
  <2>1. MaxNodes \in Nat /\ L \subseteq 1 .. MaxNodes
    BY <1>11, CacheAssumption DEF Nodes
  <2>2. \A n \in L \cup {Root} : tree'[n].depth \in 0 .. MaxNodes
    BY ONLY <1>10, <2>1, DepthBound
  <2>3. /\ tree' = [n \in {Root} \cup Nodes |-> tree'[n]]
        /\ \A n \in {Root} \cup Nodes :
              \/ tree'[n] \in NodeRecord
              \/ n \in L /\ (tree'[n].depth \in 0 .. MaxNodes => tree'[n] \in NodeRecord)
    BY DEF Built, L
  <2>4. \A n \in {Root} \cup Nodes : tree'[n] \in NodeRecord
    BY ONLY <2>2, <2>3
  <2> QED BY ONLY <2>3, <2>4
<1>13. \A n \in node_map \cup {Root} : PathIn(tree', n) = PathIn(t, n)
  <2> SUFFICES ASSUME NEW n \in node_map \cup {Root} PROVE PathIn(tree', n) = PathIn(t, n)
    OBVIOUS
  <2>1. PathIn(t, n) \subseteq node_map
    BY PathShapes DEF PathShape
  <2>2. \A m \in PathIn(t, n) : m \in L /\ tree'[m].parent = t[m].parent
    BY <1>2, <1>4, <2>1
  <2> QED BY ONLY <1>10, <2>2, PathKept, Rooted(t, node_map), n \in node_map \cup {Root}
<1>14. leaf \in L \cup {Root} /\ tree'[leaf].depth = Len(Prompt[r])
  <2>1. CASE k = 0
    BY <1>2, <1>4, <2>1
  <2>2. CASE k # 0
    <3>1. k \in 1 .. k
      BY <1>2, <2>2
    <3> QED BY <1>2, <1>5, <1>6, <2>2, <3>1
  <2> QED BY <2>1, <2>2
<1>15. PathIn(tree', leaf) = PathIn(t, last) \cup N
  <2> DEFINE M(i) == {new[j] : j \in 1 .. i}
             D == {i \in Nat : i \in 1 .. k => PathIn(tree', new[i]) = PathIn(t, last) \cup M(i)}
  <2>1. 0 \in D
    OBVIOUS
  <2>2. ASSUME NEW i \in Nat, i \in D PROVE i + 1 \in D
    <3> SUFFICES ASSUME i + 1 \in 1 .. k PROVE PathIn(tree', new[i + 1]) = PathIn(t, last) \cup M(i + 1)
      OBVIOUS
    <3>1. new[i + 1] \in L
      BY <1>2, <1>6
    <3>2. PathIn(tree', new[i + 1]) = {new[i + 1]} \cup PathIn(tree', tree'[new[i + 1]].parent)
      BY ONLY <1>10, <3>1, PathStep
    <3>3. M(i + 1) = M(i) \cup {new[i + 1]}
      OBVIOUS
    <3>4. CASE i = 0
      <4>1. tree'[new[i + 1]].parent = last
        BY <1>5a, <3>4
      <4>2. M(i) = {}
        BY <3>4
      <4> QED BY <1>13, <3>2, <3>3, <4>1, <4>2
    <3>5. CASE i # 0
      <4>1. i \in 1 .. k /\ (i + 1) - 1 = i /\ i + 1 # 1
        BY <1>2, <3>5
      <4>2. tree'[new[i + 1]].parent = new[i]
        BY <1>5a, <4>1
      <4>3. PathIn(tree', new[i]) = PathIn(t, last) \cup M(i)
        BY <2>2, <4>1
      <4> QED BY ONLY <3>2, <3>3, <4>2, <4>3
    <3> QED BY <3>4, <3>5
  <2>3. \A i \in Nat : i \in D
    <3> HIDE DEF D
    <3> QED BY ONLY <2>1, <2>2, SetInduction
  <2>4. CASE k = 0
    BY <1>2, <1>13, <2>4 DEF N
  <2>5. CASE k # 0
    <3>1. k \in 1 .. k
      BY <1>2, <2>5
    <3>2. PathIn(tree', new[k]) = PathIn(t, last) \cup M(k)
      BY <1>2, <2>3, <3>1
    <3> QED BY <1>2, <2>5, <3>2 DEF N
  <2> QED BY <2>4, <2>5
<1> QED BY <1>10, <1>11, <1>12, <1>13, <1>14, <1>15 DEF L, N, BuiltBelow

-----------------------------------------------------------------------------
(* A request comes to use the path P, matched in the tree, and the nodes N *)
(* that are built below it.                                                *)
AttachedTree(r, P, N) ==
    /\ P \subseteq node_map /\ N \subseteq Nodes \ node_map
    /\ \A n \in P : tree[n].parent \in P \cup {Root} /\ tree[n].status # "SWAP2GPU"
    /\ node_map' = node_map \cup N /\ Rooted(tree', node_map')
    /\ \A n \in node_map \cup {Root} :
          /\ tree'[n].parent = tree[n].parent /\ tree'[n].key = tree[n].key
          /\ tree'[n].depth = tree[n].depth /\ tree'[n].block = tree[n].block
          /\ tree'[n].status = IF n \notin P THEN tree[n].status
                               ELSE IF tree[n].status = "CPU" THEN "SWAP2GPU" ELSE "GPU"
          /\ tree'[n].shared = IF n \in P /\ ~Uses(r, n) THEN tree[n].shared + 1 ELSE tree[n].shared
          /\ tree'[n].status # "GPU" => tree'[n].reserved = tree[n].reserved
          /\ n \notin P \cup {Root} => tree'[n].kids = tree[n].kids
    /\ \A n \in N : /\ tree'[n].status = "GPU" /\ tree'[n].shared = 1
                    /\ tree'[tree'[n].parent].status = "GPU"
    /\ \A n : (Uses(r, n) => n \in P) /\ (Uses(r, n)' <=> n \in P \cup N)

AttachedRest(r, P) ==
    /\ gpu_lru' = gpu_lru \ P /\ cpu_lru' = cpu_lru \ P
    /\ holder \notin {"free_gpu", "free_cpu"} /\ holder' # "free_gpu"
    /\ InItems = {} /\ OutItems' = OutItems
    /\ \A q \in Requests : q # r =>
          /\ state[q] # "swapping" /\ state'[q] = state[q] /\ table'[q] = table[q]
          /\ unfilled'[q] = unfilled[q] /\ req_leaf_map'[q] = req_leaf_map[q]
          /\ cache_info'[q] = cache_info[q]
    /\ UNCHANGED <<victims, cpu_free>>

(* The tree, its counts and its candidates stay right, and so do the       *)
(* others.                                                                 *)
LEMMA AttachedTreeKeeps ==
    ASSUME IInv, NEW r \in Requests, NEW P, NEW N, AttachedTree(r, P, N), AttachedRest(r, P)
    PROVE  /\ TreeInv' /\ CountInv' /\ UsedInv' /\ LruInv'
           /\ \A q \in Requests : q # r => NewInv(q)' /\ SwappingInv(q)' /\ AdmittedInv(q)' /\ RunningInv(q)'
<1>1. Rooted(tree, node_map) /\ Linked(tree, node_map) /\ Root \notin node_map
  BY InvRooted DEF Rooted
<1>2. /\ P \subseteq node_map /\ N \cap node_map = {} /\ node_map' = node_map \cup N /\ Root \notin P
      /\ Rooted(tree', node_map') /\ \A n \in P : tree[n].status # "SWAP2GPU"
  BY <1>1 DEF AttachedTree
<1>3. \A n \in node_map \cup {Root} :
          /\ tree'[n].parent = tree[n].parent /\ tree'[n].key = tree[n].key
          /\ tree'[n].depth = tree[n].depth /\ tree'[n].block = tree[n].block
          /\ tree'[n].status = IF n \notin P THEN tree[n].status
                               ELSE IF tree[n].status = "CPU" THEN "SWAP2GPU" ELSE "GPU"
          /\ tree'[n].shared = IF n \in P /\ ~Uses(r, n) THEN tree[n].shared + 1 ELSE tree[n].shared
          /\ tree'[n].status # "GPU" => tree'[n].reserved = tree[n].reserved
          /\ n \notin P \cup {Root} => tree'[n].kids = tree[n].kids
  BY DEF AttachedTree
<1>4. \A n \in N : tree'[n].status = "GPU" /\ tree'[n].shared = 1
  BY DEF AttachedTree
<1>5. \A n : (Uses(r, n) => n \in P) /\ (Uses(r, n)' <=> n \in P \cup N)
  BY DEF AttachedTree
<1>6. ASSUME NEW q \in Requests, q # r
      PROVE  /\ NewInv(q)' /\ SwappingInv(q)' /\ AdmittedInv(q)' /\ RunningInv(q)'
             /\ \A n : Uses(q, n)' <=> Uses(q, n)
  <2>1. /\ state[q] # "swapping" /\ state'[q] = state[q] /\ table'[q] = table[q]
        /\ unfilled'[q] = unfilled[q] /\ req_leaf_map'[q] = req_leaf_map[q]
        /\ cache_info'[q] = cache_info[q]
    BY <1>6 DEF AttachedRest
  <2>2. ASSUME NEW n \in node_map, Uses(q, n)
        PROVE  /\ n \in node_map' /\ tree'[n].parent = tree[n].parent
               /\ tree'[n].depth = tree[n].depth /\ tree'[n].key = tree[n].key
               /\ tree'[n].block = tree[n].block /\ tree'[n].status = tree[n].status
    <3>1. req_leaf_map[q] # NoNode /\ n \in PathIn(tree, req_leaf_map[q])
      BY <2>1, <2>2, UsesPaths
    <3>2. state[q] \in {"running", "ended"} /\ AdmittedInv(q)
      BY <3>1, LeafPlaces DEF IInv, ReqInv
    <3>3. tree[n].status = "GPU"
      BY <3>1, <3>2 DEF AdmittedInv
    <3> QED BY <1>2, <1>3, <3>3
  <2> QED BY ONLY IInv, q \in Requests, <1>2, <2>1, <2>2, ReqFrame
<1>7. TreeInv'
  BY <1>2, <1>3 DEF IInv, TreeInv, Rooted
<1>8. CountInv'
  <2>1. ASSUME NEW n \in node_map
        PROVE  IsFiniteSet(Users(n)') /\ tree'[n].shared = Cardinality(Users(n)')
    <3>1. IsFiniteSet(Users(n)) /\ tree[n].shared = Cardinality(Users(n))
      BY DEF IInv, CountInv
    <3>2. Users(n)' = IF n \in P THEN Users(n) \cup {r} ELSE Users(n)
      BY <1>2, <1>5, <1>6 DEF Users
    <3>3. r \in Users(n) <=> Uses(r, n)
      BY DEF Users
    <3>4. /\ IsFiniteSet(Users(n) \cup {r})
          /\ Cardinality(Users(n) \cup {r}) =
                IF r \in Users(n) THEN Cardinality(Users(n)) ELSE Cardinality(Users(n)) + 1
      BY ONLY <3>1, FS_AddElement
    <3>5. tree'[n].shared = IF n \in P /\ ~Uses(r, n) THEN tree[n].shared + 1 ELSE tree[n].shared
      BY <1>3
    <3> HIDE DEF Users
    <3> QED BY ONLY <3>1, <3>2, <3>3, <3>4, <3>5
  <2>2. ASSUME NEW n \in N
        PROVE  IsFiniteSet(Users(n)') /\ tree'[n].shared = Cardinality(Users(n)')
    <3>1. \A q \in Requests : Uses(q, n)' <=> q = r
      <4>1. n \notin node_map
        BY <1>2
      <4> QED BY <1>5, <1>6, <4>1, LeafPlaces
    <3>2. Users(n)' = {r}
      BY <3>1 DEF Users
    <3> QED BY <1>4, <3>2, FS_Singleton
  <2> QED BY <1>2, <2>1, <2>2 DEF CountInv
<1>9. UsedInv'
  <2> SUFFICES ASSUME NEW n \in node_map'
               PROVE  /\ tree'[n].shared # 0 => tree'[n].status \in {"GPU", "SWAP2GPU"}
                      /\ tree'[n].status # "GPU" => tree'[n].reserved = {}
    BY DEF UsedInv
  <2>1. CASE n \in N
    BY <1>4, <2>1
  <2>2. CASE n \in node_map
    <3>1. /\ tree[n].shared # 0 => tree[n].status \in {"GPU", "SWAP2GPU"}
          /\ tree[n].status # "GPU" => tree[n].reserved = {}
      BY <2>2 DEF IInv, UsedInv
    <3>2. CASE n \in P
      BY <1>3, <2>2, <3>1, <3>2
    <3>3. CASE n \notin P
      BY <1>3, <2>2, <3>1, <3>3
    <3> QED BY <3>2, <3>3
  <2> QED BY <1>2, <2>1, <2>2
<1>10. \A n \in P \cup N : tree'[n].shared # 0
  <2> SUFFICES ASSUME NEW n \in P \cup N PROVE tree'[n].shared # 0
    OBVIOUS
  <2>1. n \in node_map' /\ r \in Users(n)'
    BY <1>2, <1>5 DEF Users
  <2>2. IsFiniteSet(Users(n)') /\ tree'[n].shared = Cardinality(Users(n)')
    BY <1>8, <2>1 DEF CountInv
  <2>3. Users(n)' # {}
    BY <2>1
  <2> QED BY ONLY <2>2, <2>3, FS_EmptySet
<1>11. LruInv'
  <2>1. gpu_lru' = gpu_lru \ P /\ cpu_lru' = cpu_lru \ P
    BY DEF AttachedRest
  <2>2. /\ \A n \in gpu_lru : n \in node_map /\ tree[n].status = "GPU" /\ tree[n].shared = 0
        /\ \A n \in cpu_lru : n \in node_map /\ tree[n].status = "CPU" /\ tree[n].shared = 0
        /\ \A n \in node_map : tree[n].shared = 0 =>
              (IsGpuLeaf(tree, n) => n \in gpu_lru) /\ (IsCpuLeaf(tree, n) => n \in cpu_lru)
    BY DEF IInv, LruInv
  <2>3. /\ \A n \in gpu_lru' : n \in node_map' /\ tree'[n].status = "GPU" /\ tree'[n].shared = 0
        /\ \A n \in cpu_lru' : n \in node_map' /\ tree'[n].status = "CPU" /\ tree'[n].shared = 0
    BY <1>2, <1>3, <2>1, <2>2
  <2>4. ASSUME NEW n \in node_map', tree'[n].shared = 0
        PROVE  /\ IsGpuLeaf(tree', n) => n \in gpu_lru'
               /\ IsCpuLeaf(tree', n) => n \in cpu_lru'
    <3>1. n \in node_map /\ n \notin P /\ n # Root
      BY <1>1, <1>2, <1>10, <2>4
    <3>2. tree'[n].status = tree[n].status /\ tree'[n].kids = tree[n].kids /\ tree[n].shared = 0
      BY <1>3, <2>4, <3>1
    <3>3. ASSUME NEW m \in tree[n].kids PROVE tree'[m].status = tree[m].status
      <4>1. m \in node_map /\ tree[m].parent = n
        BY <1>1, <3>1 DEF Linked
      <4>2. m \notin P
        BY <3>1, <4>1 DEF AttachedTree
      <4> QED BY <1>3, <4>1, <4>2
    <3>4. (IsGpuLeaf(tree', n) <=> IsGpuLeaf(tree, n)) /\ (IsCpuLeaf(tree', n) <=> IsCpuLeaf(tree, n))
      BY <3>2, <3>3 DEF IsGpuLeaf, IsCpuLeaf
    <3> QED BY <2>1, <2>2, <3>1, <3>2, <3>4
  <2> QED BY <2>3, <2>4 DEF LruInv
<1> QED BY <1>6, <1>7, <1>8, <1>9, <1>11

(* The places of nodes stay right: matched CPU nodes are being swapped in. *)
LEMMA AttachedStates ==
    ASSUME IInv, NEW r \in Requests, NEW P, NEW N, AttachedTree(r, P, N), AttachedRest(r, P),
           \A n \in P : tree[n].status = "CPU" => n \in InNodes'
    PROVE  /\ VictimsInv' /\ StatusInv'
           /\ \A it \in OutItems' : /\ it.node \in node_map'
                                    /\ tree'[it.node].status \in {"SWAP2CPU", "GPU"}
                                    /\ tree'[it.node].block = it.gpu
           /\ OwnedOnce(CpuLayout', CpuOwners, CpuBlocks)
<1>1. Rooted(tree, node_map) /\ Linked(tree, node_map) /\ Root \notin node_map /\ node_map \subseteq Nodes
  BY InvRooted DEF Rooted, IInv, TypeOK
<1>2. /\ P \subseteq node_map /\ N \cap node_map = {} /\ node_map' = node_map \cup N /\ Root \notin P
      /\ N \subseteq Nodes /\ Rooted(tree', node_map') /\ \A n \in P : tree[n].status # "SWAP2GPU"
      /\ \A n \in P : tree[n].parent \in P \cup {Root}
  BY <1>1 DEF AttachedTree
<1>3. \A n \in node_map \cup {Root} :
          /\ tree'[n].parent = tree[n].parent /\ tree'[n].block = tree[n].block
          /\ tree'[n].status = IF n \notin P THEN tree[n].status
                               ELSE IF tree[n].status = "CPU" THEN "SWAP2GPU" ELSE "GPU"
  BY DEF AttachedTree
<1>4. \A n \in N : tree'[n].status = "GPU" /\ tree'[tree'[n].parent].status = "GPU"
  BY DEF AttachedTree
<1>5. /\ OutItems' = OutItems /\ OutNodes' = OutNodes /\ victims' = victims /\ VictimNodes' = VictimNodes
      /\ holder' # "free_gpu" /\ InNodes = {} /\ cpu_free' = cpu_free
  BY DEF AttachedRest, OutNodes, VictimNodes, InNodes
<1>6. \A n \in node_map : tree[n].status \in {"SWAP2CPU", "GPU"} =>
          n \in node_map' /\ tree'[n].status \in {"SWAP2CPU", "GPU"} /\ tree'[n].block = tree[n].block
  BY <1>2, <1>3
<1>7. VictimsInv'
  <2>1. VictimsInv
    BY DEF IInv
  <2> QED BY ONLY <1>5, <1>6, <2>1 DEF VictimsInv
<1>8. \A it \in OutItems' : /\ it.node \in node_map'
                            /\ tree'[it.node].status \in {"SWAP2CPU", "GPU"}
                            /\ tree'[it.node].block = it.gpu
  <2>1. ItemsInv
    BY DEF IInv
  <2> QED BY ONLY <1>5, <1>6, <2>1 DEF ItemsInv
<1>9. StatusInv'
  <2>1. ASSUME NEW n \in node_map', tree'[n].status = "SWAP2CPU" PROVE n \in VictimNodes' \cup OutNodes'
    <3>1. n \in node_map /\ tree[n].status = "SWAP2CPU"
      BY <1>2, <1>3, <1>4, <2>1
    <3> QED BY <1>5, <3>1 DEF IInv, StatusInv
  <2>2. ASSUME NEW n \in node_map', tree'[n].status = "SWAP2GPU" PROVE n \in InNodes'
    <3>1. n \in node_map
      BY <1>2, <1>4, <2>2
    <3>2. CASE n \in P
      BY <1>3, <2>2, <3>1, <3>2
    <3>3. CASE n \notin P
      BY <1>3, <1>5, <2>2, <3>1, <3>3 DEF IInv, StatusInv
    <3> QED BY <3>2, <3>3
  <2>3. ASSUME NEW n \in node_map'
        PROVE  /\ tree'[tree'[n].parent].status \in {"CPU", "SWAP2CPU"} => tree'[n].status \in {"CPU", "SWAP2CPU"}
               /\ tree'[tree'[n].parent].status = "CPU" /\ tree'[n].status = "SWAP2CPU" => n \in OutNodes'
    <3> SUFFICES ASSUME tree'[tree'[n].parent].status \in {"CPU", "SWAP2CPU"}
                 PROVE  /\ tree'[n].status \in {"CPU", "SWAP2CPU"}
                        /\ tree'[tree'[n].parent].status = "CPU" /\ tree'[n].status = "SWAP2CPU" => n \in OutNodes'
      OBVIOUS
    <3>1. n \in node_map
      BY <1>2, <1>4
    <3> DEFINE p == tree[n].parent
    <3>2. p \in node_map \cup {Root} /\ tree'[n].parent = p
      BY <1>1, <1>3, <3>1 DEF Linked
    <3>3. p \notin P
      BY <1>3, <3>2
    <3>4. n \notin P
      <4>1. p # Root
        <5>1. tree'[Root].status = "GPU"
          BY <1>2, <1>3 DEF IInv, TreeInv
        <5> QED BY <3>2, <5>1
      <4> QED BY <1>2, <3>3, <4>1
    <3>5. tree'[n].status = tree[n].status /\ tree'[p].status = tree[p].status
      BY <1>3, <3>1, <3>2, <3>3, <3>4
    <3>6. /\ tree[p].status \in {"CPU", "SWAP2CPU"} => tree[n].status \in {"CPU", "SWAP2CPU"}
          /\ tree[p].status = "CPU" /\ tree[n].status = "SWAP2CPU" => n \in OutNodes
      BY <3>1 DEF IInv, StatusInv
    <3> HIDE DEF p
    <3> QED BY <1>5, <3>2, <3>5, <3>6
  <2> QED BY ONLY <2>1, <2>2, <2>3 DEF StatusInv
<1>10. OwnedOnce(CpuLayout', CpuOwners, CpuBlocks)
  <2>1. node_map' \ Resident' = node_map \ Resident
    <3>1. \A n \in node_map : tree'[n].status \in {"GPU", "SWAP2CPU"} <=> tree[n].status \in {"GPU", "SWAP2CPU"}
      <4>1. \A n \in node_map : tree[n].status \in {"GPU", "SWAP2CPU", "SWAP2GPU", "CPU"}
        BY <1>1 DEF IInv, TypeOK, NodeRecord
      <4> QED BY <1>2, <1>3, <4>1
    <3> QED BY <1>2, <1>4, <3>1 DEF Resident
  <2>2. ASSUME NEW n \in Nodes PROVE CpuLayout'[<<"node", n>>] = CpuLayout[<<"node", n>>]
    <3>1. n \in node_map => tree'[n].block = tree[n].block
      BY <1>3
    <3>2. CpuLayout'[<<"node", n>>] = IF n \in node_map' \ Resident' THEN {tree'[n].block} ELSE {}
      BY CpuLayoutNext
    <3>3. CpuLayout[<<"node", n>>] = IF n \in node_map \ Resident THEN {tree[n].block} ELSE {}
      BY CpuLayoutIs
    <3> QED BY ONLY <2>1, <3>1, <3>2, <3>3
  <2>3. \A o \in CpuOwners : CpuLayout'[o] = CpuLayout[o]
    BY <1>5, <2>2, CpuLayoutIs, CpuLayoutNext, CpuOwnerIs
  <2> QED BY <2>3, SameOwners DEF IInv, OwnInv
<1> QED BY <1>7, <1>8, <1>9, <1>10

-----------------------------------------------------------------------------
(* A request whose path ends in "last" is about to get the blocks "ids",   *)
(* in the tree t where its path is on the GPU.                             *)
Joins(r, t, last, from, ids) ==
    /\ state[r] \in {"new", "swapping"}
    /\ from \in Nat /\ ids \in Seq(GpuBlocks) /\ Len(ids) = BlockNum(r) - from
    /\ \A i, j \in 1 .. Len(ids) : ids[i] = ids[j] => i = j
    /\ OnPrompt(r, last) /\ tree[last].depth = from
    /\ from = Len(Prompt[r]) \/ \A m \in tree[last].kids : tree[m].key # Prompt[r][from + 1]
    /\ t \in [{Root} \cup Nodes -> NodeRecord]
    /\ \A n \in PathIn(tree, last) : tree[n].status \in {"GPU", "SWAP2CPU"}
    /\ \A n : Uses(r, n) => n \in PathIn(tree, last)
    /\ \A n \in node_map \cup {Root} :
          /\ t[n].parent = tree[n].parent /\ t[n].key = tree[n].key
          /\ t[n].depth = tree[n].depth /\ t[n].block = tree[n].block
          /\ t[n].kids = tree[n].kids /\ t[n].reserved = tree[n].reserved
          /\ t[n].status = IF n \in PathIn(tree, last) THEN "GPU" ELSE tree[n].status
          /\ t[n].shared = IF n \in PathIn(tree, last) /\ ~Uses(r, n) THEN tree[n].shared + 1 ELSE tree[n].shared

\* the path is built and the request runs
Admits(r, last, from, ids) ==
    /\ state' = [state EXCEPT ![r] = "running"]
    /\ cache_info' \in [Requests -> {Root, NoNode} \cup Nodes] /\ cache_info'[r] = NoNode
    /\ table' \in [Requests -> Seq(GpuBlocks)]
    /\ {table'[r][i] : i \in 1 .. from} = {tree[n].block : n \in PathIn(tree, last)}
    /\ \A i \in 1 .. Len(Prompt[r]) - from : table'[r][from + i] = ids[i]
    /\ gpu_free' \subseteq GpuBlocks
    /\ InItems' = {} /\ SwapTypes' /\ OneTask' /\ Waits'
    /\ \A t \in InFlight' : Distinct(t.items)
    /\ WithoutCpu => InFlight' = {}
    /\ holder' = Nobody /\ UNCHANGED <<releases, evictVars>>

(* Where the request joins the tree.                                       *)
LEMMA JoinsTree ==
    ASSUME IInv, NEW r \in Requests, NEW t, NEW last, NEW from, NEW ids, Joins(r, t, last, from, ids)
    PROVE  /\ Rooted(t, node_map) /\ Rooted(tree, node_map) /\ node_map \subseteq Nodes
           /\ last \in node_map \cup {Root} /\ t[last].depth = from /\ from <= Len(Prompt[r])
           /\ from = Len(Prompt[r]) \/ \A m \in t[last].kids : t[m].key # Prompt[r][from + 1]
           /\ PathIn(t, last) = PathIn(tree, last) /\ PathIn(tree, last) \subseteq node_map
           /\ \A n \in PathIn(tree, last) : tree[n].parent \in PathIn(tree, last) \cup {Root}
           /\ last \in PathIn(tree, last) \cup {Root}
<1>1. Rooted(tree, node_map) /\ node_map \subseteq Nodes
  BY InvRooted DEF IInv, TypeOK
<1>2. last \in node_map \cup {Root} /\ tree[last].depth = from /\ from <= Len(Prompt[r])
  BY DEF Joins, OnPrompt
<1>3. \A n \in node_map \cup {Root} :
          /\ t[n].parent = tree[n].parent /\ t[n].key = tree[n].key
          /\ t[n].depth = tree[n].depth /\ t[n].kids = tree[n].kids
  BY DEF Joins
<1>4. Rooted(t, node_map)
  BY ONLY <1>1, <1>3, LinkedSame
<1>5. /\ PathIn(tree, last) \subseteq node_map
      /\ \A n \in PathIn(tree, last) : tree[n].parent \in PathIn(tree, last) \cup {Root}
      /\ last \in PathIn(tree, last) \cup {Root}
  BY <1>1, <1>2, PathShapes DEF PathShape
<1>6. PathIn(t, last) = PathIn(tree, last)
  BY ONLY <1>1, <1>2, <1>3, <1>4, <1>5, PathKept
<1>7. from = Len(Prompt[r]) \/ \A m \in t[last].kids : t[m].key # Prompt[r][from + 1]
  <2>1. \A m \in tree[last].kids : m \in node_map
    BY <1>1, <1>2 DEF Rooted, Linked
  <2> QED BY <1>2, <1>3, <2>1 DEF Joins
<1> QED BY <1>1, <1>2, <1>3, <1>4, <1>5, <1>6, <1>7

AdmitsTree(r, last, new, k, leaf) ==
    /\ AttachedTree(r, PathIn(tree, last), {new[i] : i \in 1 .. k})
    /\ tree' \in [{Root} \cup Nodes -> NodeRecord] /\ node_map' \subseteq Nodes
    /\ leaf \in node_map' \cup {Root} /\ tree'[leaf].depth = Len(Prompt[r])
    /\ PathIn(tree', leaf) = PathIn(tree, last) \cup {new[i] : i \in 1 .. k}
    /\ req_leaf_map'[r] = leaf /\ leaf # NoNode

(* The request comes to use its path and the new nodes.                    *)
LEMMA AdmitAttaches ==
    ASSUME IInv, NEW r \in Requests, NEW t, NEW last, NEW from, NEW ids, NEW new, NEW k, NEW leaf,
           Joins(r, t, last, from, ids), Built(t, r, last, from, ids, new, k, leaf),
           Admits(r, last, from, ids)
    PROVE  AdmitsTree(r, last, new, k, leaf)
<1> DEFINE P == PathIn(tree, last)
           N == {new[i] : i \in 1 .. k}
<1>1. /\ Rooted(t, node_map) /\ Rooted(tree, node_map) /\ node_map \subseteq Nodes
      /\ last \in node_map \cup {Root} /\ t[last].depth = from
      /\ from = Len(Prompt[r]) \/ \A m \in t[last].kids : t[m].key # Prompt[r][from + 1]
      /\ PathIn(t, last) = P /\ P \subseteq node_map
      /\ \A n \in P : tree[n].parent \in P \cup {Root}
      /\ last \in P \cup {Root}
  BY JoinsTree
<1>2. from \in Nat
  BY DEF Joins
<1>3. /\ Rooted(tree', node_map')
      /\ node_map' \subseteq Nodes /\ tree' \in [{Root} \cup Nodes -> NodeRecord]
      /\ leaf \in node_map' \cup {Root} /\ tree'[leaf].depth = Len(Prompt[r])
      /\ PathIn(tree', leaf) = P \cup N
  <2>1. /\ Rooted(tree', node_map')
        /\ node_map' \subseteq Nodes /\ tree' \in [{Root} \cup Nodes -> NodeRecord]
        /\ leaf \in node_map' \cup {Root} /\ tree'[leaf].depth = Len(Prompt[r])
        /\ PathIn(tree', leaf) = PathIn(t, last) \cup {new[i] : i \in 1 .. k}
    <3> HIDE DEF P, N
    <3>1. Rooted(t, node_map) /\ node_map \subseteq Nodes
      BY <1>1
    <3>2. last \in node_map \cup {Root} /\ t[last].depth = from
      BY <1>1
    <3>3. from = Len(Prompt[r]) \/ \A m \in t[last].kids : t[m].key # Prompt[r][from + 1]
      BY <1>1
    <3>4. Built(t, r, last, from, ids, new, k, leaf)
      OBVIOUS
    <3>5. BuiltBelow(t, r, last, new, k, leaf)
      BY ONLY <1>2, <3>1, <3>2, <3>3, <3>4, r \in Requests, BuiltTree
    <3> QED BY <3>5 DEF BuiltBelow
  <2> QED BY <1>1, <2>1
<1>4. /\ k \in Nat /\ leaf = NewLeaf(k, last, new)
      /\ \A i \in 1 .. k : new[i] \in Nodes \ node_map
      /\ node_map' = node_map \cup N /\ req_leaf_map' = [req_leaf_map EXCEPT ![r] = leaf]
  BY DEF Built
<1>5. leaf # NoNode /\ req_leaf_map'[r] = leaf
  <2>1. leaf \in 0 .. MaxNodes
    BY <1>3, CacheAssumption DEF Nodes, Root
  <2> QED BY <1>4, <2>1, NamesAssumption DEF IInv, TypeOK
<1> HIDE DEF P, N
<1>6. ASSUME NEW n \in node_map \cup {Root}
      PROVE  /\ tree'[n].parent = tree[n].parent /\ tree'[n].key = tree[n].key
             /\ tree'[n].depth = tree[n].depth /\ tree'[n].block = tree[n].block
             /\ tree'[n].status = IF n \notin P THEN tree[n].status
                                  ELSE IF tree[n].status = "CPU" THEN "SWAP2GPU" ELSE "GPU"
             /\ tree'[n].shared = IF n \in P /\ ~Uses(r, n) THEN tree[n].shared + 1 ELSE tree[n].shared
             /\ tree'[n].status # "GPU" => tree'[n].reserved = tree[n].reserved
             /\ n \notin P \cup {Root} => tree'[n].kids = tree[n].kids
  <2>1. /\ tree'[n].parent = t[n].parent /\ tree'[n].key = t[n].key
        /\ tree'[n].depth = t[n].depth /\ tree'[n].status = t[n].status
        /\ tree'[n].block = t[n].block /\ tree'[n].shared = t[n].shared
        /\ n # leaf \/ n = Root => tree'[n].reserved = t[n].reserved
        /\ n # last => tree'[n].kids = t[n].kids
    BY DEF Built
  <2>2. /\ t[n].parent = tree[n].parent /\ t[n].key = tree[n].key
        /\ t[n].depth = tree[n].depth /\ t[n].block = tree[n].block
        /\ t[n].kids = tree[n].kids /\ t[n].reserved = tree[n].reserved
        /\ t[n].status = IF n \in P THEN "GPU" ELSE tree[n].status
        /\ t[n].shared = IF n \in P /\ ~Uses(r, n) THEN tree[n].shared + 1 ELSE tree[n].shared
        /\ n \in P => tree[n].status \in {"GPU", "SWAP2CPU"}
    BY DEF Joins, P
  <2>3. n # leaf \/ n = Root \/ n \in P
    <3>1. CASE k = 0
      BY <1>1, <1>4, <3>1 DEF NewLeaf
    <3>2. CASE k # 0
      <4>1. k \in 1 .. k
        BY <1>4, <3>2
      <4> QED BY <1>4, <3>2, <4>1 DEF NewLeaf
    <3> QED BY <3>1, <3>2
  <2> QED BY ONLY <1>1, <2>1, <2>2, <2>3
<1>7. ASSUME NEW n \in N
      PROVE  /\ tree'[n].status = "GPU" /\ tree'[n].shared = 1
             /\ tree'[tree'[n].parent].status = "GPU"
  <2>1. PICK i \in 1 .. k : n = new[i]
    BY DEF N
  <2>2. tree'[n].status = "GPU" /\ tree'[n].shared = 1
        /\ tree'[n].parent = IF i = 1 THEN last ELSE new[i - 1]
    BY <2>1 DEF Built
  <2>3. CASE i = 1
    <3>1. tree'[last].status = "GPU"
      <4>1. tree[Root].status = "GPU" /\ Root \notin P
        BY <1>1 DEF IInv, TreeInv, Rooted
      <4>2. last \in P => tree[last].status \in {"GPU", "SWAP2CPU"}
        BY DEF Joins, P
      <4> QED BY <1>1, <1>6, <4>1, <4>2
    <3> QED BY <2>2, <2>3, <3>1
  <2>4. CASE i # 1
    <3>1. i - 1 \in 1 .. k
      BY <1>4, <2>4
    <3>2. tree'[new[i - 1]].status = "GPU"
      BY <3>1 DEF Built
    <3> QED BY <2>2, <2>4, <3>2
  <2> QED BY <2>2, <2>3, <2>4
<1>8. ASSUME NEW n PROVE (Uses(r, n) => n \in P) /\ (Uses(r, n)' <=> n \in P \cup N)
  <2>1. Uses(r, n)' <=> n \in PathIn(tree', leaf)
    <3>1. state'[r] = "running"
      BY DEF Admits, IInv, ReqInv
    <3> QED BY <1>5, <3>1, UsesPathsNext
  <2> QED BY <1>3, <2>1 DEF Joins, P
<1>9. N \subseteq Nodes \ node_map
  BY <1>4 DEF N
<1>10. \A n \in P : tree[n].status # "SWAP2GPU"
  BY DEF Joins, P
<1>11. AttachedTree(r, P, N)
  BY ONLY <1>1, <1>3, <1>4, <1>6, <1>7, <1>8, <1>9, <1>10 DEF AttachedTree
<1> QED BY <1>3, <1>5, <1>11 DEF P, N, AdmitsTree

-----------------------------------------------------------------------------
(* The blocks "ids" leave their owner p: the first k are the blocks of the *)
(* new nodes, the others are reserved by the leaf or by the request.       *)
Gained(r, k, ids, new, leaf) ==
    [o \in GpuOwners |->
        IF o[1] = "node" THEN {ids[i] : i \in {j \in 1 .. k : new[j] = o[2]}}
        ELSE IF o[1] = "reserved" THEN IF o[2] = leaf THEN Spare(k, ids) ELSE {}
        ELSE IF o = <<"unfilled", r>> THEN IF leaf = Root THEN Spare(k, ids) ELSE {}
        ELSE {}]

(* Who gains which of the blocks.                                          *)
LEMMA GainedIs ==
    ASSUME NEW r \in Requests, NEW k, NEW ids, NEW new, NEW leaf, NEW A, A = Gained(r, k, ids, new, leaf)
    PROVE  /\ A[FreeList] = {}
           /\ \A n \in Nodes : /\ A[<<"node", n>>] = {ids[i] : i \in {j \in 1 .. k : new[j] = n}}
                               /\ A[<<"reserved", n>>] = IF n = leaf THEN Spare(k, ids) ELSE {}
           /\ \A q \in Requests : /\ A[<<"unfilled", q>>] = IF q = r /\ leaf = Root THEN Spare(k, ids) ELSE {}
                                  /\ A[<<"pending", q>>] = {}
<1>1. FreeList \in GpuOwners /\ FreeList[1] = "free"
  BY DEF GpuOwners, FreeList
<1>2. A[FreeList] = {}
  <2>1. FreeList # <<"unfilled", r>>
    BY GpuOwnersDiffer
  <2> QED BY <1>1, <2>1 DEF Gained
<1>3. ASSUME NEW n \in Nodes
      PROVE  /\ A[<<"node", n>>] = {ids[i] : i \in {j \in 1 .. k : new[j] = n}}
             /\ A[<<"reserved", n>>] = IF n = leaf THEN Spare(k, ids) ELSE {}
  <2>1. <<"node", n>> \in GpuOwners /\ <<"reserved", n>> \in GpuOwners
    BY DEF GpuOwners
  <2> QED BY <2>1 DEF Gained
<1>4. ASSUME NEW q \in Requests
      PROVE  /\ A[<<"unfilled", q>>] = IF q = r /\ leaf = Root THEN Spare(k, ids) ELSE {}
             /\ A[<<"pending", q>>] = {}
  <2>1. <<"unfilled", q>> \in GpuOwners /\ <<"pending", q>> \in GpuOwners
    BY DEF GpuOwners
  <2>2. (<<"unfilled", q>> = <<"unfilled", r>> <=> q = r) /\ <<"pending", q>> # <<"unfilled", r>>
    OBVIOUS
  <2> QED BY <2>1, <2>2 DEF Gained
<1> QED BY <1>2, <1>3, <1>4

HandsIds(r, p, ids) ==
    /\ {ids[i] : i \in 1 .. Len(ids)} \subseteq GpuLayout[p]
    /\ GpuLayout'[p] = GpuLayout[p] \ {ids[i] : i \in 1 .. Len(ids)}
    /\ FreeList # p => GpuLayout'[FreeList] = GpuLayout[FreeList]
    /\ \A q \in Requests : <<"pending", q>> # p =>
           GpuLayout'[<<"pending", q>>] = GpuLayout[<<"pending", q>>]

(* Every GPU block is still owned once.                                    *)
LEMMA AdmitOwns ==
    ASSUME IInv, NEW r \in Requests, NEW t, NEW last, NEW from, NEW ids, NEW new, NEW k, NEW leaf,
           Joins(r, t, last, from, ids), Built(t, r, last, from, ids, new, k, leaf),
           Admits(r, last, from, ids),
           NEW p \in {FreeList, <<"pending", r>>},
           HandsIds(r, p, ids)
    PROVE  OwnedOnce(GpuLayout', GpuOwners, GpuBlocks)
<1> DEFINE S == {ids[i] : i \in 1 .. Len(ids)}
           A == Gained(r, k, ids, new, leaf)
           F == GpuLayout
           G == GpuLayout'
<1>1. /\ OwnedOnce(F, GpuOwners, GpuBlocks) /\ p \in GpuOwners
      /\ S \subseteq F[p] /\ G[p] = F[p] \ S
  BY DEF IInv, OwnInv, GpuOwners, FreeList, HandsIds
<1>2. /\ k \in Nat /\ Len(ids) \in Nat /\ k <= Len(ids) /\ leaf = NewLeaf(k, last, new)
      /\ \A i, j \in 1 .. k : new[i] = new[j] => i = j
      /\ \A i \in 1 .. k : new[i] \in Nodes \ node_map
      /\ node_map' = node_map \cup {new[i] : i \in 1 .. k}
      /\ unfilled' = [unfilled EXCEPT ![r] = IF leaf = Root THEN Spare(k, ids) ELSE @]
  BY DEF Built
<1>3. \A i, j \in 1 .. Len(ids) : ids[i] = ids[j] => i = j
  BY DEF Joins
<1>4. /\ A[FreeList] = {}
      /\ \A n \in Nodes : /\ A[<<"node", n>>] = {ids[i] : i \in {j \in 1 .. k : new[j] = n}}
                          /\ A[<<"reserved", n>>] = IF n = leaf THEN Spare(k, ids) ELSE {}
      /\ \A q \in Requests : /\ A[<<"unfilled", q>>] = IF q = r /\ leaf = Root THEN Spare(k, ids) ELSE {}
                             /\ A[<<"pending", q>>] = {}
  BY GainedIs
<1>4a. \A n \in Nodes : \A b : b \in A[<<"node", n>>] <=> \E i \in 1 .. k : new[i] = n /\ b = ids[i]
  <2> SUFFICES ASSUME NEW n \in Nodes, NEW b
               PROVE  b \in A[<<"node", n>>] <=> \E i \in 1 .. k : new[i] = n /\ b = ids[i]
    OBVIOUS
  <2>1. A[<<"node", n>>] = {ids[i] : i \in {j \in 1 .. k : new[j] = n}}
    BY <1>4
  <2> HIDE DEF A
  <2> QED BY ONLY <2>1
<1>5. /\ node_map \subseteq Nodes /\ Root \notin Nodes
      /\ leaf \in node_map' \cup {Root} /\ node_map' \subseteq Nodes
  <2>1. leaf \in node_map' \cup {Root} /\ node_map' \subseteq Nodes
    BY AdmitAttaches DEF AdmitsTree
  <2> QED BY <2>1 DEF IInv, TypeOK, Root, Nodes
<1>6. Spare(k, ids) \subseteq S /\ (\A i \in 1 .. k : ids[i] \in S)
      /\ \A b \in S : (\E i \in 1 .. k : b = ids[i]) \/ b \in Spare(k, ids)
  BY <1>2 DEF Spare
<1>7. \A i \in 1 .. k : ids[i] \notin Spare(k, ids) /\ \A j \in 1 .. k : ids[i] = ids[j] => i = j
  BY <1>2, <1>3 DEF Spare
<1>8. ASSUME NEW n \in Nodes
      PROVE  /\ G[<<"node", n>>] = F[<<"node", n>>] \cup A[<<"node", n>>]
             /\ G[<<"reserved", n>>] = F[<<"reserved", n>>] \cup A[<<"reserved", n>>]
  <2>1. /\ G[<<"node", n>>] = IF n \in Resident' THEN {tree'[n].block} ELSE {}
        /\ G[<<"reserved", n>>] = IF n \in node_map' THEN tree'[n].reserved ELSE {}
    BY GpuLayoutNext
  <2>2. /\ F[<<"node", n>>] = IF n \in Resident THEN {tree[n].block} ELSE {}
        /\ F[<<"reserved", n>>] = IF n \in node_map THEN tree[n].reserved ELSE {}
    BY GpuLayoutIs
  <2>3. CASE n \in node_map
    <3>1. /\ tree'[n].status = t[n].status /\ tree'[n].block = t[n].block
          /\ n # leaf \/ n = Root => tree'[n].reserved = t[n].reserved
          /\ n = leaf /\ n # Root => tree'[n].reserved = t[n].reserved \cup Spare(k, ids)
      BY <2>3 DEF Built
    <3>2. /\ t[n].block = tree[n].block /\ t[n].reserved = tree[n].reserved
          /\ t[n].status = IF n \in PathIn(tree, last) THEN "GPU" ELSE tree[n].status
          /\ n \in PathIn(tree, last) => tree[n].status \in {"GPU", "SWAP2CPU"}
      BY <2>3 DEF Joins
    <3>3. n \in Resident' <=> n \in Resident
      BY <1>2, <2>3, <3>1, <3>2 DEF Resident
    <3>4. A[<<"node", n>>] = {}
      <4> HIDE DEF A
      <4> QED BY ONLY <1>2, <1>4a, <2>3, n \in Nodes
    <3>5. n # Root /\ n \in node_map'
      BY <1>2, <1>5, <2>3
    <3> QED BY ONLY <1>4, n \in Nodes, <2>1, <2>2, <2>3, <3>1, <3>2, <3>3, <3>4, <3>5
  <2>4. CASE n \in node_map' \ node_map
    <3>1. PICK i \in 1 .. k : n = new[i]
      BY <1>2, <2>4
    <3>2. /\ tree'[n].block = ids[i] /\ tree'[n].status = "GPU"
          /\ tree'[n].reserved = IF i = k THEN Spare(k, ids) ELSE {}
      BY <3>1 DEF Built
    <3>3. n \in Resident' /\ n \notin Resident
      BY <2>4, <3>2 DEF Resident
    <3>5. A[<<"node", n>>] = {ids[i]}
      <4> HIDE DEF A
      <4> QED BY ONLY <1>2, <1>4a, <3>1, n \in Nodes
    <3>6. n = leaf <=> i = k
      <4>1. k # 0 /\ k \in 1 .. k
        BY <1>2, <3>1
      <4> QED BY <1>2, <3>1, <4>1 DEF NewLeaf
    <3> QED BY ONLY <1>4, n \in Nodes, <2>1, <2>2, <2>4, <3>2, <3>3, <3>5, <3>6
  <2>5. CASE n \notin node_map'
    <3>1. n \notin Resident /\ n \notin Resident' /\ n \notin node_map /\ n # leaf
      BY <1>2, <1>5, <2>5 DEF Resident
    <3>2. A[<<"node", n>>] = {}
      <4> HIDE DEF A
      <4> QED BY ONLY <1>2, <1>4a, <2>5, n \in Nodes
    <3> QED BY ONLY <1>4, n \in Nodes, <2>1, <2>2, <2>5, <3>1, <3>2
  <2> QED BY <1>2, <2>3, <2>4, <2>5
<1>9. ASSUME NEW q \in Requests
      PROVE  /\ G[<<"unfilled", q>>] = F[<<"unfilled", q>>] \cup A[<<"unfilled", q>>]
             /\ <<"pending", q>> # p => G[<<"pending", q>>] = F[<<"pending", q>>] \cup A[<<"pending", q>>]
  <2>1. G[<<"unfilled", q>>] = unfilled'[q] /\ F[<<"unfilled", q>>] = unfilled[q]
    BY GpuLayoutIs, GpuLayoutNext
  <2>2. unfilled[r] = {}
    BY DEF Joins, IInv, ReqInv, NewInv, SwappingInv
  <2>3. unfilled'[q] = IF q = r /\ leaf = Root THEN Spare(k, ids) ELSE unfilled[q]
    BY <1>2 DEF IInv, TypeOK
  <2> QED BY <1>4, <2>1, <2>2, <2>3 DEF HandsIds
<1>10. FreeList # p => G[FreeList] = F[FreeList] \cup A[FreeList]
  BY <1>4 DEF HandsIds
<1>11. ASSUME NEW o \in GpuOwners, o # p
       PROVE  G[o] = F[o] \cup A[o] /\ A[o] \subseteq S
  <2>1. CASE o = FreeList
    BY <1>4, <1>10, <1>11, <2>1
  <2>2. CASE \E n \in Nodes : o = <<"node", n>> \/ o = <<"reserved", n>>
    <3>1. PICK n \in Nodes : o = <<"node", n>> \/ o = <<"reserved", n>>
      BY <2>2
    <3>2. A[<<"node", n>>] \subseteq S /\ A[<<"reserved", n>>] \subseteq S
      BY <1>4, <1>6
    <3> HIDE DEF F, G, A, S
    <3> QED BY ONLY <1>8, <3>1, <3>2
  <2>3. CASE \E q \in Requests : o = <<"unfilled", q>> \/ o = <<"pending", q>>
    <3>1. PICK q \in Requests : o = <<"unfilled", q>> \/ o = <<"pending", q>>
      BY <2>3
    <3>2. A[<<"unfilled", q>>] \subseteq S /\ A[<<"pending", q>>] \subseteq S
      BY <1>4, <1>6
    <3> HIDE DEF F, G, A, S
    <3> QED BY ONLY <1>9, <1>11, <3>1, <3>2
  <2> QED BY ONLY <1>11, <2>1, <2>2, <2>3, GpuOwnerIs
<1>12. ASSUME NEW b \in S
       PROVE  \E o \in GpuOwners : o # p /\ b \in A[o]
  <2>1. CASE \E i \in 1 .. k : b = ids[i]
    <3>1. PICK i \in 1 .. k : b = ids[i]
      BY <2>1
    <3>2. new[i] \in Nodes /\ b \in A[<<"node", new[i]>>]
      <4> HIDE DEF A
      <4> QED BY ONLY <1>2, <1>4a, <3>1
    <3>3. <<"node", new[i]>> \in GpuOwners
      BY <3>2, GpuLayoutIs
    <3>4. <<"node", new[i]>> # p
      BY GpuOwnersDiffer
    <3> QED BY <3>2, <3>3, <3>4
  <2>2. CASE b \in Spare(k, ids) /\ leaf # Root
    <3>1. leaf \in Nodes /\ b \in A[<<"reserved", leaf>>]
      BY <1>4, <1>5, <2>2
    <3>2. <<"reserved", leaf>> \in GpuOwners /\ <<"reserved", leaf>> # p
      BY <3>1, GpuLayoutIs, GpuOwnersDiffer
    <3> QED BY <3>1, <3>2
  <2>3. CASE b \in Spare(k, ids) /\ leaf = Root
    <3>1. b \in A[<<"unfilled", r>>]
      BY <1>4, <2>3
    <3>2. <<"unfilled", r>> \in GpuOwners /\ <<"unfilled", r>> # p
      BY GpuLayoutIs, GpuOwnersDiffer
    <3> QED BY <3>1, <3>2
  <2> QED BY <1>6, <2>1, <2>2, <2>3
<1>13. ASSUME NEW o1 \in GpuOwners, NEW o2 \in GpuOwners, o1 # o2, NEW b, b \in A[o1], b \in A[o2]
       PROVE  FALSE
  <2>1. ASSUME NEW o \in GpuOwners, b \in A[o]
        PROVE  \/ \E i \in 1 .. k : o = <<"node", new[i]>> /\ b = ids[i]
               \/ b \in Spare(k, ids) /\ o = IF leaf = Root THEN <<"unfilled", r>> ELSE <<"reserved", leaf>>
    <3>1. CASE o = FreeList
      BY <1>4, <2>1, <3>1
    <3>2. ASSUME NEW n \in Nodes, o = <<"node", n>>
          PROVE  \E i \in 1 .. k : o = <<"node", new[i]>> /\ b = ids[i]
      <4> HIDE DEF A
      <4> QED BY ONLY <1>4a, <2>1, <3>2
    <3>3. ASSUME NEW n \in Nodes, o = <<"reserved", n>>
          PROVE  b \in Spare(k, ids) /\ o = IF leaf = Root THEN <<"unfilled", r>> ELSE <<"reserved", leaf>>
      <4>1. n = leaf /\ b \in Spare(k, ids)
        <5>1. b \in IF n = leaf THEN Spare(k, ids) ELSE {}
          BY <1>4, <2>1, <3>3
        <5> QED BY ONLY <5>1
      <4> QED BY <1>5, <3>3, <4>1
    <3>4. ASSUME NEW q \in Requests, o = <<"unfilled", q>>
          PROVE  b \in Spare(k, ids) /\ o = IF leaf = Root THEN <<"unfilled", r>> ELSE <<"reserved", leaf>>
      <4>1. q = r /\ leaf = Root /\ b \in Spare(k, ids)
        <5>1. b \in IF q = r /\ leaf = Root THEN Spare(k, ids) ELSE {}
          BY <1>4, <2>1, <3>4
        <5> QED BY ONLY <5>1
      <4> QED BY <3>4, <4>1
    <3>5. ASSUME NEW q \in Requests, o = <<"pending", q>> PROVE FALSE
      BY <1>4, <2>1, <3>5
    <3> HIDE DEF A
    <3> QED BY ONLY <3>1, <3>2, <3>3, <3>4, <3>5, o \in GpuOwners, GpuOwnerIs
  <2> DEFINE home == IF leaf = Root THEN <<"unfilled", r>> ELSE <<"reserved", leaf>>
  <2>2. /\ \/ \E i \in 1 .. k : o1 = <<"node", new[i]>> /\ b = ids[i]
           \/ b \in Spare(k, ids) /\ o1 = home
        /\ \/ \E i \in 1 .. k : o2 = <<"node", new[i]>> /\ b = ids[i]
           \/ b \in Spare(k, ids) /\ o2 = home
    BY <1>13, <2>1
  <2> HIDE DEF home
  <2> QED BY ONLY <1>7, <1>13, <2>2
<1> HIDE DEF F, G, A, S
<1>1a. /\ OwnedOnce(F, GpuOwners, GpuBlocks) /\ p \in GpuOwners
       /\ S \subseteq F[p] /\ G[p] = F[p] \ S
  BY ONLY <1>1
<1>14. \A o \in GpuOwners : o # p => G[o] = F[o] \cup A[o] /\ A[o] \subseteq S
  BY ONLY <1>11
<1>15. \A o1, o2 \in GpuOwners : o1 # p /\ o2 # p /\ o1 # o2 => A[o1] \cap A[o2] = {}
  BY ONLY <1>13
<1>16. \A b \in S : \E o \in GpuOwners : o # p /\ b \in A[o]
  BY ONLY <1>12
<1>17. HandsOut(F, G, A, GpuOwners, p, S)
  BY ONLY <1>1a, <1>14, <1>15, <1>16 DEF HandsOut
<1>18. OwnedOnce(G, GpuOwners, GpuBlocks)
  BY ONLY <1>1a, <1>17, HandedOut
<1> QED BY <1>18 DEF G

-----------------------------------------------------------------------------
(* An admitted request runs, and the invariant holds.                      *)
LEMMA AdmitRuns ==
    ASSUME IInv, NEW r \in Requests, NEW t, NEW last, NEW from, NEW ids, NEW new, NEW k, NEW leaf,
           Joins(r, t, last, from, ids), Built(t, r, last, from, ids, new, k, leaf),
           Admits(r, last, from, ids)
    PROVE  NewInv(r)' /\ SwappingInv(r)' /\ AdmittedInv(r)' /\ RunningInv(r)'
<1> DEFINE P == PathIn(tree, last)
           N == {new[i] : i \in 1 .. k}
<1>1. /\ AttachedTree(r, P, N)
      /\ leaf \in node_map' \cup {Root} /\ tree'[leaf].depth = Len(Prompt[r])
      /\ PathIn(tree', leaf) = P \cup N /\ req_leaf_map'[r] = leaf /\ leaf # NoNode
  <2>1. AdmitsTree(r, last, new, k, leaf)
    BY AdmitAttaches
  <2> QED BY <2>1 DEF AdmitsTree
<1>2. state'[r] = "running" /\ cache_info'[r] = NoNode
  BY DEF Admits, IInv, ReqInv
<1>3. P \subseteq node_map
  BY <1>1 DEF AttachedTree
<1>4. ASSUME NEW n \in P
      PROVE  /\ tree'[n].status = "GPU" /\ tree'[n].key = Prompt[r][tree'[n].depth]
             /\ tree'[n].block = tree[n].block
  <2>1. /\ tree'[n].status = t[n].status /\ tree'[n].key = t[n].key
        /\ tree'[n].depth = t[n].depth /\ tree'[n].block = t[n].block
    BY <1>3 DEF Built
  <2>2. /\ t[n].status = "GPU" /\ t[n].key = tree[n].key /\ t[n].depth = tree[n].depth
        /\ t[n].block = tree[n].block
    BY <1>3 DEF Joins
  <2>3. tree[n].key = Prompt[r][tree[n].depth]
    BY DEF Joins, OnPrompt
  <2> QED BY ONLY <2>1, <2>2, <2>3
<1>5. \A i \in 1 .. k : /\ tree'[new[i]].status = "GPU" /\ tree'[new[i]].block = ids[i]
                        /\ tree'[new[i]].key = Prompt[r][from + i] /\ tree'[new[i]].depth = from + i
  BY DEF Built
<1>6. /\ k \in Nat /\ from \in Nat /\ from + k = Len(Prompt[r])
  BY DEF Built, Joins
<1>7. \A n \in P \cup N : tree'[n].status = "GPU" /\ tree'[n].key = Prompt[r][tree'[n].depth]
  <2>1. \A n \in N : tree'[n].status = "GPU" /\ tree'[n].key = Prompt[r][tree'[n].depth]
    BY <1>5
  <2> HIDE DEF P, N
  <2> QED BY ONLY <1>4, <2>1
<1>8. NewInv(r)' /\ SwappingInv(r)'
  BY <1>2 DEF NewInv, SwappingInv
<1>9. AdmittedInv(r)'
  <2> HIDE DEF P, N
  <2> QED BY ONLY <1>1, <1>2, <1>7 DEF AdmittedInv
<1>10. OnPrompt(r, leaf)'
  <2>1. tree'[leaf].depth <= Len(Prompt[r])
    BY <1>1, <1>6
  <2>2. leaf \in node_map' \cup {Root} /\ \A n \in PathIn(tree', leaf) : tree'[n].key = Prompt[r][tree'[n].depth]
    <3> HIDE DEF P, N
    <3> QED BY ONLY <1>1, <1>7
  <2> QED BY ONLY <2>1, <2>2 DEF OnPrompt
<1>10a. OnPrompt(r, req_leaf_map[r])'
  BY ONLY <1>1, <1>10 DEF OnPrompt
<1>11. {table'[r][i] : i \in 1 .. Len(Prompt[r])} = {tree'[n].block : n \in P \cup N}
  <2>1. {table'[r][i] : i \in 1 .. from} = {tree[n].block : n \in P}
    BY DEF Admits
  <2>2. {table'[r][i] : i \in 1 .. from} = {tree'[n].block : n \in P}
    <3> HIDE DEF P
    <3>1. \A n \in P : tree'[n].block = tree[n].block
      BY <1>4
    <3> QED BY ONLY <2>1, <3>1
  <2>3. \A i \in 1 .. k : table'[r][from + i] = tree'[new[i]].block
    <3>1. \A i \in 1 .. Len(Prompt[r]) - from : table'[r][from + i] = ids[i]
      BY DEF Admits
    <3>2. k = Len(Prompt[r]) - from
      BY <1>6
    <3>3. \A i \in 1 .. k : table'[r][from + i] = ids[i]
      BY ONLY <3>1, <3>2
    <3> QED BY ONLY <1>5, <3>3
  <2>4. ASSUME NEW i \in 1 .. Len(Prompt[r]) PROVE i \in 1 .. from \/ \E j \in 1 .. k : i = from + j
    <3>1. CASE i <= from
      BY <1>6, <3>1
    <3>2. CASE ~(i <= from)
      <4>1. i - from \in 1 .. k /\ i = from + (i - from)
        BY <1>6, <3>2
      <4> QED BY <4>1
    <3> QED BY <3>1, <3>2
  <2>5. ASSUME NEW i \in 1 .. Len(Prompt[r]) PROVE table'[r][i] \in {tree'[n].block : n \in P \cup N}
    <3>1. CASE i \in 1 .. from
      BY <2>2, <3>1
    <3>2. CASE \E j \in 1 .. k : i = from + j
      <4>1. PICK j \in 1 .. k : i = from + j
        BY <3>2
      <4> QED BY <2>3, <4>1
    <3> QED BY <2>4, <3>1, <3>2
  <2>6. ASSUME NEW n \in P \cup N PROVE tree'[n].block \in {table'[r][i] : i \in 1 .. Len(Prompt[r])}
    <3>1. CASE n \in P
      <4>1. tree'[n].block \in {table'[r][i] : i \in 1 .. from}
        BY <2>2, <3>1
      <4>2. \A i \in 1 .. from : i \in 1 .. Len(Prompt[r])
        BY <1>6
      <4> QED BY <4>1, <4>2
    <3>2. CASE n \in N
      <4>1. PICK j \in 1 .. k : n = new[j]
        BY <3>2
      <4>2. from + j \in 1 .. Len(Prompt[r])
        BY <1>6
      <4> QED BY <2>3, <4>1, <4>2
    <3> QED BY <3>1, <3>2
  <2> HIDE DEF P, N
  <2> QED BY ONLY <2>5, <2>6
<1>12. RunningInv(r)'
  <2>1. TableSet(r, Len(Prompt[r]))' = BlocksAt(PathIn(tree, req_leaf_map[r]))'
    <3> HIDE DEF P, N
    <3> QED BY ONLY <1>1, <1>11 DEF TableSet, BlocksAt
  <2> QED BY ONLY <1>1, <1>2, <1>10, <1>10a, <2>1 DEF RunningInv
<1> QED BY <1>8, <1>9, <1>12

(* With the counts and the blocks right, the whole invariant holds.        *)
LEMMA AdmitKeeps ==
    ASSUME IInv, NEW r \in Requests, NEW t, NEW last, NEW from, NEW ids, NEW new, NEW k, NEW leaf,
           Joins(r, t, last, from, ids), Built(t, r, last, from, ids, new, k, leaf),
           Admits(r, last, from, ids), AttachedRest(r, PathIn(tree, last)),
           OwnedOnce(GpuLayout', GpuOwners, GpuBlocks)
    PROVE  IInv'
<1> DEFINE P == PathIn(tree, last)
           N == {new[i] : i \in 1 .. k}
<1>1. /\ AttachedTree(r, P, N)
      /\ tree' \in [{Root} \cup Nodes -> NodeRecord] /\ node_map' \subseteq Nodes
      /\ leaf \in node_map' \cup {Root} /\ req_leaf_map'[r] = leaf /\ leaf # NoNode
  <2>1. AdmitsTree(r, last, new, k, leaf)
    BY AdmitAttaches
  <2> QED BY <2>1 DEF AdmitsTree
<1>2. NewInv(r)' /\ SwappingInv(r)' /\ AdmittedInv(r)' /\ RunningInv(r)'
  BY AdmitRuns
<1>3. \A n \in P : tree[n].status \in {"GPU", "SWAP2CPU"}
  BY DEF Joins
<1> HIDE DEF P, N
<1>4. AttachedRest(r, P)
  BY DEF P
<1>5. /\ TreeInv' /\ CountInv' /\ UsedInv' /\ LruInv'
      /\ \A q \in Requests : q # r => NewInv(q)' /\ SwappingInv(q)' /\ AdmittedInv(q)' /\ RunningInv(q)'
  BY <1>1, <1>4, AttachedTreeKeeps
<1>6. /\ VictimsInv' /\ StatusInv'
      /\ \A it \in OutItems' : /\ it.node \in node_map'
                               /\ tree'[it.node].status \in {"SWAP2CPU", "GPU"}
                               /\ tree'[it.node].block = it.gpu
      /\ OwnedOnce(CpuLayout', CpuOwners, CpuBlocks)
  <2>1. \A n \in P : tree[n].status = "CPU" => n \in InNodes'
    BY <1>3
  <2> QED BY <1>1, <1>4, <2>1, AttachedStates
<1>7. /\ gpu_lru' = gpu_lru \ P /\ cpu_lru' = cpu_lru \ P
      /\ holder \notin {"free_gpu", "free_cpu"} /\ victims' = victims /\ cpu_free' = cpu_free
  BY <1>4 DEF AttachedRest
<1>8. /\ state' = [state EXCEPT ![r] = "running"]
      /\ cache_info' \in [Requests -> {Root, NoNode} \cup Nodes]
      /\ table' \in [Requests -> Seq(GpuBlocks)]
      /\ gpu_free' \subseteq GpuBlocks
      /\ InItems' = {} /\ SwapTypes' /\ OneTask' /\ Waits'
      /\ \A u \in InFlight' : Distinct(u.items)
      /\ WithoutCpu => InFlight' = {}
      /\ holder' = Nobody /\ releases' = releases /\ future' = future /\ victims' = victims
      /\ freed' = freed
  BY DEF Admits, evictVars
<1>9. /\ req_leaf_map' = [req_leaf_map EXCEPT ![r] = leaf]
      /\ unfilled' = [unfilled EXCEPT ![r] = IF leaf = Root THEN Spare(k, ids) ELSE @]
      /\ Spare(k, ids) \subseteq GpuBlocks
  <2>1. ids \in Seq(GpuBlocks) /\ k \in Nat /\ k <= Len(ids)
    BY DEF Joins, Built
  <2>2. \A i \in k + 1 .. Len(ids) : i \in 1 .. Len(ids)
    BY <2>1
  <2>3. \A i \in 1 .. Len(ids) : ids[i] \in GpuBlocks
    BY <2>1
  <2> QED BY <2>2, <2>3 DEF Built, Spare
<1>10. TypeOK'
  <2>1. TypeOK
    BY DEF IInv
  <2>2. req_leaf_map' \in [Requests -> {Root, NoNode} \cup Nodes]
    BY <1>1, <1>9, <2>1 DEF TypeOK
  <2>3. unfilled' \in [Requests -> SUBSET GpuBlocks]
    BY <1>9, <2>1 DEF TypeOK
  <2>4. gpu_lru' \subseteq Nodes /\ cpu_lru' \subseteq Nodes /\ cpu_free' \subseteq CpuBlocks
    BY <1>7, <2>1 DEF TypeOK
  <2> QED BY ONLY <1>1, <1>7, <1>8, <2>1, <2>2, <2>3, <2>4 DEF TypeOK
<1>11. ItemsInv'
  BY ONLY <1>6, <1>8 DEF ItemsInv
<1>12. PhaseInv'
  <2>1. PhaseInv
    BY DEF IInv
  <2>2. NamesAssumption
    BY NamesAssumption
  <2>3. WithoutCpu => \A n \in node_map' : tree'[n].status = "GPU"
    <3> SUFFICES ASSUME WithoutCpu, NEW n \in node_map' PROVE tree'[n].status = "GPU"
      OBVIOUS
    <3>1. CASE n \in N
      BY <1>1, <3>1 DEF AttachedTree
    <3>2. CASE n \in node_map
      <4>1. tree[n].status = "GPU"
        BY <2>1, <3>2 DEF PhaseInv
      <4> QED BY <1>1, <3>2, <4>1 DEF AttachedTree
    <3> QED BY <1>1, <3>1, <3>2 DEF AttachedTree
  <2>4. WithoutCpu' <=> WithoutCpu
    BY DEF WithoutCpu
  <2> QED BY ONLY <1>7, <1>8, <2>1, <2>2, <2>3, <2>4, NamesAssumption DEF PhaseInv, NamesAssumption
<1>13. RoomInv'
  <2>1. RoomInv
    BY DEF IInv
  <2> QED BY ONLY <1>7, <1>8, <2>1, NamesAssumption DEF RoomInv
<1>14. ReqInv'
  <2>1. ReqInv
    BY DEF IInv
  <2>2. state' \in [Requests -> {"new", "swapping", "running", "ended"}]
    BY <1>8, <2>1 DEF ReqInv
  <2>3. \A i \in DOMAIN releases' : state'[releases'[i]] = "ended"
    <3>1. state[r] \in {"new", "swapping"}
      BY DEF Joins
    <3>2. \A i \in DOMAIN releases : state[releases[i]] = "ended"
      BY <2>1 DEF ReqInv
    <3>3. \A i \in DOMAIN releases : releases[i] \in Requests
      BY DEF IInv, TypeOK
    <3>4. \A q \in Requests : q # r => state'[q] = state[q]
      BY <1>8, <2>1 DEF ReqInv
    <3> QED BY ONLY <1>8, <3>1, <3>2, <3>3, <3>4
  <2>4. \A q \in Requests : NewInv(q)' /\ SwappingInv(q)' /\ AdmittedInv(q)' /\ RunningInv(q)'
    BY ONLY <1>2, <1>5
  <2> QED BY ONLY <1>8, <2>2, <2>3, <2>4 DEF ReqInv
<1>15. OwnInv'
  BY <1>6 DEF OwnInv, GpuOwners, CpuOwners, GpuBlocks, CpuBlocks
<1> QED BY <1>5, <1>6, <1>8, <1>10, <1>11, <1>12, <1>13, <1>14, <1>15 DEF IInv

-----------------------------------------------------------------------------
(* request_block_ids: what is matched and what is allocated.               *)
Ids(r) == Allocate(gpu_free, BlockNum(r) - Len(MatchedGpu(r)))
Recv(r) == SubSeq(Ids(r), 1, Len(MatchedCpu(r)))
Extra(r) == SubSeq(Ids(r), Len(MatchedCpu(r)) + 1, Len(Ids(r)))

MatchedWell(r, m, g, c, last) ==
    /\ m = MatchedNodes(r) /\ g = MatchedGpu(r) /\ c = MatchedCpu(r) /\ last = LastOf(m)
    /\ m \in Seq(node_map) /\ Len(m) \in Nat /\ OnPrompt(r, last)
    /\ tree[last].depth = Len(m) /\ PathIn(tree, last) = Range(m)
    /\ Len(m) = Len(Prompt[r]) \/ \A n \in tree[last].kids : tree[n].key # Prompt[r][Len(m) + 1]
    /\ (last = Root <=> m = << >>) /\ Range(m) \subseteq node_map
    /\ \A n \in Range(m) : tree[n].status \in {"GPU", "SWAP2CPU", "CPU"}
    /\ g \in Seq(node_map) /\ c \in Seq(node_map)
    /\ Len(g) \in Nat /\ Len(c) \in Nat /\ Len(g) + Len(c) = Len(m)
    /\ Range(g) = {n \in Range(m) : tree[n].status # "CPU"}
    /\ Range(c) = {n \in Range(m) : tree[n].status = "CPU"}
    /\ \A i, j \in 1 .. Len(c) : c[i] = c[j] => i = j
    /\ InItems = {} /\ InNodes = {} /\ (\A q \in Requests : state[q] # "swapping")
    /\ \A n : ~Uses(r, n)

(* The matched nodes split into those on the GPU and those on the CPU.     *)
LEMMA Matches ==
    ASSUME IInv, NEW r \in Requests, state[r] = "new", holder = Nobody,
           NEW m, m = MatchedNodes(r), NEW g, g = MatchedGpu(r), NEW c, c = MatchedCpu(r)
    PROVE  MatchedWell(r, m, g, c, LastOf(m))
<1> DEFINE p == Prompt[r]
           last == LastOf(m)
<1>1. Rooted(tree, node_map) /\ node_map \subseteq Nodes /\ Root \notin node_map
  BY InvRooted DEF IInv, TypeOK, Rooted
<1>2. Len(p) \in Nat
  <2>1. p \in Seq(Range(p))
    BY CacheAssumption
  <2> QED BY <2>1, LenProperties
<1>3. MatchShape(m, p)
  BY <1>1, MatchedShape
<1>4. /\ last \in node_map \cup {Root} /\ Len(m) \in Nat /\ tree[last].depth = Len(m)
      /\ PathIn(tree, last) = Range(m)
      /\ \A i, j \in 1 .. Len(m) : m[i] = m[j] => i = j
      /\ m = << >> <=> last = Root
  <2> HIDE DEF p
  <2> QED BY <1>1, <1>2, <1>3, MatchedPath
<1>5. /\ m \in Seq(node_map) /\ Len(m) <= Len(p) /\ Range(m) = {m[i] : i \in 1 .. Len(m)}
      /\ Range(m) \subseteq node_map
  BY <1>3, ItemsRange DEF MatchShape
<1>6. Len(m) = Len(p) \/ \A n \in tree[last].kids : tree[n].key # p[Len(m) + 1]
  BY <1>2, <1>3, <1>4 DEF MatchShape
<1>7. OnPrompt(r, last)
  <2>1. \A n \in Range(m) : tree[n].key = p[tree[n].depth]
    BY <1>3, <1>5 DEF MatchShape
  <2> QED BY <1>4, <1>5, <2>1 DEF OnPrompt
<1>8. InItems = {} /\ InNodes = {} /\ (\A q \in Requests : state[q] # "swapping")
  BY NoSwapIn, NamesAssumption DEF IInv
<1>9. \A n \in Range(m) : tree[n].status \in {"GPU", "SWAP2CPU", "CPU"}
  <2> SUFFICES ASSUME NEW n \in Range(m) PROVE tree[n].status \in {"GPU", "SWAP2CPU", "CPU"}
    OBVIOUS
  <2>1. n \in node_map /\ n \in Nodes
    BY <1>1, <1>5
  <2>2. tree[n].status \in {"GPU", "SWAP2CPU", "SWAP2GPU", "CPU"}
    BY <2>1 DEF IInv, TypeOK, NodeRecord
  <2>3. tree[n].status # "SWAP2GPU"
    BY <1>8, <2>1 DEF IInv, StatusInv
  <2> QED BY <2>2, <2>3
<1>10. DOMAIN tree = {Root} \cup Nodes
  BY DEF IInv, TypeOK
<1>11. \A n \in Range(m) : /\ n \in InGpuOrLeaving <=> tree[n].status # "CPU"
                           /\ n \in OnCpu <=> tree[n].status = "CPU"
  BY <1>1, <1>5, <1>9, <1>10 DEF InGpuOrLeaving, OnCpu
<1>12. g = Kept(m, InGpuOrLeaving) /\ c = Kept(m, OnCpu)
  BY DEF MatchedGpu, MatchedCpu
<1>13. Len(g) \in Nat /\ Len(c) \in Nat /\ Len(g) + Len(c) = Len(m)
  <2>1. \A i \in 1 .. Len(m) : m[i] \in InGpuOrLeaving <=> m[i] \notin OnCpu
    BY <1>5, <1>11
  <2> QED BY ONLY <1>5, <1>12, <2>1, KeptSplit
<1>14. /\ g \in Seq(node_map) /\ Range(g) = Range(m) \cap InGpuOrLeaving
       /\ c \in Seq(node_map) /\ Range(c) = Range(m) \cap OnCpu
  BY ONLY <1>5, <1>12, KeptMembers
<1>15. \A i, j \in 1 .. Len(c) : c[i] = c[j] => i = j
  BY ONLY <1>4, <1>5, <1>12, KeptOnce
<1>16. \A n : ~Uses(r, n)
  BY <1>8, LeafPlaces, UsesPaths
<1>17. /\ Range(g) = {n \in Range(m) : tree[n].status # "CPU"}
       /\ Range(c) = {n \in Range(m) : tree[n].status = "CPU"}
  BY ONLY <1>11, <1>14
<1> QED BY <1>4, <1>5, <1>6, <1>7, <1>8, <1>9, <1>13, <1>14, <1>15, <1>16, <1>17 DEF MatchedWell

\* the blocks of ids: some for the matched CPU nodes, the others to build with
AllocatedWell(r, g, c, ids, recv, extra) ==
    /\ ids = Ids(r) /\ recv = Recv(r) /\ extra = Extra(r)
    /\ ids \in Seq(gpu_free) /\ Len(ids) = BlockNum(r) - Len(g) /\ Len(c) <= Len(ids)
    /\ \A i, j \in 1 .. Len(ids) : ids[i] = ids[j] => i = j
    /\ recv \in Seq(gpu_free) /\ Len(recv) = Len(c) /\ \A i \in 1 .. Len(c) : recv[i] = ids[i]
    /\ extra \in Seq(gpu_free) /\ Len(extra) = Len(ids) - Len(c)
    /\ \A i \in 1 .. Len(extra) : extra[i] = ids[Len(c) + i]

(* The two parts of a list.                                                *)
LEMMA SubSeqOf ==
    ASSUME NEW T, NEW s \in Seq(T), NEW a \in Nat, a <= Len(s)
    PROVE  /\ SubSeq(s, 1, a) \in Seq(T) /\ Len(SubSeq(s, 1, a)) = a
           /\ \A i \in 1 .. a : SubSeq(s, 1, a)[i] = s[i]
           /\ SubSeq(s, a + 1, Len(s)) \in Seq(T) /\ Len(SubSeq(s, a + 1, Len(s))) = Len(s) - a
           /\ \A i \in 1 .. Len(s) - a : SubSeq(s, a + 1, Len(s))[i] = s[a + i]
  OBVIOUS

(* Enough blocks are free, and they are shared out.                        *)
LEMMA Allocates ==
    ASSUME IInv, NEW r \in Requests, BlockNum(r) <= Cardinality(gpu_free),
           NEW m, NEW g, NEW c, NEW last, MatchedWell(r, m, g, c, last)
    PROVE  AllocatedWell(r, g, c, Ids(r), Recv(r), Extra(r))
<1> DEFINE n == BlockNum(r) - Len(g)
           ids == Ids(r)
<1>1. /\ g = MatchedGpu(r) /\ c = MatchedCpu(r)
      /\ Len(g) \in Nat /\ Len(c) \in Nat /\ Len(g) + Len(c) = Len(m) /\ Len(m) \in Nat
      /\ tree[last].depth = Len(m) /\ tree[last].depth <= Len(Prompt[r])
  BY DEF MatchedWell, OnPrompt
<1>2. Len(Prompt[r]) \in Nat
  <2>1. Prompt[r] \in Seq(Range(Prompt[r]))
    BY CacheAssumption
  <2> QED BY <2>1, LenProperties
<1>3. BlockNum(r) \in Nat /\ BlockNum(r) >= Len(Prompt[r])
  <2>1. CASE r \in Unfilled
    BY <1>2, <2>1, DecAssumption DEF BlockNum
  <2>2. CASE r \notin Unfilled
    BY <1>2, <2>2, DecAssumption DEF BlockNum
  <2> QED BY <2>1, <2>2
<1>4. n \in Nat /\ n <= Cardinality(gpu_free) /\ Len(c) <= n
  <2>1. Cardinality(gpu_free) \in Nat
    BY FreeFinite
  <2> HIDE DEF BlockNum
  <2> QED BY <1>1, <1>2, <1>3, <2>1
<1>5. gpu_free \in SUBSET (0 .. NumGpu - 1) /\ NumGpu - 1 \in Nat
  BY CacheAssumption DEF IInv, TypeOK, GpuBlocks
<1>6. ids = Allocate(gpu_free, n)
  BY <1>1 DEF Ids
<1> HIDE DEF n, ids
<1>7. /\ ids \in Seq(gpu_free) /\ Len(ids) = n
      /\ ids \in [1 .. n -> gpu_free]
      /\ \A i, j \in 1 .. n : i # j => ids[i] # ids[j]
  <2> DEFINE N == NumGpu - 1
  <2>1. gpu_free \in SUBSET (0 .. N) /\ N \in Nat
    BY <1>5
  <2> HIDE DEF N
  <2>2. /\ Allocate(gpu_free, n) \in [1 .. n -> gpu_free]
        /\ \A i, j \in 1 .. n : i # j => Allocate(gpu_free, n)[i] # Allocate(gpu_free, n)[j]
        /\ Allocate(gpu_free, n) \in Seq(gpu_free) /\ Len(Allocate(gpu_free, n)) = n
    BY ONLY <1>4, <2>1, AllocateFacts
  <2> QED BY ONLY <1>6, <2>2
<1>8. Recv(r) = SubSeq(ids, 1, Len(c)) /\ Extra(r) = SubSeq(ids, Len(c) + 1, Len(ids))
  BY <1>1 DEF Recv, Extra, ids
<1>9. Len(c) \in Nat /\ Len(c) <= Len(ids)
  BY <1>1, <1>4, <1>7
<1>10. /\ Recv(r) \in Seq(gpu_free) /\ Len(Recv(r)) = Len(c) /\ \A i \in 1 .. Len(c) : Recv(r)[i] = ids[i]
       /\ Extra(r) \in Seq(gpu_free) /\ Len(Extra(r)) = Len(ids) - Len(c)
       /\ \A i \in 1 .. Len(ids) - Len(c) : Extra(r)[i] = ids[Len(c) + i]
  BY ONLY <1>7, <1>8, <1>9, SubSeqOf
<1>11. ids = Ids(r) /\ n = BlockNum(r) - Len(g)
  BY DEF ids, n
<1> QED BY ONLY <1>7, <1>9, <1>10, <1>11 DEF AllocatedWell

InThreeParts(T, s, a, b, c, n) ==
    /\ s \in Seq(T) /\ Len(s) = Len(a) + Len(b) + Len(c)
    /\ {s[i] : i \in 1 .. n} = {a[i] : i \in 1 .. Len(a)} \cup {b[i] : i \in 1 .. Len(b)}
    /\ \A i \in 1 .. Len(c) : s[n + i] = c[i]

(* A table is the common blocks, the received and the extra ones.          *)
LEMMA TableParts ==
    ASSUME NEW T, NEW a \in Seq(T), NEW b \in Seq(T), NEW c \in Seq(T), NEW s, s = (a \o b) \o c,
           NEW n, n = Len(a) + Len(b)
    PROVE  InThreeParts(T, s, a, b, c, n)
<1>1. /\ Len(a) \in Nat /\ Len(b) \in Nat /\ Len(c) \in Nat
      /\ a \o b \in Seq(T) /\ Len(a \o b) = Len(a) + Len(b)
  OBVIOUS
<1>2. /\ s \in Seq(T) /\ Len(s) = Len(a \o b) + Len(c)
      /\ \A i \in 1 .. Len(a \o b) : s[i] = (a \o b)[i]
      /\ \A i \in 1 .. Len(c) : s[Len(a \o b) + i] = c[i]
  BY <1>1
<1>3. /\ \A i \in 1 .. Len(a) : (a \o b)[i] = a[i]
      /\ \A i \in 1 .. Len(b) : (a \o b)[Len(a) + i] = b[i]
  OBVIOUS
<1>4. \A i \in 1 .. Len(a) : i \in 1 .. Len(a) + Len(b) /\ s[i] = a[i]
  BY ONLY <1>1, <1>2, <1>3
<1>5a. \A i \in 1 .. Len(b) : Len(a) + i \in 1 .. Len(a) + Len(b)
  BY ONLY <1>1
<1>5. \A i \in 1 .. Len(b) : s[Len(a) + i] = b[i]
  BY ONLY <1>1, <1>2, <1>3, <1>5a
<1>6. ASSUME NEW i \in 1 .. Len(a) + Len(b), i \notin 1 .. Len(a)
      PROVE  \E j \in 1 .. Len(b) : i = Len(a) + j
  <2>1. i - Len(a) \in 1 .. Len(b) /\ i = Len(a) + (i - Len(a))
    BY ONLY <1>1, <1>6, i \in 1 .. Len(a) + Len(b)
  <2> QED BY <2>1
<1>7. \A i \in 1 .. Len(a) + Len(b) : s[i] \in {a[j] : j \in 1 .. Len(a)} \cup {b[j] : j \in 1 .. Len(b)}
  BY ONLY <1>4, <1>5, <1>6
<1>8. \A j \in 1 .. Len(a) : a[j] \in {s[i] : i \in 1 .. Len(a) + Len(b)}
  BY ONLY <1>4
<1>9. \A j \in 1 .. Len(b) : b[j] \in {s[i] : i \in 1 .. Len(a) + Len(b)}
  BY ONLY <1>5, <1>5a
<1>10. {s[i] : i \in 1 .. Len(a) + Len(b)} = {a[i] : i \in 1 .. Len(a)} \cup {b[i] : i \in 1 .. Len(b)}
  BY ONLY <1>7, <1>8, <1>9
<1>11. \A i \in 1 .. Len(c) : s[Len(a) + Len(b) + i] = c[i]
  BY ONLY <1>1, <1>2
<1> QED BY ONLY <1>1, <1>2, <1>10, <1>11, n = Len(a) + Len(b) DEF InThreeParts

-----------------------------------------------------------------------------
(* A node on the GPU has a GPU block.                                      *)
LEMMA BlocksTyped ==
    ASSUME IInv, NEW n \in Resident
    PROVE  tree[n].block \in GpuBlocks
<1>1. n \in Nodes
  BY DEF IInv, TypeOK, Resident
<1>2. <<"node", n>> \in GpuOwners /\ GpuLayout[<<"node", n>>] = {tree[n].block}
  BY <1>1, GpuLayoutIs
<1> QED BY <1>2 DEF IInv, OwnInv, OwnedOnce

TableWell(r, m, g, c, recv, extra, s) ==
    /\ s \in Seq(GpuBlocks) /\ Len(s) = BlockNum(r)
    /\ {s[i] : i \in 1 .. Len(m)} = {tree[n].block : n \in Range(g)} \cup {recv[i] : i \in 1 .. Len(c)}
    /\ \A i \in 1 .. Len(extra) : s[Len(m) + i] = extra[i]

(* The table that request_block_ids returns.                               *)
LEMMA RequestTable ==
    ASSUME IInv, NEW r \in Requests, NEW m, NEW g, NEW c, NEW last, MatchedWell(r, m, g, c, last),
           NEW ids, NEW recv, NEW extra, AllocatedWell(r, g, c, ids, recv, extra),
           NEW s, s = CommonBlocks(BlocksOf(g), recv) \o extra
    PROVE  TableWell(r, m, g, c, recv, extra, s)
<1> DEFINE a == BlocksOf(g)
<1>1. gpu_free \subseteq GpuBlocks
  BY DEF IInv, TypeOK
<1>2. recv \in Seq(GpuBlocks) /\ extra \in Seq(GpuBlocks)
  BY <1>1 DEF AllocatedWell
<1>3. /\ g \in Seq(node_map) /\ Len(g) \in Nat /\ Len(c) \in Nat /\ Len(g) + Len(c) = Len(m)
      /\ Range(g) \subseteq Resident
  BY DEF MatchedWell, Resident
<1>4. Range(g) = {g[i] : i \in 1 .. Len(g)}
  BY <1>3, ItemsRange
<1>5. a \in Seq(GpuBlocks) /\ Len(a) = Len(g) /\ \A i \in 1 .. Len(g) : a[i] = tree[g[i]].block
  <2>1. DOMAIN g = 1 .. Len(g)
    BY <1>3
  <2>2. \A i \in 1 .. Len(g) : tree[g[i]].block \in GpuBlocks
    BY <1>3, <1>4, BlocksTyped
  <2>3. a \in [1 .. Len(g) -> GpuBlocks] /\ \A i \in 1 .. Len(g) : a[i] = tree[g[i]].block
    BY <2>1, <2>2 DEF BlocksOf
  <2> HIDE DEF a
  <2> QED BY <1>3, <2>3
<1> HIDE DEF a
<1>6. s = (a \o recv) \o extra
  BY DEF CommonBlocks, a
<1>7. /\ s \in Seq(GpuBlocks) /\ Len(s) = Len(a) + Len(recv) + Len(extra)
      /\ {s[i] : i \in 1 .. Len(a) + Len(recv)} = {a[i] : i \in 1 .. Len(a)} \cup {recv[i] : i \in 1 .. Len(recv)}
      /\ \A i \in 1 .. Len(extra) : s[Len(a) + Len(recv) + i] = extra[i]
  <2>1. a \in Seq(GpuBlocks)
    BY <1>5
  <2> DEFINE n == Len(a) + Len(recv)
  <2>2. n = Len(a) + Len(recv)
    OBVIOUS
  <2> HIDE DEF n
  <2>3. InThreeParts(GpuBlocks, s, a, recv, extra, n)
    BY ONLY <1>2, <2>1, <2>2, <1>6, TableParts
  <2> QED BY ONLY <2>2, <2>3 DEF InThreeParts
<1>8. Len(recv) = Len(c) /\ Len(extra) = Len(ids) - Len(c) /\ Len(ids) = BlockNum(r) - Len(g)
      /\ BlockNum(r) \in Nat
  <2>1. Prompt[r] \in Seq(Range(Prompt[r]))
    BY CacheAssumption
  <2>2. Len(Prompt[r]) \in Nat
    BY <2>1, LenProperties
  <2>3. BlockNum(r) \in Nat
    <3>1. CASE r \in Unfilled
      BY <2>2, <3>1, DecAssumption DEF BlockNum
    <3>2. CASE r \notin Unfilled
      BY <2>2, <3>2, DecAssumption DEF BlockNum
    <3> QED BY <3>1, <3>2
  <2> QED BY <2>3 DEF AllocatedWell
<1>9. Len(a) + Len(recv) = Len(m) /\ Len(s) = BlockNum(r)
  BY ONLY <1>3, <1>5, <1>7, <1>8
<1>10. {a[i] : i \in 1 .. Len(a)} = {tree[n].block : n \in Range(g)}
  BY ONLY <1>4, <1>5
<1> QED BY ONLY <1>7, <1>8, <1>9, <1>10 DEF TableWell

MatchedTreeWell(m, t) ==
    /\ t \in [{Root} \cup Nodes -> NodeRecord]
    /\ \A n \in {Root} \cup Nodes :
         /\ t[n].parent = tree[n].parent /\ t[n].key = tree[n].key
         /\ t[n].depth = tree[n].depth /\ t[n].block = tree[n].block
         /\ t[n].kids = tree[n].kids /\ t[n].reserved = tree[n].reserved
         /\ t[n].status = IF n \notin Range(m) THEN tree[n].status
                          ELSE IF tree[n].status = "CPU" THEN "SWAP2GPU" ELSE "GPU"
         /\ t[n].shared = IF n \in Range(m) THEN tree[n].shared + 1 ELSE tree[n].shared

(* The tree once the matched nodes are counted and marked.                 *)
LEMMA MatchedTreeIs ==
    ASSUME IInv, NEW r, NEW m, NEW g, NEW c, NEW last, MatchedWell(r, m, g, c, last),
           NEW t, t = MatchedTree(r)
    PROVE  MatchedTreeWell(m, t)
<1>1. DOMAIN tree = {Root} \cup Nodes /\ \A n \in {Root} \cup Nodes : tree[n] \in NodeRecord
  BY DEF IInv, TypeOK
<1>2. m = MatchedNodes(r) /\ \A n \in Range(m) : tree[n].status \in {"GPU", "SWAP2CPU", "CPU"}
  BY DEF MatchedWell
<1>3. t = [n \in {Root} \cup Nodes |->
              IF n \notin Range(m) THEN tree[n]
              ELSE [tree[n] EXCEPT
                      !.status = CASE @ = "SWAP2CPU" -> "GPU"
                                   [] @ = "CPU" -> "SWAP2GPU"
                                   [] OTHER -> @,
                      !.shared = @ + 1]]
  BY <1>1, <1>2 DEF MatchedTree
<1>4. ASSUME NEW n \in {Root} \cup Nodes
      PROVE  /\ t[n] \in NodeRecord
             /\ t[n].parent = tree[n].parent /\ t[n].key = tree[n].key
             /\ t[n].depth = tree[n].depth /\ t[n].block = tree[n].block
             /\ t[n].kids = tree[n].kids /\ t[n].reserved = tree[n].reserved
             /\ t[n].status = IF n \notin Range(m) THEN tree[n].status
                              ELSE IF tree[n].status = "CPU" THEN "SWAP2GPU" ELSE "GPU"
             /\ t[n].shared = IF n \in Range(m) THEN tree[n].shared + 1 ELSE tree[n].shared
  <2>1. CASE n \notin Range(m)
    <3>1. t[n] = tree[n]
      BY ONLY <1>3, <2>1, n \in {Root} \cup Nodes
    <3> QED BY <1>1, <2>1, <3>1
  <2>2. CASE n \in Range(m)
    <3> DEFINE x == IF tree[n].status = "CPU" THEN "SWAP2GPU" ELSE "GPU"
               y == tree[n].shared + 1
    <3>1. (CASE tree[n].status = "SWAP2CPU" -> "GPU"
            [] tree[n].status = "CPU" -> "SWAP2GPU"
            [] OTHER -> tree[n].status) = x
      BY <1>2, <2>2
    <3>2. t[n] = [tree[n] EXCEPT !.status = x, !.shared = y]
      BY <1>3, <2>2, <3>1
    <3>3. tree[n] \in NodeRecord
      BY <1>1
    <3>4. x \in {"GPU", "SWAP2GPU"} /\ y \in Int
      BY <3>3 DEF NodeRecord
    <3> HIDE DEF x, y
    <3>5. t[n] \in NodeRecord
      BY ONLY <3>2, <3>3, <3>4 DEF NodeRecord
    <3>6. /\ t[n].parent = tree[n].parent /\ t[n].key = tree[n].key
          /\ t[n].depth = tree[n].depth /\ t[n].block = tree[n].block
          /\ t[n].kids = tree[n].kids /\ t[n].reserved = tree[n].reserved
          /\ t[n].status = x /\ t[n].shared = y
      BY ONLY <3>2, <3>3 DEF NodeRecord
    <3> QED BY <2>2, <3>5, <3>6 DEF x, y
  <2> QED BY <2>1, <2>2
<1>5. t \in [{Root} \cup Nodes -> NodeRecord]
  BY <1>3, <1>4
<1> QED BY <1>4, <1>5 DEF MatchedTreeWell

-----------------------------------------------------------------------------
(* build_path from the place where the request joins.                      *)
LEMMA JoinsBuilds ==
    ASSUME IInv, NEW r \in Requests, NEW t, NEW last, NEW from, NEW ids, Joins(r, t, last, from, ids),
           BuildPath(t, r, last, from, ids, Dec)
    PROVE  \E new, k, leaf : Built(t, r, last, from, ids, new, k, leaf)
<1>1. /\ Rooted(t, node_map) /\ node_map \subseteq Nodes
      /\ last \in node_map \cup {Root} /\ t[last].depth = from /\ from <= Len(Prompt[r])
      /\ from = Len(Prompt[r]) \/ \A m \in t[last].kids : t[m].key # Prompt[r][from + 1]
  BY JoinsTree
<1>2. /\ from \in Nat /\ ids \in Seq(GpuBlocks) /\ Len(ids) = BlockNum(r) - from
      /\ t \in [{Root} \cup Nodes -> NodeRecord]
  BY DEF Joins
<1> QED BY ONLY <1>1, <1>2, r \in Requests, BuildPath(t, r, last, from, ids, Dec), BuildsNodes

\* nothing was matched on the CPU: the request is admitted at once
LEMMA AtOnceKeeps ==
    ASSUME IInv, NEW r \in Requests, RequestBlockIds(r), MatchedCpu(r) = << >>
    PROVE  IInv'
<1> DEFINE m == MatchedNodes(r)
           g == MatchedGpu(r)
           c == MatchedCpu(r)
           last == LastOf(m)
           from == Len(g)
           t == MatchedTree(r)
           ids == Ids(r)
           recv == Recv(r)
           extra == Extra(r)
           s == CommonBlocks(BlocksOf(g), recv) \o extra
           P == PathIn(tree, last)
<1>1. /\ state[r] = "new" /\ holder = Nobody /\ BlockNum(r) <= Cardinality(gpu_free)
      /\ gpu_free' = gpu_free \ Range(ids)
      /\ gpu_lru' = gpu_lru \ Range(m) /\ cpu_lru' = cpu_lru \ Range(m)
      /\ table' = [table EXCEPT ![r] = s]
      /\ BuildPath(t, r, last, from, extra, Dec)
      /\ state' = [state EXCEPT ![r] = "running"]
      /\ UNCHANGED <<transfers, result, holder, cache_info, cpu_free, releases, evictVars>>
  BY DEF RequestBlockIds, MatchLeaves, Ids, Recv, Extra
<1>2. MatchedWell(r, m, g, c, last)
  BY <1>1, Matches
<1>3. AllocatedWell(r, g, c, ids, recv, extra)
  BY <1>1, <1>2, Allocates
<1>4. /\ s \in Seq(GpuBlocks) /\ Len(s) = BlockNum(r)
      /\ {s[i] : i \in 1 .. Len(m)} = {tree[n].block : n \in Range(g)} \cup {recv[i] : i \in 1 .. Len(c)}
      /\ \A i \in 1 .. Len(extra) : s[Len(m) + i] = extra[i]
  <2>1. TableWell(r, m, g, c, recv, extra, s)
    BY <1>2, <1>3, RequestTable
  <2> HIDE DEF m, g, c, recv, extra, s
  <2> QED BY <2>1 DEF TableWell
<1>5. /\ t \in [{Root} \cup Nodes -> NodeRecord]
      /\ \A n \in {Root} \cup Nodes :
            /\ t[n].parent = tree[n].parent /\ t[n].key = tree[n].key
            /\ t[n].depth = tree[n].depth /\ t[n].block = tree[n].block
            /\ t[n].kids = tree[n].kids /\ t[n].reserved = tree[n].reserved
            /\ t[n].status = IF n \notin Range(m) THEN tree[n].status
                             ELSE IF tree[n].status = "CPU" THEN "SWAP2GPU" ELSE "GPU"
            /\ t[n].shared = IF n \in Range(m) THEN tree[n].shared + 1 ELSE tree[n].shared
  <2>1. MatchedTreeWell(m, t)
    BY <1>2, MatchedTreeIs
  <2> HIDE DEF m, t
  <2> QED BY <2>1 DEF MatchedTreeWell
<1>c. c = << >>
  OBVIOUS
<1> HIDE DEF m, g, c, last, t, ids, recv, extra, s
<1>6. /\ Len(c) = 0 /\ Range(c) = {} /\ from = Len(m) /\ from \in Nat
      /\ Range(g) = P /\ Range(m) = P
      /\ \A n \in P : tree[n].status \in {"GPU", "SWAP2CPU"}
  <2>1. Len(c) = 0 /\ Range(c) = {}
    BY <1>c DEF Range
  <2>2. /\ Len(g) \in Nat /\ Len(g) + Len(c) = Len(m) /\ Len(m) \in Nat
        /\ Range(c) = {n \in Range(m) : tree[n].status = "CPU"}
        /\ Range(g) = {n \in Range(m) : tree[n].status # "CPU"}
        /\ \A n \in Range(m) : tree[n].status \in {"GPU", "SWAP2CPU", "CPU"}
        /\ P = Range(m)
    BY <1>2 DEF MatchedWell
  <2>3. \A n \in Range(m) : tree[n].status # "CPU"
    BY <2>1, <2>2
  <2>4. from = Len(m)
    BY ONLY <2>1, <2>2
  <2> QED BY <2>1, <2>2, <2>3, <2>4
<1>7. /\ extra \in Seq(gpu_free) /\ Len(extra) = BlockNum(r) - from /\ Len(extra) = Len(ids)
      /\ ids \in Seq(gpu_free)
      /\ \A i, j \in 1 .. Len(extra) : extra[i] = extra[j] => i = j
      /\ \A i \in 1 .. Len(ids) : extra[i] = ids[i]
  <2>1. /\ ids \in Seq(gpu_free) /\ Len(ids) = BlockNum(r) - from
        /\ \A i, j \in 1 .. Len(ids) : ids[i] = ids[j] => i = j
        /\ extra \in Seq(gpu_free) /\ Len(extra) = Len(ids) - Len(c)
        /\ \A i \in 1 .. Len(extra) : extra[i] = ids[Len(c) + i]
    BY <1>3 DEF AllocatedWell
  <2>2. Len(ids) \in Nat
    BY <2>1
  <2>3. Len(extra) = Len(ids)
    BY <1>6, <2>1, <2>2
  <2>4. \A i \in 1 .. Len(ids) : extra[i] = ids[i]
    BY <1>6, <2>1, <2>3
  <2> QED BY <2>1, <2>3, <2>4
<1>8. {extra[i] : i \in 1 .. Len(extra)} = Range(ids)
  <2>1. Range(ids) = {ids[i] : i \in 1 .. Len(ids)}
    BY <1>7, ItemsRange
  <2> QED BY ONLY <1>7, <2>1
<1>9. /\ InItems = {} /\ \A q \in Requests : state[q] # "swapping"
      /\ \A n : ~Uses(r, n)
      /\ OnPrompt(r, last) /\ tree[last].depth = from /\ P \subseteq node_map
      /\ from = Len(Prompt[r]) \/ \A n \in tree[last].kids : tree[n].key # Prompt[r][from + 1]
  BY <1>2, <1>6 DEF MatchedWell
<1>10. gpu_free \subseteq GpuBlocks /\ node_map \subseteq Nodes
  BY DEF IInv, TypeOK
<1>11. Joins(r, t, last, from, extra)
  <2>1. extra \in Seq(GpuBlocks)
    BY <1>7, <1>10
  <2>2. \A n \in node_map \cup {Root} :
            /\ t[n].parent = tree[n].parent /\ t[n].key = tree[n].key
            /\ t[n].depth = tree[n].depth /\ t[n].block = tree[n].block
            /\ t[n].kids = tree[n].kids /\ t[n].reserved = tree[n].reserved
            /\ t[n].status = IF n \in P THEN "GPU" ELSE tree[n].status
            /\ t[n].shared = IF n \in P /\ ~Uses(r, n) THEN tree[n].shared + 1 ELSE tree[n].shared
    BY <1>5, <1>6, <1>9, <1>10
  <2> HIDE DEF from
  <2> QED BY <1>1, <1>5, <1>6, <1>7, <1>9, <2>1, <2>2 DEF Joins
<1>12. PICK new, k, leaf : Built(t, r, last, from, extra, new, k, leaf)
  BY <1>1, <1>11, JoinsBuilds
<1>13. /\ InFlight' = InFlight /\ InItems' = InItems /\ OutItems' = OutItems
  BY <1>1 DEF InFlight, InItems, OutItems, ItemsOf
<1>14. SwapTypes' /\ OneTask' /\ Waits'
  <2>1. SwapTypes /\ OneTask /\ Waits
    BY DEF IInv
  <2>2. SwapTypes' /\ OneTask'
    BY <1>1, <1>13, <2>1 DEF SwapTypes, OneTask, evictVars
  <2>3. \A q \in Requests : state'[q] # "swapping" /\ holder # q
    BY <1>1, <1>9, NamesAssumption DEF IInv, ReqInv
  <2>4. Waits'
    BY <1>1, <1>13, <2>1, <2>3 DEF Waits, evictVars
  <2> QED BY <2>2, <2>4
<1>15. Admits(r, last, from, extra)
  <2>1. /\ cache_info[r] = NoNode /\ cache_info \in [Requests -> {Root, NoNode} \cup Nodes]
        /\ table \in [Requests -> Seq(GpuBlocks)]
    BY <1>1 DEF IInv, ReqInv, NewInv, TypeOK
  <2>2. table' \in [Requests -> Seq(GpuBlocks)] /\ table'[r] = s
    BY <1>1, <1>4, <2>1
  <2>3. {s[i] : i \in 1 .. from} = {tree[n].block : n \in P}
    <3>1. {recv[i] : i \in 1 .. Len(c)} = {}
      BY <1>6
    <3>2. {s[i] : i \in 1 .. Len(m)} = {tree[n].block : n \in Range(g)} \cup {recv[i] : i \in 1 .. Len(c)}
      BY <1>4
    <3> HIDE DEF from, P
    <3> QED BY ONLY <1>6, <3>1, <3>2
  <2>4. \A i \in 1 .. Len(Prompt[r]) - from : s[from + i] = extra[i]
    <3>1. \A i \in 1 .. Len(extra) : s[from + i] = extra[i]
      <4> HIDE DEF from
      <4> QED BY ONLY <1>4, <1>6
    <3>2. Len(Prompt[r]) \in Nat /\ Len(extra) \in Nat /\ Len(extra) >= Len(Prompt[r]) - from
      <4>1. from + k = Len(Prompt[r]) /\ k \in Nat /\ k <= Len(extra) /\ Len(extra) \in Nat
        BY <1>12 DEF Built
      <4> QED BY <1>6, <4>1
    <3>3. \A i \in 1 .. Len(Prompt[r]) - from : i \in 1 .. Len(extra)
      <4> HIDE DEF from
      <4> QED BY ONLY <1>6, <3>2
    <3> QED BY ONLY <3>1, <3>3
  <2>5. \A u \in InFlight' : Distinct(u.items)
    BY <1>13 DEF IInv, ItemsInv
  <2>6. WithoutCpu => InFlight' = {}
    BY <1>13 DEF IInv, PhaseInv
  <2>7. gpu_free' \subseteq GpuBlocks
    BY <1>1, <1>10
  <2>8. /\ {table'[r][i] : i \in 1 .. from} = {tree[n].block : n \in P}
        /\ \A i \in 1 .. Len(Prompt[r]) - from : table'[r][from + i] = extra[i]
    <3> HIDE DEF from, P
    <3> QED BY ONLY <2>2, <2>3, <2>4
  <2>9. InItems' = {}
    BY <1>9, <1>13
  <2>10. /\ cache_info' \in [Requests -> {Root, NoNode} \cup Nodes] /\ cache_info'[r] = NoNode
         /\ holder' = Nobody
    BY <1>1, <2>1
  <2> HIDE DEF from
  <2> QED BY <1>1, <1>14, <2>2, <2>5, <2>6, <2>7, <2>8, <2>9, <2>10 DEF Admits
<1>16. AttachedRest(r, P)
  <2>1. /\ req_leaf_map' = [req_leaf_map EXCEPT ![r] = leaf]
        /\ unfilled' = [unfilled EXCEPT ![r] = IF leaf = Root THEN Spare(k, extra) ELSE @]
    BY <1>12 DEF Built
  <2>2. ASSUME NEW q \in Requests, q # r
        PROVE  /\ state[q] # "swapping" /\ state'[q] = state[q] /\ table'[q] = table[q]
               /\ unfilled'[q] = unfilled[q] /\ req_leaf_map'[q] = req_leaf_map[q]
               /\ cache_info'[q] = cache_info[q]
    BY <1>1, <1>9, <2>1, <2>2 DEF IInv, ReqInv, TypeOK
  <2> HIDE DEF P
  <2> QED BY <1>1, <1>6, <1>9, <1>13, <2>2, NamesAssumption DEF AttachedRest, evictVars
<1>17. OwnedOnce(GpuLayout', GpuOwners, GpuBlocks)
  <2> DEFINE p == FreeList
  <2>1. GpuLayout[FreeList] = gpu_free /\ GpuLayout'[FreeList] = gpu_free'
    BY GpuLayoutIs, GpuLayoutNext
  <2>2. {extra[i] : i \in 1 .. Len(extra)} \subseteq GpuLayout[p]
    BY <1>7, <2>1
  <2>3. GpuLayout'[p] = GpuLayout[p] \ {extra[i] : i \in 1 .. Len(extra)}
    BY <1>1, <1>8, <2>1
  <2>4. \A q \in Requests : GpuLayout'[<<"pending", q>>] = GpuLayout[<<"pending", q>>]
    <3> SUFFICES ASSUME NEW q \in Requests
                 PROVE  GpuLayout'[<<"pending", q>>] = GpuLayout[<<"pending", q>>]
      OBVIOUS
    <3>1. Pending(q) = {}
      BY <1>9, PendingIs DEF IInv
    <3>2. state'[q] # "swapping"
      BY <1>1, <1>9 DEF IInv, ReqInv
    <3>3. Pending(q)' = {}
      BY <1>14, <3>2, PendingIsNext
    <3> QED BY <3>1, <3>3, GpuLayoutIs, GpuLayoutNext
  <2>5. p \in {FreeList, <<"pending", r>>} /\ p = FreeList
    OBVIOUS
  <2> HIDE DEF p, from
  <2>6. HandsIds(r, p, extra)
    BY ONLY <2>2, <2>3, <2>4, <2>5 DEF HandsIds
  <2> QED BY ONLY IInv, r \in Requests, <1>11, <1>12, <1>15, <2>5, <2>6, AdmitOwns
<1>18. AttachedRest(r, PathIn(tree, last))
  BY <1>16
<1> HIDE DEF from, P
<1> QED BY ONLY IInv, r \in Requests, <1>11, <1>12, <1>15, <1>17, <1>18, AdmitKeeps

-----------------------------------------------------------------------------
(* Some nodes were matched on the CPU: the request waits for a swap.       *)
SwapInTask(r, c, recv) ==
    [type |-> "SWAP2GPU", for |-> r,
     items |-> [i \in DOMAIN c |-> [node |-> c[i], gpu |-> recv[i], cpu |-> tree[c[i]].block]]]

TaskWell(r, c, recv, task) ==
    /\ task \in Task /\ task.for = r /\ task.type = "SWAP2GPU" /\ Distinct(task.items)
    /\ \A it \in ItemsOf(task) : /\ it.node \in Range(c) /\ it.cpu = tree[it.node].block
                                 /\ \E i \in 1 .. Len(c) : it.gpu = recv[i]
    /\ \A n \in Range(c) : \E it \in ItemsOf(task) : it.node = n
    /\ \A i \in 1 .. Len(c) : \E it \in ItemsOf(task) : it.gpu = recv[i]

(* A node on the CPU has a CPU block of its own.                           *)
LEMMA CpuBlocksTyped ==
    ASSUME IInv, NEW n \in node_map, tree[n].status = "CPU"
    PROVE  /\ tree[n].block \in CpuBlocks
           /\ \A o \in node_map : tree[o].status = "CPU" /\ tree[o].block = tree[n].block => o = n
<1>1. node_map \subseteq Nodes
  BY DEF IInv, TypeOK
<1>2. ASSUME NEW o \in node_map, tree[o].status = "CPU"
      PROVE  <<"node", o>> \in CpuOwners /\ CpuLayout[<<"node", o>>] = {tree[o].block}
  <2>1. o \in node_map \ Resident
    BY <1>2 DEF Resident
  <2> QED BY <1>1, <2>1, CpuLayoutIs
<1>3. OwnedOnce(CpuLayout, CpuOwners, CpuBlocks)
  BY DEF IInv, OwnInv
<1>4. tree[n].block \in CpuBlocks
  BY <1>2, <1>3 DEF OwnedOnce
<1>5. ASSUME NEW o \in node_map, tree[o].status = "CPU", tree[o].block = tree[n].block
      PROVE  o = n
  <2>1. <<"node", o>> # <<"node", n>> =>
            CpuLayout[<<"node", o>>] \cap CpuLayout[<<"node", n>>] = {}
    BY <1>2, <1>3, <1>5 DEF OwnedOnce
  <2>2. CpuLayout[<<"node", o>>] = {tree[n].block} /\ CpuLayout[<<"node", n>>] = {tree[n].block}
    BY <1>2, <1>5
  <2> QED BY <2>1, <2>2, CpuOwnersDiffer
<1> QED BY <1>4, <1>5

(* issue_prefix_swap_in pairs each matched CPU node with a new GPU block.  *)
LEMMA SwapInIssued ==
    ASSUME IInv, NEW r \in Requests, NEW m, NEW g, NEW c, NEW last, MatchedWell(r, m, g, c, last),
           NEW ids, NEW recv, NEW extra, AllocatedWell(r, g, c, ids, recv, extra)
    PROVE  TaskWell(r, c, recv, SwapInTask(r, c, recv))
<1> DEFINE task == SwapInTask(r, c, recv)
           item(i) == [node |-> c[i], gpu |-> recv[i], cpu |-> tree[c[i]].block]
<1>1. /\ c \in Seq(node_map) /\ Len(c) \in Nat /\ Range(c) = {n \in Range(m) : tree[n].status = "CPU"}
      /\ \A i, j \in 1 .. Len(c) : c[i] = c[j] => i = j
  BY DEF MatchedWell
<1>2. Range(c) = {c[i] : i \in 1 .. Len(c)} /\ DOMAIN c = 1 .. Len(c)
  BY <1>1, ItemsRange
<1>3. /\ recv \in Seq(gpu_free) /\ Len(recv) = Len(c)
      /\ \A i, j \in 1 .. Len(c) : recv[i] = recv[j] => i = j
  <2>1. /\ recv \in Seq(gpu_free) /\ Len(recv) = Len(c) /\ ids \in Seq(gpu_free) /\ Len(c) <= Len(ids)
        /\ \A i \in 1 .. Len(c) : recv[i] = ids[i]
        /\ \A i, j \in 1 .. Len(ids) : ids[i] = ids[j] => i = j
    BY DEF AllocatedWell
  <2>2. \A i \in 1 .. Len(c) : i \in 1 .. Len(ids)
    BY <1>1, <2>1
  <2> QED BY ONLY <2>1, <2>2
<1>4. \A i \in 1 .. Len(c) : /\ c[i] \in node_map /\ tree[c[i]].status = "CPU" /\ c[i] \in Range(c)
                             /\ recv[i] \in gpu_free
  BY <1>1, <1>2, <1>3
<1>5. node_map \subseteq Nodes /\ gpu_free \subseteq GpuBlocks
  BY DEF IInv, TypeOK
<1>6. \A i \in 1 .. Len(c) : tree[c[i]].block \in CpuBlocks
  BY <1>4, CpuBlocksTyped
<1>7. \A i \in 1 .. Len(c) : item(i) \in Item
  BY <1>4, <1>5, <1>6 DEF Item
<1>8. task.items = [i \in 1 .. Len(c) |-> item(i)] /\ task.for = r /\ task.type = "SWAP2GPU"
  BY <1>2 DEF SwapInTask
<1>9. task.items \in Seq(Item) /\ DOMAIN task.items = 1 .. Len(c)
      /\ \A i \in 1 .. Len(c) : task.items[i] = item(i)
  <2> DEFINE items == task.items
  <2>1. items \in [1 .. Len(c) -> Item]
    BY <1>7, <1>8
  <2>2. items \in Seq(Item)
    BY <1>1, <2>1
  <2> QED BY <1>8, <2>1, <2>2
<1>10. task \in Task
  <2>1. task = [type |-> "SWAP2GPU", for |-> r, items |-> task.items]
    BY DEF SwapInTask
  <2> DEFINE items == task.items
  <2>2. items \in Seq(Item)
    BY <1>9
  <2> HIDE DEF items
  <2>3. [type |-> "SWAP2GPU", for |-> r, items |-> items] \in Task
    BY <2>2 DEF Task
  <2> QED BY <2>1, <2>3 DEF items
<1>11. ItemsOf(task) = {item(i) : i \in 1 .. Len(c)}
  <2> DEFINE items == task.items
  <2>1. Range(items) = {items[i] : i \in DOMAIN items}
    BY DEF Range
  <2>2. DOMAIN items = 1 .. Len(c) /\ \A i \in 1 .. Len(c) : items[i] = item(i)
    BY <1>9
  <2>3. ItemsOf(task) = Range(items)
    BY DEF ItemsOf
  <2> HIDE DEF items, item, task
  <2> QED BY ONLY <2>1, <2>2, <2>3
<1> HIDE DEF task
<1>12. Distinct(task.items)
  <2> SUFFICES ASSUME NEW i \in 1 .. Len(c), NEW j \in 1 .. Len(c), i # j
               PROVE  /\ task.items[i].node # task.items[j].node
                      /\ task.items[i].gpu # task.items[j].gpu
                      /\ task.items[i].cpu # task.items[j].cpu
    BY <1>9 DEF Distinct
  <2>1. c[i] # c[j] /\ recv[i] # recv[j]
    BY <1>1, <1>3
  <2>2. tree[c[i]].block # tree[c[j]].block
    BY <1>4, <2>1, CpuBlocksTyped
  <2>3. task.items[i] = item(i) /\ task.items[j] = item(j)
    BY ONLY <1>9, i \in 1 .. Len(c), j \in 1 .. Len(c)
  <2>4. /\ item(i).node = c[i] /\ item(i).gpu = recv[i] /\ item(i).cpu = tree[c[i]].block
        /\ item(j).node = c[j] /\ item(j).gpu = recv[j] /\ item(j).cpu = tree[c[j]].block
    OBVIOUS
  <2> HIDE DEF item
  <2> QED BY ONLY <2>1, <2>2, <2>3, <2>4
<1>13. \A it \in ItemsOf(task) : /\ it.node \in Range(c) /\ it.cpu = tree[it.node].block
                                 /\ \E i \in 1 .. Len(c) : it.gpu = recv[i]
  BY <1>4, <1>11
<1>14. \A i \in 1 .. Len(c) : item(i) \in ItemsOf(task) /\ item(i).node = c[i] /\ item(i).gpu = recv[i]
  BY <1>11
<1>15. \A n \in Range(c) : \E it \in ItemsOf(task) : it.node = n
  BY <1>2, <1>14
<1>16. \A i \in 1 .. Len(c) : \E it \in ItemsOf(task) : it.gpu = recv[i]
  BY <1>14
<1>17. TaskWell(r, c, recv, task)
  BY ONLY <1>8, <1>10, <1>12, <1>13, <1>15, <1>16 DEF TaskWell
<1> QED BY <1>17 DEF task

(* Its task is the one in flight for the request.                          *)
LEMMA SwapInQueued ==
    ASSUME IInv, NEW r \in Requests, NEW c, NEW recv, NEW task, TaskWell(r, c, recv, task),
           holder = Nobody, holder' = r, state' = [state EXCEPT ![r] = "swapping"],
           transfers' = transfers \cup {task}, result' = result, victims' = victims, future' = future
    PROVE  /\ InFlight' = InFlight \cup {task}
           /\ InItems' = ItemsOf(task) /\ OutItems' = OutItems
           /\ SwapTypes' /\ OneTask' /\ Waits'
<1>1. SwapTypes /\ OneTask /\ Waits /\ state \in [Requests -> {"new", "swapping", "running", "ended"}]
  BY DEF IInv, ReqInv
<1>2. InFlight' = InFlight \cup {task}
  BY DEF InFlight
<1>3. task.for = r /\ r # Nobody /\ task \in Task /\ task.type = "SWAP2GPU"
  BY NamesAssumption DEF TaskWell
<1>4. \A t \in InFlight : t.for = Nobody
  <2>1. \A t \in InFlight : t.for \in Requests \cup {Nobody}
    BY <1>1, TaskTypes
  <2>2. \A q \in Requests : holder # q
    BY NamesAssumption
  <2> QED BY <1>1, <2>1, <2>2 DEF Waits
<1>5. InItems' = ItemsOf(task)
  <2>1. {u \in InFlight' : u.for # Nobody} = {task}
    BY <1>2, <1>3, <1>4
  <2>2. InItems' = UNION {ItemsOf(t) : t \in {u \in InFlight' : u.for # Nobody}}
    BY DEF InItems, ItemsOf
  <2> QED BY ONLY <2>1, <2>2
<1>6. OutItems' = OutItems
  <2>1. {u \in InFlight' : u.for = Nobody} = {u \in InFlight : u.for = Nobody}
    BY <1>2, <1>3
  <2>2. OutItems' = UNION {ItemsOf(t) : t \in {u \in InFlight' : u.for = Nobody}}
    BY DEF OutItems, ItemsOf
  <2> QED BY <2>1, <2>2 DEF OutItems
<1>7. SwapTypes'
  BY <1>1, <1>2, <1>3 DEF SwapTypes
<1>8. OneTask'
  <2>1. result # << >> => result[1] \in InFlight
    BY ResultIs
  <2> QED BY <1>1, <1>2, <1>3, <1>4, <2>1 DEF OneTask
<1>9. Waits'
  <2>1. (\E t \in InFlight' : t.for = Nobody) <=> (\E t \in InFlight : t.for = Nobody)
    BY <1>2, <1>3
  <2>2. \A q \in Requests : state'[q] = "swapping" <=> q = r
    BY <1>1, NamesAssumption DEF Waits
  <2>3. \A q \in Requests : (\E t \in InFlight' : t.for = q) <=> q = r
    BY <1>2, <1>3, <1>4, NamesAssumption
  <2> QED BY ONLY <1>1, <2>1, <2>2, <2>3, holder' = r, future' = future DEF Waits
<1> QED BY <1>2, <1>5, <1>6, <1>7, <1>8, <1>9

-----------------------------------------------------------------------------
\* the step of request_block_ids up to the wait for its swap
WaitsFor(r, m, g, c, last, ids, recv, extra, s, task) ==
    /\ MatchedWell(r, m, g, c, last) /\ AllocatedWell(r, g, c, ids, recv, extra)
    /\ TableWell(r, m, g, c, recv, extra, s) /\ TaskWell(r, c, recv, task)
    /\ MatchedTreeWell(m, tree') /\ c # << >>
    /\ state[r] = "new" /\ holder = Nobody
    /\ gpu_free' = gpu_free \ Range(ids)
    /\ gpu_lru' = gpu_lru \ Range(m) /\ cpu_lru' = cpu_lru \ Range(m)
    /\ table' = [table EXCEPT ![r] = s]
    /\ transfers' = transfers \cup {task}
    /\ holder' = r
    /\ cache_info' = [cache_info EXCEPT ![r] = last]
    /\ state' = [state EXCEPT ![r] = "swapping"]
    /\ UNCHANGED <<node_map, req_leaf_map, unfilled, cpu_free, releases, evictVars, result>>

(* request_block_ids starts to wait.                                       *)
LEMMA WaitStarts ==
    ASSUME IInv, NEW r \in Requests, RequestBlockIds(r), MatchedCpu(r) # << >>
    PROVE  \E m, g, c, last, ids, recv, extra, s, task :
               WaitsFor(r, m, g, c, last, ids, recv, extra, s, task)
<1> DEFINE m == MatchedNodes(r)
           g == MatchedGpu(r)
           c == MatchedCpu(r)
           last == LastOf(m)
           ids == Ids(r)
           recv == Recv(r)
           extra == Extra(r)
           s == CommonBlocks(BlocksOf(g), recv) \o extra
           task == SwapInTask(r, c, recv)
<1>1. /\ state[r] = "new" /\ holder = Nobody /\ BlockNum(r) <= Cardinality(gpu_free)
      /\ gpu_free' = gpu_free \ Range(ids)
      /\ gpu_lru' = gpu_lru \ Range(m) /\ cpu_lru' = cpu_lru \ Range(m)
      /\ table' = [table EXCEPT ![r] = s]
      /\ tree' = MatchedTree(r) /\ IssueSwapIn(r, recv) /\ holder' = r
      /\ cache_info' = [cache_info EXCEPT ![r] = last]
      /\ state' = [state EXCEPT ![r] = "swapping"]
      /\ UNCHANGED <<node_map, req_leaf_map, unfilled, cpu_free, releases, evictVars, result>>
  BY DEF RequestBlockIds, MatchLeaves, Ids, Recv, Extra
<1>2. transfers' = transfers \cup {task}
  BY <1>1 DEF IssueSwapIn, SwapInTask
<1>3. MatchedWell(r, m, g, c, last)
  BY <1>1, Matches
<1>4. AllocatedWell(r, g, c, ids, recv, extra)
  BY <1>1, <1>3, Allocates
<1>5. TableWell(r, m, g, c, recv, extra, s)
  BY <1>3, <1>4, RequestTable
<1>6. TaskWell(r, c, recv, task)
  BY <1>3, <1>4, SwapInIssued
<1>7. MatchedTreeWell(m, tree')
  BY <1>1, <1>3, MatchedTreeIs
<1>8. c # << >>
  OBVIOUS
<1> HIDE DEF m, g, c, last, ids, recv, extra, s, task
<1> QED BY <1>1, <1>2, <1>3, <1>4, <1>5, <1>6, <1>7, <1>8 DEF WaitsFor

(* The request uses the matched path, whose CPU nodes come in.             *)
LEMMA WaitAttaches ==
    ASSUME IInv, NEW r \in Requests, NEW m, NEW g, NEW c, NEW last, NEW ids, NEW recv, NEW extra,
           NEW s, NEW task, WaitsFor(r, m, g, c, last, ids, recv, extra, s, task)
    PROVE  /\ AttachedTree(r, Range(m), {}) /\ AttachedRest(r, Range(m))
           /\ InFlight' = InFlight \cup {task} /\ InItems' = ItemsOf(task) /\ OutItems' = OutItems
           /\ SwapTypes' /\ OneTask' /\ Waits'
           /\ PathIn(tree', last) = Range(m) /\ InNodes' = Range(c)
<1> DEFINE P == Range(m)
<1>1. /\ InFlight' = InFlight \cup {task} /\ InItems' = ItemsOf(task) /\ OutItems' = OutItems
      /\ SwapTypes' /\ OneTask' /\ Waits'
  BY SwapInQueued DEF WaitsFor, evictVars
<1>2. Rooted(tree, node_map) /\ node_map \subseteq Nodes /\ Root \notin node_map
  BY InvRooted DEF IInv, TypeOK, Rooted
<1>3. /\ OnPrompt(r, last) /\ PathIn(tree, last) = P /\ P \subseteq node_map
      /\ \A n \in P : tree[n].status \in {"GPU", "SWAP2CPU", "CPU"}
      /\ InItems = {} /\ (\A q \in Requests : state[q] # "swapping")
      /\ \A n : ~Uses(r, n)
  BY DEF WaitsFor, MatchedWell
<1>4. \A n \in {Root} \cup Nodes :
          /\ tree'[n].parent = tree[n].parent /\ tree'[n].key = tree[n].key
          /\ tree'[n].depth = tree[n].depth /\ tree'[n].block = tree[n].block
          /\ tree'[n].kids = tree[n].kids /\ tree'[n].reserved = tree[n].reserved
          /\ tree'[n].status = IF n \notin P THEN tree[n].status
                               ELSE IF tree[n].status = "CPU" THEN "SWAP2GPU" ELSE "GPU"
          /\ tree'[n].shared = IF n \in P THEN tree[n].shared + 1 ELSE tree[n].shared
  BY DEF WaitsFor, MatchedTreeWell
<1>5. node_map' = node_map
  BY DEF WaitsFor
<1>6. last \in node_map \cup {Root}
  BY <1>3 DEF OnPrompt
<1>7. PathShape(tree, node_map, last)
  BY <1>2, <1>6, PathShapes
<1>8. \A n \in P : tree[n].parent \in P \cup {Root}
  BY <1>3, <1>7 DEF PathShape
<1> HIDE DEF P
<1>9. Rooted(tree', node_map')
  <2>1. \A n \in node_map \cup {Root} :
            /\ tree'[n].parent = tree[n].parent /\ tree'[n].key = tree[n].key
            /\ tree'[n].depth = tree[n].depth /\ tree'[n].kids = tree[n].kids
    BY <1>2, <1>4
  <2> QED BY ONLY <1>2, <1>5, <2>1, LinkedSame
<1>10. PathIn(tree', last) = P
  <2>1. \A n \in PathIn(tree, last) : n \in node_map' /\ tree'[n].parent = tree[n].parent
    BY <1>2, <1>3, <1>4, <1>5
  <2> QED BY <1>3, <1>6, <1>9, <2>1, PathsKept
<1>11. \A n : Uses(r, n)' <=> n \in P
  <2>1. req_leaf_map'[r] = NoNode /\ state'[r] = "swapping" /\ cache_info'[r] = last
    BY DEF WaitsFor, IInv, ReqInv, NewInv, TypeOK
  <2> QED BY <1>10, <2>1, UsesPathsNext
<1>12. AttachedTree(r, P, {})
  <2>1. \A n \in node_map \cup {Root} :
            /\ tree'[n].parent = tree[n].parent /\ tree'[n].key = tree[n].key
            /\ tree'[n].depth = tree[n].depth /\ tree'[n].block = tree[n].block
            /\ tree'[n].kids = tree[n].kids /\ tree'[n].reserved = tree[n].reserved
            /\ tree'[n].status = IF n \notin P THEN tree[n].status
                                 ELSE IF tree[n].status = "CPU" THEN "SWAP2GPU" ELSE "GPU"
            /\ tree'[n].shared = IF n \in P THEN tree[n].shared + 1 ELSE tree[n].shared
    BY <1>2, <1>4
  <2>2. \A n \in P : tree[n].status # "SWAP2GPU"
    BY <1>3
  <2> QED BY ONLY <1>3, <1>5, <1>8, <1>9, <1>11, <2>1, <2>2 DEF AttachedTree
<1>13. AttachedRest(r, P)
  <2>1. ASSUME NEW q \in Requests, q # r
        PROVE  /\ state[q] # "swapping" /\ state'[q] = state[q] /\ table'[q] = table[q]
               /\ unfilled'[q] = unfilled[q] /\ req_leaf_map'[q] = req_leaf_map[q]
               /\ cache_info'[q] = cache_info[q]
    BY <1>3, <2>1 DEF WaitsFor, IInv, ReqInv, TypeOK
  <2>2. /\ gpu_lru' = gpu_lru \ P /\ cpu_lru' = cpu_lru \ P /\ holder = Nobody /\ holder' = r
        /\ victims' = victims /\ cpu_free' = cpu_free
    BY DEF WaitsFor, evictVars, P
  <2>3. holder \notin {"free_gpu", "free_cpu"} /\ holder' # "free_gpu"
    BY <2>2, NamesAssumption
  <2> QED BY ONLY <1>1, <1>3, <2>1, <2>2, <2>3 DEF AttachedRest
<1>14. InNodes' = Range(c)
  <2>1. /\ \A it \in ItemsOf(task) : it.node \in Range(c)
        /\ \A n \in Range(c) : \E it \in ItemsOf(task) : it.node = n
    BY DEF WaitsFor, TaskWell
  <2>2. InNodes' = {it.node : it \in InItems'}
    BY DEF InNodes
  <2> QED BY ONLY <1>1, <2>1, <2>2
<1> QED BY <1>1, <1>10, <1>12, <1>13, <1>14 DEF P

-----------------------------------------------------------------------------
(* Its table has the blocks that come in and those to build with.          *)
LEMMA WaitTable ==
    ASSUME IInv, NEW r \in Requests, NEW m, NEW g, NEW c, NEW last, NEW ids, NEW recv, NEW extra,
           NEW s, NEW task, WaitsFor(r, m, g, c, last, ids, recv, extra, s, task)
    PROVE  SwappingInv(r)'
<1> DEFINE P == Range(m)
           d == Len(m)
<1>1. /\ InItems' = ItemsOf(task) /\ PathIn(tree', last) = P /\ InNodes' = Range(c)
  BY WaitAttaches
<1>2. /\ OnPrompt(r, last) /\ P \subseteq node_map /\ tree[last].depth = d /\ d \in Nat
      /\ PathIn(tree, last) = P
      /\ d = Len(Prompt[r]) \/ \A n \in tree[last].kids : tree[n].key # Prompt[r][d + 1]
      /\ last = Root <=> m = << >>
      /\ \A n \in P : tree[n].status \in {"GPU", "SWAP2CPU", "CPU"}
      /\ Range(g) = {n \in P : tree[n].status # "CPU"}
      /\ Range(c) = {n \in P : tree[n].status = "CPU"}
      /\ c \in Seq(node_map) /\ Len(c) \in Nat /\ Len(g) \in Nat /\ Len(g) + Len(c) = d
  BY DEF WaitsFor, MatchedWell
<1>3. \A n \in {Root} \cup Nodes :
          /\ tree'[n].key = tree[n].key /\ tree'[n].depth = tree[n].depth
          /\ tree'[n].block = tree[n].block /\ tree'[n].kids = tree[n].kids
          /\ tree'[n].status = IF n \notin P THEN tree[n].status
                               ELSE IF tree[n].status = "CPU" THEN "SWAP2GPU" ELSE "GPU"
  BY DEF WaitsFor, MatchedTreeWell
<1>4. Rooted(tree, node_map) /\ node_map \subseteq Nodes
  BY InvRooted DEF IInv, TypeOK
<1>5. /\ cache_info'[r] = last /\ table'[r] = s /\ state'[r] = "swapping" /\ node_map' = node_map
      /\ req_leaf_map'[r] = NoNode /\ unfilled'[r] = {}
  BY DEF WaitsFor, IInv, ReqInv, NewInv, TypeOK
<1>6. /\ s \in Seq(GpuBlocks) /\ Len(s) = BlockNum(r)
      /\ {s[i] : i \in 1 .. d} = {tree[n].block : n \in Range(g)} \cup {recv[i] : i \in 1 .. Len(c)}
      /\ \A i \in 1 .. Len(extra) : s[d + i] = extra[i]
  BY DEF WaitsFor, TableWell
<1>7. /\ Len(ids) = BlockNum(r) - Len(g) /\ Len(c) <= Len(ids) /\ Len(ids) \in Nat
      /\ \A i, j \in 1 .. Len(ids) : ids[i] = ids[j] => i = j
      /\ \A i \in 1 .. Len(c) : recv[i] = ids[i]
      /\ Len(extra) = Len(ids) - Len(c)
      /\ \A i \in 1 .. Len(extra) : extra[i] = ids[Len(c) + i]
  BY DEF WaitsFor, AllocatedWell
<1>8. /\ \A it \in ItemsOf(task) : \E i \in 1 .. Len(c) : it.gpu = recv[i]
      /\ \A i \in 1 .. Len(c) : \E it \in ItemsOf(task) : it.gpu = recv[i]
  BY DEF WaitsFor, TaskWell
<1>9. c # << >>
  BY DEF WaitsFor
<1> HIDE DEF P, d
<1>10. tree'[last].depth = d /\ tree'[last].kids = tree[last].kids /\ last \in node_map \cup {Root}
       /\ d <= Len(Prompt[r])
  BY <1>2, <1>3, <1>4 DEF OnPrompt
<1>11. OnPrompt(r, last)'
  <2>1. \A n \in P : tree[n].key = Prompt[r][tree[n].depth]
    BY <1>2 DEF OnPrompt
  <2>2. \A n \in P : tree'[n].key = Prompt[r][tree'[n].depth]
    BY <1>2, <1>3, <1>4, <2>1
  <2>3. PathIn(tree', last) = P /\ last \in node_map' \cup {Root} /\ tree'[last].depth <= Len(Prompt[r])
    BY <1>1, <1>5, <1>10
  <2> QED BY ONLY <2>2, <2>3 DEF OnPrompt
<1>11a. OnPrompt(r, cache_info[r])'
  BY ONLY <1>5, <1>11 DEF OnPrompt
<1>12. last # Root
  <2>1. 1 \in 1 .. Len(c)
    BY <1>2, <1>9
  <2>2. c[1] \in Range(c)
    BY <1>2, <2>1, ItemsRange
  <2>3. P # {}
    BY <1>2, <2>2
  <2>4. PathIn(tree, Root) = {}
    BY <1>4, PathRoot
  <2> QED BY <1>2, <2>3, <2>4
<1>13. \A n \in P : tree'[n].status \in {"GPU", "SWAP2GPU"}
  BY <1>2, <1>3, <1>4
<1>14. InNodes' \subseteq P
  BY <1>1, <1>2
<1>15. d = Len(Prompt[r]) \/ \A n \in tree'[last].kids : tree'[n].key # Prompt[r][d + 1]
  <2>1. \A n \in tree[last].kids : n \in node_map
    BY <1>4, <1>10 DEF Rooted, Linked
  <2> QED BY <1>2, <1>3, <1>4, <1>10, <2>1
<1>15a. \A x \in 1 .. Len(extra) : Len(c) + x \in 1 .. Len(ids) /\ Len(c) + x > Len(c)
  <2>1. Len(extra) = Len(ids) - Len(c) /\ Len(ids) \in Nat /\ Len(c) \in Nat
    BY <1>2, <1>7
  <2> QED BY ONLY <2>1
<1>16. ASSUME NEW i \in d + 1 .. Len(s)
       PROVE  i - d \in 1 .. Len(extra) /\ s[i] = ids[Len(c) + (i - d)]
  <2>1. i - d \in 1 .. Len(extra) /\ d + (i - d) = i
    <3>1. Len(s) \in Nat
      BY <1>6
    <3>2. Len(s) = d + Len(extra)
      <4> HIDE DEF BlockNum
      <4>1. BlockNum(r) \in Nat
        BY <1>6, <3>1
      <4> QED BY ONLY <1>2, <1>6, <1>7, <4>1
    <3> QED BY <1>2, <3>1, <3>2
  <2>2. s[d + (i - d)] = extra[i - d] /\ extra[i - d] = ids[Len(c) + (i - d)]
    BY ONLY <1>6, <1>7, <2>1
  <2> QED BY <2>1, <2>2
<1>17. ASSUME NEW i \in d + 1 .. Len(s), NEW j \in d + 1 .. Len(s), s[i] = s[j]
       PROVE  i = j
  <2>1. /\ i - d \in 1 .. Len(extra) /\ s[i] = ids[Len(c) + (i - d)]
        /\ j - d \in 1 .. Len(extra) /\ s[j] = ids[Len(c) + (j - d)]
    BY <1>16
  <2>2. Len(c) + (i - d) \in 1 .. Len(ids) /\ Len(c) + (j - d) \in 1 .. Len(ids)
    BY ONLY <1>15a, <2>1
  <2>3. Len(c) + (i - d) = Len(c) + (j - d)
    BY <1>7, <1>17, <2>1, <2>2
  <2> QED BY <1>2, <1>6, <2>3
<1>18. ASSUME NEW i \in d + 1 .. Len(s), NEW j \in 1 .. Len(c)
       PROVE  s[i] # recv[j]
  <2>1. i - d \in 1 .. Len(extra) /\ s[i] = ids[Len(c) + (i - d)]
    BY <1>16
  <2>2. Len(c) + (i - d) \in 1 .. Len(ids) /\ Len(c) + (i - d) > Len(c)
    BY ONLY <1>15a, <2>1
  <2>3. j <= Len(c) /\ j \in 1 .. Len(ids) /\ Len(c) \in Nat /\ Len(ids) \in Nat
    BY <1>2, <1>7
  <2>4. Len(c) + (i - d) # j
    BY ONLY <2>2, <2>3
  <2> QED BY ONLY <1>7, <2>1, <2>2, <2>3, <2>4, j \in 1 .. Len(c)
<1>19. /\ \A i, j \in d + 1 .. Len(s) : i # j => s[i] # s[j]
       /\ \A i \in d + 1 .. Len(s) : \A it \in InItems' : s[i] # it.gpu
  BY ONLY <1>1, <1>8, <1>17, <1>18
<1>20. {s[i] : i \in 1 .. d} = {tree'[n].block : n \in {k \in P : tree'[k].status = "GPU"}}
                                  \cup {it.gpu : it \in InItems'}
  <2>1. {k \in P : tree'[k].status = "GPU"} = Range(g)
    BY <1>2, <1>3, <1>4
  <2>2. {it.gpu : it \in InItems'} = {recv[i] : i \in 1 .. Len(c)}
    BY ONLY <1>1, <1>8
  <2>3. \A n \in Range(g) : tree'[n].block = tree[n].block
    BY <1>2, <1>3, <1>4
  <2>4. {tree'[n].block : n \in Range(g)} = {tree[n].block : n \in Range(g)}
    BY ONLY <2>3
  <2> QED BY ONLY <1>6, <2>1, <2>2, <2>4
<1>21. TableSet(r, d)' = {s[i] : i \in 1 .. d}
  BY ONLY <1>5 DEF TableSet, d
<1>22. BlocksAt({n \in PathIn(tree, cache_info[r]) : tree[n].status = "GPU"})'
          = {tree'[n].block : n \in {k \in P : tree'[k].status = "GPU"}}
  BY ONLY <1>1, <1>5 DEF BlocksAt
<1>23. TableSet(r, tree[cache_info[r]].depth)' = BlocksAt({n \in PathIn(tree, cache_info[r]) : tree[n].status = "GPU"})'
          \cup {it.gpu : it \in InItems'}
  <2>1. TableSet(r, tree[cache_info[r]].depth)' = {s[i] : i \in 1 .. d}
    BY ONLY <1>5, <1>10 DEF TableSet
  <2> QED BY ONLY <1>20, <1>22, <2>1
<1>24. /\ req_leaf_map'[r] = NoNode /\ unfilled'[r] = {} /\ cache_info'[r] # Root
       /\ Len(table'[r]) = BlockNum(r)
  BY ONLY <1>5, <1>6, <1>12
<1>25. /\ \A n \in PathIn(tree', cache_info'[r]) : tree'[n].status \in {"GPU", "SWAP2GPU"}
       /\ InNodes' \subseteq PathIn(tree', cache_info'[r])
  BY ONLY <1>1, <1>5, <1>13, <1>14
<1>26. \/ tree'[cache_info'[r]].depth = Len(Prompt[r])
       \/ \A x \in tree'[cache_info'[r]].kids :
              tree'[x].key # Prompt[r][tree'[cache_info'[r]].depth + 1]
  BY ONLY <1>5, <1>10, <1>15
<1>27. /\ \A i, j \in tree'[cache_info'[r]].depth + 1 .. Len(table'[r]) :
             i # j => table'[r][i] # table'[r][j]
       /\ \A i \in tree'[cache_info'[r]].depth + 1 .. Len(table'[r]) :
             \A it \in InItems' : table'[r][i] # it.gpu
  BY ONLY <1>5, <1>10, <1>19
<1>28. SwappingInv(r)'
  BY ONLY <1>11a, <1>23, <1>24, <1>25, <1>26, <1>27 DEF SwappingInv
<1> QED BY <1>28

-----------------------------------------------------------------------------
\* the allocated blocks go from the free list to the request that waits
LEMMA WaitOwns ==
    ASSUME IInv, NEW r \in Requests, NEW m, NEW g, NEW c, NEW last, NEW ids, NEW recv, NEW extra,
           NEW s, NEW task, WaitsFor(r, m, g, c, last, ids, recv, extra, s, task)
    PROVE  OwnedOnce(GpuLayout', GpuOwners, GpuBlocks)
<1> DEFINE F == GpuLayout
           G == GpuLayout'
           p == FreeList
           q == <<"pending", r>>
           S == Range(ids)
           d == Len(m)
<1>1. /\ InItems' = ItemsOf(task) /\ SwapTypes' /\ Waits'
  BY WaitAttaches
<1>2. /\ tree[last].depth = d /\ d \in Nat /\ Len(c) \in Nat /\ Len(g) \in Nat /\ Len(g) + Len(c) = d
      /\ last \in node_map \cup {Root} /\ Range(m) \subseteq node_map
      /\ \A n \in Range(m) : tree[n].status \in {"GPU", "SWAP2CPU", "CPU"}
      /\ \A u \in Requests : state[u] # "swapping"
  BY DEF WaitsFor, MatchedWell, OnPrompt
<1>3. \A n \in {Root} \cup Nodes :
          /\ tree'[n].depth = tree[n].depth /\ tree'[n].block = tree[n].block
          /\ tree'[n].reserved = tree[n].reserved
          /\ tree'[n].status = IF n \notin Range(m) THEN tree[n].status
                               ELSE IF tree[n].status = "CPU" THEN "SWAP2GPU" ELSE "GPU"
  BY DEF WaitsFor, MatchedTreeWell
<1>4. /\ cache_info'[r] = last /\ table'[r] = s /\ node_map' = node_map /\ unfilled' = unfilled
      /\ gpu_free' = gpu_free \ S
      /\ \A u \in Requests : state'[u] = "swapping" <=> u = r
  BY <1>2 DEF WaitsFor, IInv, ReqInv, TypeOK
<1>5. /\ s \in Seq(GpuBlocks) /\ Len(s) = BlockNum(r)
      /\ \A i \in 1 .. Len(extra) : s[d + i] = extra[i]
  BY DEF WaitsFor, TableWell
<1>6. /\ ids \in Seq(gpu_free) /\ Len(ids) = BlockNum(r) - Len(g) /\ Len(c) <= Len(ids) /\ Len(ids) \in Nat
      /\ \A i \in 1 .. Len(c) : recv[i] = ids[i]
      /\ Len(extra) = Len(ids) - Len(c)
      /\ \A i \in 1 .. Len(extra) : extra[i] = ids[Len(c) + i]
  BY DEF WaitsFor, AllocatedWell
<1>7. /\ \A it \in ItemsOf(task) : \E i \in 1 .. Len(c) : it.gpu = recv[i]
      /\ \A i \in 1 .. Len(c) : \E it \in ItemsOf(task) : it.gpu = recv[i]
  BY DEF WaitsFor, TaskWell
<1>8. node_map \subseteq Nodes
  BY DEF IInv, TypeOK
<1>9. S = {ids[i] : i \in 1 .. Len(ids)} /\ S \subseteq gpu_free
  <2>1. Range(ids) = {ids[i] : i \in 1 .. Len(ids)}
    BY <1>6, ItemsRange
  <2> QED BY <1>6, <2>1
<1> HIDE DEF d
<1>10. Pending(r)' = S
  <2>1. Pending(r)' = {table'[r][i] : i \in tree'[cache_info'[r]].depth + 1 .. Len(table'[r])}
                        \cup {it.gpu : it \in InItems'}
    BY <1>1, <1>4, PendingIsNext
  <2>2. tree'[last].depth = d
    BY <1>2, <1>3, <1>8
  <2>3. Pending(r)' = {s[i] : i \in d + 1 .. Len(s)} \cup {it.gpu : it \in ItemsOf(task)}
    BY ONLY <1>1, <1>4, <2>1, <2>2
  <2>4. Len(s) \in Nat /\ Len(s) = d + Len(extra) /\ Len(extra) \in Nat
    <3>1. Len(s) \in Nat
      BY <1>5
    <3> HIDE DEF BlockNum
    <3> QED BY ONLY <1>2, <1>5, <1>6, <3>1
  <2>5. ASSUME NEW i \in d + 1 .. Len(s) PROVE s[i] \in S
    <3>1. i - d \in 1 .. Len(extra) /\ d + (i - d) = i
      BY <1>2, <2>4
    <3>2. s[i] = extra[i - d] /\ extra[i - d] = ids[Len(c) + (i - d)]
      BY ONLY <1>5, <1>6, <3>1
    <3>3. Len(c) + (i - d) \in 1 .. Len(ids)
      BY ONLY <1>2, <1>6, <3>1
    <3> QED BY <1>9, <3>2, <3>3
  <2>6. ASSUME NEW it \in ItemsOf(task) PROVE it.gpu \in S
    <3>1. PICK i \in 1 .. Len(c) : it.gpu = recv[i]
      BY <1>7
    <3>2. i \in 1 .. Len(ids)
      BY <1>2, <1>6
    <3> QED BY <1>6, <1>9, <3>1, <3>2
  <2>7. ASSUME NEW i \in 1 .. Len(ids)
        PROVE  \/ \E j \in d + 1 .. Len(s) : ids[i] = s[j]
               \/ \E it \in ItemsOf(task) : ids[i] = it.gpu
    <3>1. CASE i <= Len(c)
      <4>1. i \in 1 .. Len(c)
        BY <1>2, <3>1
      <4> QED BY <1>6, <1>7, <4>1
    <3>2. CASE ~(i <= Len(c))
      <4>1. i - Len(c) \in 1 .. Len(extra) /\ Len(c) + (i - Len(c)) = i
        BY ONLY <1>2, <1>6, <3>2, i \in 1 .. Len(ids)
      <4>2. s[d + (i - Len(c))] = extra[i - Len(c)] /\ extra[i - Len(c)] = ids[i]
        BY ONLY <1>5, <1>6, <4>1
      <4>3. d + (i - Len(c)) \in d + 1 .. Len(s)
        BY ONLY <1>2, <2>4, <4>1
      <4> QED BY <4>2, <4>3
    <3> QED BY <3>1, <3>2
  <2> HIDE DEF S
  <2> QED BY ONLY <1>9, <2>3, <2>5, <2>6, <2>7
<1>11. \A u \in Requests : Pending(u) = {}
  BY <1>2, PendingIs DEF IInv
<1>12. \A u \in Requests : u # r => Pending(u)' = {}
  BY <1>1, <1>4, PendingIsNext
<1>13. ASSUME NEW n \in Nodes
       PROVE  G[<<"node", n>>] = F[<<"node", n>>] /\ G[<<"reserved", n>>] = F[<<"reserved", n>>]
  <2>1. n \in Resident' <=> n \in Resident
    BY <1>2, <1>3, <1>4 DEF Resident
  <2>2. /\ G[<<"node", n>>] = IF n \in Resident' THEN {tree'[n].block} ELSE {}
        /\ G[<<"reserved", n>>] = IF n \in node_map' THEN tree'[n].reserved ELSE {}
    BY GpuLayoutNext
  <2>3. /\ F[<<"node", n>>] = IF n \in Resident THEN {tree[n].block} ELSE {}
        /\ F[<<"reserved", n>>] = IF n \in node_map THEN tree[n].reserved ELSE {}
    BY GpuLayoutIs
  <2> QED BY ONLY <1>3, <1>4, <2>1, <2>2, <2>3, n \in Nodes
<1>14. \A u \in Requests : /\ G[<<"unfilled", u>>] = F[<<"unfilled", u>>]
                           /\ u # r => G[<<"pending", u>>] = F[<<"pending", u>>]
  <2> SUFFICES ASSUME NEW u \in Requests
               PROVE  /\ G[<<"unfilled", u>>] = F[<<"unfilled", u>>]
                      /\ u # r => G[<<"pending", u>>] = F[<<"pending", u>>]
    OBVIOUS
  <2>1. F[<<"unfilled", u>>] = unfilled[u] /\ F[<<"pending", u>>] = Pending(u)
    BY GpuLayoutIs
  <2>2. G[<<"unfilled", u>>] = unfilled'[u] /\ G[<<"pending", u>>] = Pending(u)'
    BY GpuLayoutNext
  <2> HIDE DEF F, G
  <2> QED BY ONLY <1>4, <1>11, <1>12, <2>1, <2>2, u \in Requests
<1>15. G[p] = F[p] \ S /\ S \subseteq F[p] /\ F[q] = {} /\ G[q] = S /\ p \in GpuOwners /\ q \in GpuOwners
  BY <1>4, <1>9, <1>10, <1>11, GpuLayoutIs, GpuLayoutNext
<1>16. p # q
  BY GpuOwnersDiffer
<1>17. \A o \in GpuOwners : o # p /\ o # q => G[o] = F[o]
  <2> SUFFICES ASSUME NEW o \in GpuOwners, o # p, o # q PROVE G[o] = F[o]
    OBVIOUS
  <2>1. o # FreeList /\ o # <<"pending", r>>
    OBVIOUS
  <2> HIDE DEF F, G, p, q
  <2> QED BY ONLY <1>13, <1>14, <2>1, o \in GpuOwners, GpuOwnerIs
<1>18. OwnedOnce(F, GpuOwners, GpuBlocks)
  BY DEF IInv, OwnInv
<1>19. G[q] = F[q] \cup S
  BY <1>15
<1> HIDE DEF F, G, p, q, S
<1>20. OwnedOnce(G, GpuOwners, GpuBlocks)
  BY ONLY <1>15, <1>16, <1>17, <1>18, <1>19, HandedOver
<1> QED BY <1>20 DEF G

(* The waiting request keeps the invariant.                                *)
LEMMA WaitKeeps ==
    ASSUME IInv, NEW r \in Requests, NEW m, NEW g, NEW c, NEW last, NEW ids, NEW recv, NEW extra,
           NEW s, NEW task, WaitsFor(r, m, g, c, last, ids, recv, extra, s, task)
    PROVE  IInv'
<1> DEFINE P == Range(m)
<1>1. /\ AttachedTree(r, P, {}) /\ AttachedRest(r, P)
      /\ InFlight' = InFlight \cup {task} /\ InItems' = ItemsOf(task) /\ OutItems' = OutItems
      /\ SwapTypes' /\ OneTask' /\ Waits' /\ InNodes' = Range(c)
  BY WaitAttaches
<1>2. SwappingInv(r)'
  BY WaitTable
<1>3. OwnedOnce(GpuLayout', GpuOwners, GpuBlocks)
  BY WaitOwns
<1>4. /\ P \subseteq node_map /\ c \in Seq(node_map) /\ last \in node_map \cup {Root}
      /\ Range(c) = {n \in P : tree[n].status = "CPU"}
  BY DEF WaitsFor, MatchedWell, OnPrompt
<1>5. /\ state[r] = "new" /\ holder = Nobody /\ c # << >>
      /\ gpu_free' = gpu_free \ Range(ids) /\ cpu_free' = cpu_free
      /\ gpu_lru' = gpu_lru \ P /\ cpu_lru' = cpu_lru \ P
      /\ table' = [table EXCEPT ![r] = s] /\ s \in Seq(GpuBlocks)
      /\ holder' = r /\ cache_info' = [cache_info EXCEPT ![r] = last]
      /\ state' = [state EXCEPT ![r] = "swapping"]
      /\ node_map' = node_map /\ req_leaf_map' = req_leaf_map /\ unfilled' = unfilled
      /\ releases' = releases /\ future' = future /\ victims' = victims /\ freed' = freed
  BY DEF WaitsFor, evictVars, TableWell
<1>6. tree' \in [{Root} \cup Nodes -> NodeRecord]
      /\ \A n \in {Root} \cup Nodes :
            /\ tree'[n].block = tree[n].block
            /\ tree'[n].status = IF n \notin P THEN tree[n].status
                                 ELSE IF tree[n].status = "CPU" THEN "SWAP2GPU" ELSE "GPU"
  BY DEF WaitsFor, MatchedTreeWell
<1>7. /\ Distinct(task.items)
      /\ \A it \in ItemsOf(task) : it.node \in Range(c) /\ it.cpu = tree[it.node].block
  BY DEF WaitsFor, TaskWell
<1> HIDE DEF P
<1>8. /\ TreeInv' /\ CountInv' /\ UsedInv' /\ LruInv'
      /\ \A q \in Requests : q # r => NewInv(q)' /\ SwappingInv(q)' /\ AdmittedInv(q)' /\ RunningInv(q)'
  BY <1>1, AttachedTreeKeeps
<1>9. /\ VictimsInv' /\ StatusInv'
      /\ \A it \in OutItems' : /\ it.node \in node_map'
                               /\ tree'[it.node].status \in {"SWAP2CPU", "GPU"}
                               /\ tree'[it.node].block = it.gpu
      /\ OwnedOnce(CpuLayout', CpuOwners, CpuBlocks)
  <2>1. \A n \in P : tree[n].status = "CPU" => n \in InNodes'
    BY <1>1, <1>4
  <2> QED BY <1>1, <2>1, AttachedStates
<1>10. node_map \subseteq Nodes
  BY DEF IInv, TypeOK
<1>11. TypeOK'
  <2>1. TypeOK
    BY DEF IInv
  <2>2. cache_info' \in [Requests -> {Root, NoNode} \cup Nodes]
    BY <1>4, <1>5, <1>10, <2>1 DEF TypeOK
  <2>3. gpu_lru' \subseteq Nodes /\ cpu_lru' \subseteq Nodes /\ gpu_free' \subseteq GpuBlocks
    BY <1>5, <2>1 DEF TypeOK
  <2> QED BY ONLY <1>5, <1>6, <2>1, <2>2, <2>3, r \in Requests DEF TypeOK
<1>12. ItemsInv'
  <2>1. \A t \in InFlight' : Distinct(t.items)
    BY <1>1, <1>7 DEF IInv, ItemsInv
  <2>2. ASSUME NEW it \in InItems'
        PROVE  /\ it.node \in node_map' /\ tree'[it.node].status = "SWAP2GPU"
               /\ tree'[it.node].block = it.cpu
    <3>1. it.node \in P /\ tree[it.node].status = "CPU" /\ it.cpu = tree[it.node].block
      BY <1>1, <1>4, <1>7, <2>2
    <3> QED BY <1>4, <1>5, <1>6, <1>10, <3>1
  <2> QED BY ONLY <1>9, <2>1, <2>2 DEF ItemsInv
<1>13. ~WithoutCpu
  <2>1. 1 \in 1 .. Len(c) /\ Len(c) \in Nat
    BY <1>4, <1>5
  <2>2. c[1] \in Range(c)
    BY <1>4, <2>1, ItemsRange
  <2>3. c[1] \in node_map /\ tree[c[1]].status = "CPU"
    BY <1>4, <2>2
  <2> QED BY <2>3 DEF IInv, PhaseInv
<1>14. holder' \notin {Nobody, "free_gpu", "free_cpu"}
  BY <1>5, NamesAssumption
<1>15. PhaseInv'
  <2>1. PhaseInv
    BY DEF IInv
  <2>2. WithoutCpu' <=> WithoutCpu
    BY DEF WithoutCpu
  <2> QED BY ONLY <1>5, <1>13, <1>14, <2>1, <2>2, NamesAssumption DEF PhaseInv, NamesAssumption
<1>16. RoomInv'
  <2>1. RoomInv
    BY DEF IInv
  <2> QED BY ONLY <1>5, <1>14, <2>1 DEF RoomInv
<1>17. ReqInv'
  <2>1. ReqInv
    BY DEF IInv
  <2>2. state' \in [Requests -> {"new", "swapping", "running", "ended"}] /\ state'[r] = "swapping"
    BY <1>5, <2>1 DEF ReqInv
  <2>3. table' \in [Requests -> Seq(GpuBlocks)]
    BY <1>5, <2>1 DEF ReqInv
  <2>4. \A i \in DOMAIN releases' : state'[releases'[i]] = "ended"
    <3>1. \A i \in DOMAIN releases : state[releases[i]] = "ended"
      BY <2>1 DEF ReqInv
    <3>2. \A i \in DOMAIN releases : releases[i] \in Requests
      BY DEF IInv, TypeOK
    <3>3. \A q \in Requests : q # r => state'[q] = state[q]
      BY <1>5, <2>1 DEF ReqInv
    <3> QED BY ONLY <1>5, <3>1, <3>2, <3>3
  <2>5. NewInv(r)' /\ AdmittedInv(r)' /\ RunningInv(r)'
    BY <2>2 DEF NewInv, AdmittedInv, RunningInv
  <2>6. \A q \in Requests : NewInv(q)' /\ SwappingInv(q)' /\ AdmittedInv(q)' /\ RunningInv(q)'
    BY ONLY <1>2, <1>8, <2>5
  <2> QED BY ONLY <2>2, <2>3, <2>4, <2>6 DEF ReqInv
<1>18. OwnInv'
  BY <1>3, <1>9 DEF OwnInv, GpuOwners, CpuOwners, GpuBlocks, CpuBlocks
<1> QED BY <1>1, <1>8, <1>9, <1>11, <1>12, <1>15, <1>16, <1>17, <1>18 DEF IInv

(* request_block_ids, at once or after a swap.                             *)
LEMMA RequestBlockIdsKeeps == ASSUME IInv, NEW r \in Requests, RequestBlockIds(r) PROVE IInv'
<1>1. CASE MatchedCpu(r) = << >>
  BY <1>1, AtOnceKeeps
<1>2. CASE MatchedCpu(r) # << >>
  <2>1. PICK m, g, c, last, ids, recv, extra, s, task :
            WaitsFor(r, m, g, c, last, ids, recv, extra, s, task)
    BY <1>2, WaitStarts
  <2> QED BY <2>1, WaitKeeps
<1> QED BY <1>1, <1>2

-----------------------------------------------------------------------------
(* The request that waited goes on, and with it every step of Next.        *)

\* the swap that r waits for is done
SwapDone(r) ==
    /\ result # << >> /\ result[1].items = << >> /\ result[1].for = r
    /\ result' = << >> /\ holder' = Nobody
    /\ state' = [state EXCEPT ![r] = "running"]
    /\ transfers' = transfers /\ victims' = victims /\ future' = future

(* The request of the task goes on, and nothing is swapped in.             *)
LEMMA SwapDoneFacts ==
    ASSUME IInv, NEW r \in Requests, SwapDone(r)
    PROVE  /\ holder = r /\ state[r] = "swapping" /\ SwappingInv(r)
           /\ \A q \in Requests : q # r => state[q] # "swapping"
           /\ InItems = {} /\ InNodes = {} /\ InItems' = {} /\ OutItems' = OutItems
           /\ InFlight' \subseteq InFlight
           /\ SwapTypes' /\ OneTask' /\ Waits'
<1>1. SwapTypes /\ OneTask /\ Waits /\ state \in [Requests -> {"new", "swapping", "running", "ended"}]
  BY DEF IInv, ReqInv
<1>2. /\ result # << >> /\ result[1].items = << >> /\ result[1].for = r
      /\ result' = << >> /\ holder' = Nobody /\ state' = [state EXCEPT ![r] = "running"]
      /\ transfers' = transfers /\ victims' = victims /\ future' = future
  BY DEF SwapDone
<1>3. /\ result[1] \in InFlight /\ result[1] \notin transfers
      /\ InFlight = transfers \cup {result[1]} /\ \A t \in transfers : t.for # r
  BY <1>2, ResultIs
<1>4. holder = r
  BY <1>1, <1>2, <1>3 DEF Waits
<1>5. /\ state[r] = "swapping" /\ SwappingInv(r)
      /\ \A q \in Requests : q # r => state[q] # "swapping"
      /\ \A t \in InFlight : t.for = r <=> t.for # Nobody
  BY <1>4, SwappingIs
<1>6. InItems = {} /\ InNodes = {}
  <2>1. {u \in InFlight : u.for # Nobody} = {result[1]}
    BY <1>2, <1>3, <1>5
  <2>2. ItemsOf(result[1]) = {}
    BY <1>2 DEF ItemsOf, Range
  <2>3. InItems = {}
    BY <2>1, <2>2 DEF InItems
  <2> QED BY <2>3 DEF InNodes
<1>7. /\ InFlight' = transfers /\ InItems' = InItems /\ OutItems' = OutItems
      /\ SwapTypes' /\ OneTask'
  BY <1>2, ResultGone
<1>8. Waits'
  <2>1. (\E t \in InFlight' : t.for = Nobody) <=> (\E t \in InFlight : t.for = Nobody)
    BY <1>2, <1>3, <1>7, NamesAssumption
  <2>2. \A q \in Requests : state'[q] # "swapping" /\ holder' # q
    BY <1>1, <1>2, <1>5, NamesAssumption
  <2>3. \A q \in Requests : ~ \E t \in InFlight' : t.for = q
    BY <1>3, <1>5, <1>7, NamesAssumption
  <2> QED BY ONLY <1>1, <1>2, <2>1, <2>2, <2>3 DEF Waits
<1> QED BY <1>3, <1>4, <1>5, <1>6, <1>7, <1>8

(* The request that waited builds the rest of its path and runs.           *)
LEMMA SwappedInKeeps == ASSUME IInv, NEW r \in Requests, SwappedIn(r) PROVE IInv'
<1> DEFINE last == cache_info[r]
           P == PathIn(tree, last)
           from == tree[last].depth
           T == table[r]
           extra == SubSeq(T, from + 1, Len(T))
<1>1. /\ result # << >> /\ result[1].items = << >> /\ result[1].for = r
      /\ result' = << >> /\ BuildPath(tree, r, last, from, extra, Dec)
      /\ cache_info' = [cache_info EXCEPT ![r] = NoNode] /\ holder' = Nobody
      /\ state' = [state EXCEPT ![r] = "running"]
      /\ gpu_free' = gpu_free /\ cpu_free' = cpu_free /\ gpu_lru' = gpu_lru /\ cpu_lru' = cpu_lru
      /\ releases' = releases /\ UNCHANGED evictVars /\ transfers' = transfers /\ table' = table
      /\ victims' = victims /\ future' = future
  BY DEF SwappedIn, poolVars, evictVars
<1>2. /\ holder = r /\ state[r] = "swapping" /\ SwappingInv(r)
      /\ \A q \in Requests : q # r => state[q] # "swapping"
      /\ InItems = {} /\ InNodes = {} /\ InItems' = {} /\ OutItems' = OutItems
      /\ InFlight' \subseteq InFlight
      /\ SwapTypes' /\ OneTask' /\ Waits'
  <2>1. SwapDone(r)
    BY <1>1 DEF SwapDone
  <2> QED BY <2>1, SwapDoneFacts
<1>3. /\ req_leaf_map[r] = NoNode
      /\ OnPrompt(r, last) /\ Len(T) = BlockNum(r)
      /\ \A n \in P : tree[n].status \in {"GPU", "SWAP2GPU"}
      /\ from = Len(Prompt[r]) \/ \A m \in tree[last].kids : tree[m].key # Prompt[r][from + 1]
      /\ \A i, j \in from + 1 .. Len(T) : i # j => T[i] # T[j]
      /\ TableSet(r, from) = BlocksAt({n \in P : tree[n].status = "GPU"}) \cup {it.gpu : it \in InItems}
  BY <1>2 DEF SwappingInv
<1>4. /\ T \in Seq(GpuBlocks) /\ table \in [Requests -> Seq(GpuBlocks)]
      /\ tree \in [{Root} \cup Nodes -> NodeRecord] /\ node_map \subseteq Nodes
      /\ cache_info \in [Requests -> {Root, NoNode} \cup Nodes]
      /\ state \in [Requests -> {"new", "swapping", "running", "ended"}] /\ gpu_free \subseteq GpuBlocks
  BY DEF IInv, ReqInv, TypeOK
<1>5. Rooted(tree, node_map)
  BY InvRooted
<1>6. last \in node_map \cup {Root} /\ from \in Nat /\ from <= Len(Prompt[r]) /\ P \subseteq node_map
  <2>1. last \in node_map \cup {Root} /\ from <= Len(Prompt[r])
    BY <1>3 DEF OnPrompt
  <2>2. PathShape(tree, node_map, last)
    BY <1>5, <2>1, PathShapes
  <2>3. P \subseteq node_map
    BY <2>2 DEF PathShape
  <2>4. from \in Nat
    BY <1>5, <2>1 DEF Rooted
  <2> QED BY <2>1, <2>3, <2>4
<1>7. from <= Len(T) /\ Len(T) \in Nat
  <2>1. Prompt[r] \in Seq(Range(Prompt[r]))
    BY CacheAssumption
  <2>2. Len(Prompt[r]) \in Nat
    BY <2>1, LenProperties
  <2>3. BlockNum(r) >= Len(Prompt[r]) /\ BlockNum(r) \in Nat
    <3>1. CASE r \in Unfilled
      BY <2>2, <3>1, DecAssumption DEF BlockNum
    <3>2. CASE r \notin Unfilled
      BY <2>2, <3>2, DecAssumption DEF BlockNum
    <3> QED BY <3>1, <3>2
  <2> HIDE DEF from, T
  <2> QED BY ONLY <1>3, <1>6, <2>2, <2>3
<1> HIDE DEF last, P, from, T, extra
<1>8. /\ extra \in Seq(GpuBlocks) /\ Len(extra) = Len(T) - from
      /\ \A i \in 1 .. Len(extra) : extra[i] = T[from + i]
  <2>1. extra = SubSeq(T, from + 1, Len(T))
    BY DEF extra
  <2>2. /\ SubSeq(T, from + 1, Len(T)) \in Seq(GpuBlocks) /\ Len(SubSeq(T, from + 1, Len(T))) = Len(T) - from
        /\ \A i \in 1 .. Len(T) - from : SubSeq(T, from + 1, Len(T))[i] = T[from + i]
    BY ONLY <1>4, <1>6, <1>7, SubSeqOf
  <2> QED BY ONLY <2>1, <2>2
<1>9. \A i \in 1 .. Len(extra) : from + i \in from + 1 .. Len(T)
  BY ONLY <1>6, <1>7, <1>8
<1>10. \A i, j \in 1 .. Len(extra) : extra[i] = extra[j] => i = j
  <2> SUFFICES ASSUME NEW i \in 1 .. Len(extra), NEW j \in 1 .. Len(extra), extra[i] = extra[j]
               PROVE  i = j
    OBVIOUS
  <2>1. from + i \in from + 1 .. Len(T) /\ from + j \in from + 1 .. Len(T)
    BY ONLY <1>9, i \in 1 .. Len(extra), j \in 1 .. Len(extra)
  <2>2. T[from + i] = T[from + j]
    BY ONLY <1>8, extra[i] = extra[j], i \in 1 .. Len(extra), j \in 1 .. Len(extra)
  <2>3. from + i = from + j
    BY ONLY <1>3, <2>1, <2>2
  <2> QED BY ONLY <1>6, <2>3, i \in 1 .. Len(extra), j \in 1 .. Len(extra)
<1>11. \A n \in P : tree[n].status = "GPU"
  <2>1. \A n \in node_map : tree[n].status = "SWAP2GPU" => n \in InNodes
    BY DEF IInv, StatusInv
  <2> QED BY <1>2, <1>3, <1>6, <2>1
<1>12. \A n : Uses(r, n) <=> n \in P
  BY <1>2, <1>3, UsesPaths DEF P, last
<1>13. Joins(r, tree, last, from, extra)
  <2>1. tree[last].depth = from /\ PathIn(tree, last) = P
    BY DEF from, P
  <2>2. \A n \in node_map \cup {Root} :
            /\ tree[n].status = IF n \in P THEN "GPU" ELSE tree[n].status
            /\ tree[n].shared = IF n \in P /\ ~Uses(r, n) THEN tree[n].shared + 1 ELSE tree[n].shared
    BY <1>11, <1>12
  <2> QED BY ONLY <1>2, <1>3, <1>4, <1>6, <1>8, <1>10, <1>11, <1>12, <2>1, <2>2 DEF Joins, BlockNum
<1>14. PICK new, k, leaf : Built(tree, r, last, from, extra, new, k, leaf)
  BY <1>1, <1>13, JoinsBuilds
<1>15. from + k = Len(Prompt[r]) /\ k \in Nat /\ k <= Len(extra) /\ Len(extra) \in Nat
  BY <1>14 DEF Built
<1>16. Admits(r, last, from, extra)
  <2>1. cache_info' \in [Requests -> {Root, NoNode} \cup Nodes] /\ cache_info'[r] = NoNode
    BY <1>1, <1>4
  <2>2. table'[r] = T
    BY <1>1 DEF T
  <2>3. {T[i] : i \in 1 .. from} = {tree[n].block : n \in P}
    <3>1. {n \in P : tree[n].status = "GPU"} = P
      BY <1>11
    <3>2. TableSet(r, from) = {T[i] : i \in 1 .. from}
      BY DEF TableSet, T
    <3>3. BlocksAt({n \in P : tree[n].status = "GPU"}) = {tree[n].block : n \in P}
      BY ONLY <3>1 DEF BlocksAt
    <3>4. {it.gpu : it \in InItems} = {}
      BY <1>2
    <3> QED BY ONLY <1>3, <3>2, <3>3, <3>4
  <2>4. {table'[r][i] : i \in 1 .. from} = {tree[n].block : n \in PathIn(tree, last)}
    <3>1. P = PathIn(tree, last)
      BY DEF P
    <3> QED BY ONLY <2>2, <2>3, <3>1
  <2>5. \A i \in 1 .. Len(Prompt[r]) - from : table'[r][from + i] = extra[i]
    <3>1. Len(Prompt[r]) - from = k
      BY ONLY <1>6, <1>15
    <3>2. \A i \in 1 .. k : i \in 1 .. Len(extra)
      BY ONLY <1>15
    <3> QED BY ONLY <1>8, <2>2, <3>1, <3>2
  <2>6. /\ \A u \in InFlight' : Distinct(u.items)
        /\ WithoutCpu => InFlight' = {}
    BY <1>2 DEF IInv, ItemsInv, PhaseInv
  <2> QED BY <1>1, <1>2, <1>4, <2>1, <2>4, <2>5, <2>6 DEF Admits
<1>17. AttachedRest(r, P)
  <2>1. /\ req_leaf_map' = [req_leaf_map EXCEPT ![r] = leaf]
        /\ unfilled' = [unfilled EXCEPT ![r] = IF leaf = Root THEN Spare(k, extra) ELSE @]
    BY <1>14 DEF Built
  <2>2. ASSUME NEW q \in Requests, q # r
        PROVE  /\ state[q] # "swapping" /\ state'[q] = state[q] /\ table'[q] = table[q]
               /\ unfilled'[q] = unfilled[q] /\ req_leaf_map'[q] = req_leaf_map[q]
               /\ cache_info'[q] = cache_info[q]
    BY <1>1, <1>2, <2>1, <2>2 DEF IInv, ReqInv, TypeOK
  <2>3. \A n \in P : tree[n].shared # 0
    BY <1>6, <1>12, Unused
  <2>4. gpu_lru' = gpu_lru \ P /\ cpu_lru' = cpu_lru \ P
    BY <1>1, <2>3 DEF IInv, LruInv
  <2>5. holder \notin {"free_gpu", "free_cpu"} /\ holder' # "free_gpu"
    BY <1>1, <1>2, NamesAssumption
  <2> QED BY <1>1, <1>2, <2>2, <2>4, <2>5 DEF AttachedRest
<1>18. OwnedOnce(GpuLayout', GpuOwners, GpuBlocks)
  <2> DEFINE p == <<"pending", r>>
             S == {extra[i] : i \in 1 .. Len(extra)}
  <2>1. Pending(r) = S
    <3>1. Pending(r) = {T[i] : i \in from + 1 .. Len(T)} \cup {it.gpu : it \in InItems}
      BY <1>2, PendingIs DEF IInv, T, from, last
    <3>2. \A i \in from + 1 .. Len(T) : i - from \in 1 .. Len(extra) /\ from + (i - from) = i
      BY ONLY <1>6, <1>7, <1>8
    <3>3. \A i \in from + 1 .. Len(T) : T[i] = extra[i - from]
      BY ONLY <1>8, <3>2
    <3>4. \A i \in from + 1 .. Len(T) : T[i] \in S
      BY <3>2, <3>3
    <3>5. \A i \in 1 .. Len(extra) : extra[i] \in {T[j] : j \in from + 1 .. Len(T)}
      BY ONLY <1>8, <1>9
    <3>6. S = {T[i] : i \in from + 1 .. Len(T)}
      BY <3>4, <3>5
    <3> HIDE DEF S
    <3> QED BY <1>2, <3>1, <3>6
  <2>2. \A q \in Requests : q # r => Pending(q) = {}
    BY <1>2, PendingIs DEF IInv
  <2>3. \A q \in Requests : state'[q] # "swapping"
    BY <1>1, <1>2, <1>4
  <2>4. \A q \in Requests : Pending(q)' = {}
    BY <1>2, <2>3, PendingIsNext
  <2>5. GpuLayout[FreeList] = gpu_free /\ GpuLayout'[FreeList] = gpu_free'
    BY GpuLayoutIs, GpuLayoutNext
  <2>6. \A q \in Requests : /\ GpuLayout[<<"pending", q>>] = Pending(q)
                            /\ GpuLayout'[<<"pending", q>>] = Pending(q)'
    BY GpuLayoutIs, GpuLayoutNext
  <2>7. p \in {FreeList, <<"pending", r>>} /\ \A q \in Requests : <<"pending", q>> # p => q # r
    OBVIOUS
  <2>8. GpuLayout[p] = S /\ GpuLayout'[p] = {}
    BY <2>1, <2>4, <2>6
  <2>9. HandsIds(r, p, extra)
    <3>1. S \subseteq GpuLayout[p] /\ GpuLayout'[p] = GpuLayout[p] \ S
      BY <2>8
    <3>2. GpuLayout'[FreeList] = GpuLayout[FreeList]
      BY <1>1, <2>5
    <3>3. \A q \in Requests : <<"pending", q>> # p =>
              GpuLayout'[<<"pending", q>>] = GpuLayout[<<"pending", q>>]
      BY <2>2, <2>4, <2>6, <2>7
    <3> QED BY <3>1, <3>2, <3>3 DEF HandsIds
  <2> HIDE DEF p
  <2> QED BY ONLY IInv, r \in Requests, <1>13, <1>14, <1>16, <2>7, <2>9, AdmitOwns
<1>19. AttachedRest(r, PathIn(tree, last))
  BY <1>17 DEF P
<1> QED BY ONLY IInv, r \in Requests, <1>13, <1>14, <1>16, <1>18, <1>19, AdmitKeeps

(* A stuttering step.                                                      *)
LEMMA StutterKeeps == ASSUME IInv, UNCHANGED vars PROVE IInv'
<1>1. InFlight' = InFlight /\ InItems' = InItems /\ OutItems' = OutItems
  BY DEF vars, cacheVars, swapVars, InFlight, InItems, OutItems, ItemsOf
<1>2. /\ TreeInv' /\ ReqInv' /\ CountInv' /\ LruInv' /\ UsedInv'
      /\ ItemsInv' /\ StatusInv' /\ OwnInv'
  BY <1>1, QuietSwaps DEF vars, cacheVars, poolVars, treeVars, reqVars, evictVars
<1>3. TypeOK' /\ SwapTypes' /\ OneTask' /\ Waits' /\ VictimsInv' /\ PhaseInv' /\ RoomInv'
  BY <1>1 DEF IInv, TypeOK, SwapTypes, OneTask, Waits, VictimsInv, PhaseInv, RoomInv, WithoutCpu,
         vars, cacheVars, poolVars, treeVars, reqVars, evictVars, swapVars
<1> QED BY <1>2, <1>3 DEF IInv

(* Every step keeps the invariant.                                         *)
LEMMA NextKeeps == IInv /\ [Next]_vars => IInv'
<1> SUFFICES ASSUME IInv, [Next]_vars PROVE IInv'
  OBVIOUS
<1>1. CASE Own(ReleaseBlockIds)
  BY <1>1, ReleaseKeeps
<1>2. CASE Own(FreeStart) \/ Own(FreeVictim) \/ Own(FreeEnd)
  BY <1>2, FreeStartKeeps, FreeVictimKeeps, FreeEndKeeps
<1>3. CASE Own(FreeCpuStart) \/ Own(FreeCpuVictim) \/ Own(FreeCpuEnd)
  BY <1>3, FreeCpuStartKeeps, FreeCpuVictimKeeps, FreeCpuEndKeeps
<1>4. CASE Own(EvictCacheAsync)
  BY <1>4, EvictKeeps
<1>5. CASE Own(TakeResult) \/ Own(HandleSwapResult) \/ Own(EvictionDone)
  BY <1>5, TakeResultKeeps, HandleSwapResultKeeps, EvictionDoneKeeps
<1>6. ASSUME NEW r \in Requests, RequestBlockIds(r) \/ SwappedIn(r) \/ Recycle(r)
      PROVE  IInv'
  BY <1>6, RequestBlockIdsKeeps, SwappedInKeeps, RecycleKeeps
<1>7. CASE UNCHANGED vars
  BY <1>7, StutterKeeps
<1> QED BY <1>1, <1>2, <1>3, <1>4, <1>5, <1>6, <1>7 DEF Next

(* The invariant holds in every state of the prefix cache: for all pools,  *)
(* prompts and block sizes, whatever the order of requests, releases, free *)
(* threads, evictions and swap results.                                    *)
THEOREM Invariant == Spec => []IInv
<1>1. Init => IInv
  BY InitInv
<1>2. IInv /\ [Next]_vars => IInv'
  BY NextKeeps
<1> QED BY <1>1, <1>2, PTL DEF Spec

(* Every variable keeps its type: what refers to a node refers to one of   *)
(* the node ids, what refers to a block to one of the pool.                *)
THEOREM TypeCorrect == Spec => []TypeOK
<1>1. IInv => TypeOK
  BY DEF IInv
<1> QED BY <1>1, Invariant, PTL

(* Each GPU block is free, or in one node, or reserved by one node, or     *)
(* with one request, or on its way to one: request_block_ids never hands   *)
(* out a block that another still has, and no path of release_block_ids,   *)
(* free_block_ids_async or recv_data_transfer_result frees one twice or    *)
(* loses one.                                                              *)
THEOREM GpuBlocksSafe == Spec => []GpuBlocksOwnedOnce
  BY Invariant, GpuOnce, PTL

(* The same of CPU blocks: each is free, or in one node, or the target of  *)
(* one item of the eviction's swap.                                        *)
THEOREM CpuBlocksSafe == Spec => []CpuBlocksOwnedOnce
  BY Invariant, CpuOnce, PTL

(* shared_count, raised by request_block_ids and lowered by                *)
(* release_block_ids, is the number of requests that use the node, at      *)
(* every moment between.                                                   *)
THEOREM CountsRight == Spec => []SharedCountsUsers
  BY Invariant, CountsUsers, PTL

(* While a request runs, the blocks of its prompt are those of its path in *)
(* the tree, all on the GPU: no eviction or swap takes one away from under *)
(* it.                                                                     *)
THEOREM PromptsSafe == Spec => []PromptBlocksKept
  BY Invariant, PromptKept, PTL

(* An unused leaf is in the heap of its medium, so that the free threads   *)
(* can find it whatever call made it a leaf.                               *)
THEOREM LeavesFound == Spec => []UnusedLeavesEvictable
  BY Invariant, LeavesEvictable, PTL

(* When _evict_cache_async allocates CPU blocks, as many are free as it    *)
(* has victims, and free_cpu_block_ids never comes back with too few.      *)
THEOREM EvictionSafe == Spec => []EvictionFindsRoom
  BY Invariant, RoomFound, PTL

=============================================================================
