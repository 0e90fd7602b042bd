-------------------------- MODULE ResourceManagerV1 --------------------------
(***************************************************************************)
(* fastdeploy/engine/sched/resource_manager_v1.py: the scheduler that      *)
(* batches requests continuously over a pool of GPU KV-cache blocks and a  *)
(* fixed number of batch positions, and preempts requests when blocks run  *)
(* out.  Prefix caching and multimodal inputs are off, so the pool is the  *)
(* plain free list of PrefixCacheManager.                                  *)
(*                                                                         *)
(* schedule() runs under self.lock.  It is modelled as one step per pass   *)
(* of its loops; while it runs (spc is not "idle" or "send") no other step *)
(* that takes the lock is enabled, but the token processor, which appends  *)
(* output tokens without the lock, still runs.                             *)
(*                                                                         *)
(* A block table is the set of its blocks; a request's tokens are counted. *)
(***************************************************************************)
EXTENDS Integers, Sequences, FiniteSets

CONSTANTS
    Requests,       \* requests that may arrive
    Prompt,         \* request -> prompt_token_ids_len
    NumBlocks,      \* total_block_num of the pool
    BlockSize,      \* block_size
    MaxSeqs,        \* max_num_seqs: batch positions
    Budget,         \* max_num_batched_tokens
    EncDec,         \* enc_dec_block_num: blocks given to a decoding request
    Threshold,      \* prealloc_dec_block_slot_num_threshold
    NoReq,          \* None in tasks_list
    NoSlot          \* None in request.idx

Blocks == 0 .. NumBlocks - 1
Slots == 0 .. MaxSeqs - 1

ASSUME PoolAssumption ==
    /\ NumBlocks \in Nat /\ BlockSize \in Nat \ {0} /\ MaxSeqs \in Nat \ {0}
    /\ Budget \in Nat \ {0} /\ EncDec \in Nat \ {0} /\ Threshold \in Nat
ASSUME RequestAssumption ==
    /\ Prompt \in [Requests -> Nat \ {0}]
    /\ NoReq \notin Requests /\ NoSlot \notin Slots

VARIABLES
    waiting,        \* self.waiting
    running,        \* self.running
    requests,       \* keys of self.requests
    resched,        \* self.to_be_rescheduled_request_id_set
    status,         \* request.status
    idx,            \* request.idx
    block_tables,   \* request.block_tables
    computed,       \* request.num_computed_tokens
    need,           \* request.need_prefill_tokens
    output,         \* len(request.output_token_ids)
    free,           \* cache_manager.gpu_free_block_list
    tasks_list,     \* self.tasks_list: position -> request
    stopped,        \* positions whose self.stop_flags is True
    real_bsz,       \* self.real_bsz
    spc,            \* where schedule() is: "idle", "run", "wait", "send"
    cursor,         \* req_index, from 1
    budget,         \* token_budget
    preempted,      \* preempted_reqs is not empty
    scheduled       \* scheduled_reqs

poolVars == <<free, block_tables>>
reqVars == <<status, idx, computed, need>>
queueVars == <<waiting, running, requests, resched>>
slotVars == <<tasks_list, stopped, real_bsz>>
schedVars == <<spc, cursor, budget, preempted, scheduled>>
rmVars == <<poolVars, reqVars, queueVars, slotVars, schedVars, output>>

-----------------------------------------------------------------------------
RMInit ==
    /\ waiting = << >> /\ running = << >> /\ requests = {} /\ resched = {}
    /\ status = [r \in Requests |-> "WAITING"]
    /\ idx = [r \in Requests |-> NoSlot]
    /\ block_tables = [r \in Requests |-> {}]
    /\ computed = [r \in Requests |-> 0]
    /\ need = Prompt
    /\ output = [r \in Requests |-> 0]
    /\ free = Blocks
    /\ tasks_list = [s \in Slots |-> NoReq]
    /\ stopped = Slots
    /\ real_bsz = 0
    /\ spc = "idle" /\ cursor = 1 /\ budget = 0 /\ preempted = FALSE /\ scheduled = {}

Members(seq) == {seq[i] : i \in 1 .. Len(seq)}
LockFree == spc \in {"idle", "send"}
TotalTokens(r) == Prompt[r] + output[r]

-----------------------------------------------------------------------------
(* The block pool of PrefixCacheManager. *)
CanAllocate(n) == Cardinality(free) >= n

(* allocate_gpu_blocks(n) to r: the n smallest blocks of the heap. *)
Allocate(r, n) ==
    \E new \in SUBSET free :
        /\ Cardinality(new) = n
        /\ \A b \in new, c \in free \ new : b < c
        /\ free' = free \ new
        /\ block_tables' = [block_tables EXCEPT ![r] = @ \cup new]

(* Mutant: the freed request keeps its block table. *)
FreeBlocksKeepTable(r) ==
    /\ free' = free \cup block_tables[r]
    /\ UNCHANGED block_tables

(* _free_blocks(r). *)
FreeBlocks(r) ==
    /\ free' = free \cup block_tables[r]
    /\ block_tables' = [block_tables EXCEPT ![r] = {}]

(* get_new_block_nums and _get_num_new_tokens. *)
NewTokens(r, needed) ==
    LET left == needed - computed[r] IN IF left < budget THEN left ELSE budget
NewBlocks(r, n) ==
    (computed[r] + n + BlockSize - 1) \div BlockSize - Cardinality(block_tables[r])

DecodeTask(r, blocks) == [type |-> "DECODE", req |-> r, slot |-> idx[r], blk |-> blocks]
PrefillTask(r, start, end) == [type |-> "PREFILL", req |-> r, start |-> start, end |-> end]
PreemptTask(r) == [type |-> "PREEMPTED", req |-> r, slot |-> idx[r]]

-----------------------------------------------------------------------------
(* schedule(): entry, under the lock. *)
ScheduleBegin ==
    /\ spc = "idle"
    /\ spc' = "run" /\ cursor' = 1 /\ budget' = Budget
    /\ preempted' = FALSE /\ scheduled' = {}
    /\ UNCHANGED <<poolVars, reqVars, queueVars, slotVars, output>>

(* The running request under the cursor, while the first loop goes on. *)
Current == running[cursor]
InRunningLoop == spc = "run" /\ cursor <= Len(running) /\ budget > 0
Decoding(r) == computed[r] >= need[r]
NeedsDecodeBlocks(r) ==
    BlockSize * Cardinality(block_tables[r]) - TotalTokens(r) <= Threshold

(* num_computed_tokens as the decode branch leaves it. *)
DecodeComputed(r) == IF TotalTokens(r) > need[r] THEN TotalTokens(r) - 1 ELSE computed[r]

(* A decoding request that still has room in its blocks. *)
DecodeGoesOn ==
    /\ InRunningLoop
    /\ Decoding(Current) /\ ~NeedsDecodeBlocks(Current)
    /\ computed' = [computed EXCEPT ![Current] = DecodeComputed(Current)]
    /\ cursor' = cursor + 1
    /\ UNCHANGED <<poolVars, status, idx, need, queueVars, slotVars, output,
                   spc, budget, preempted, scheduled>>

(* A decoding request that is given its next blocks. *)
DecodeGetsBlocks ==
    /\ InRunningLoop
    /\ Decoding(Current) /\ NeedsDecodeBlocks(Current)
    /\ CanAllocate(EncDec)
    /\ Allocate(Current, EncDec)
    /\ computed' = [computed EXCEPT ![Current] = DecodeComputed(Current)]
    /\ scheduled' = scheduled \cup {DecodeTask(Current, block_tables'[Current])}
    /\ budget' = budget - 1
    /\ cursor' = cursor + 1
    /\ UNCHANGED <<status, idx, need, queueVars, slotVars, output, spc, preempted>>

(* A running request that is given the blocks of its next prompt chunk. *)
PrefillChunk ==
    /\ InRunningLoop
    /\ ~Decoding(Current)
    /\ LET n == NewTokens(Current, need[Current])
           nb == NewBlocks(Current, n)
       IN  /\ CanAllocate(nb)
           /\ Allocate(Current, nb)
           /\ scheduled' = scheduled \cup
                 {PrefillTask(Current, computed[Current], computed[Current] + n)}
           /\ computed' = [computed EXCEPT ![Current] = @ + n]
           /\ budget' = budget - n
    /\ cursor' = cursor + 1
    /\ UNCHANGED <<status, idx, need, queueVars, slotVars, output, spc, preempted>>

(* Mutant: the worker is not told. *)
TriggerPreemptUntold ==
    /\ InRunningLoop
    /\ \/ Decoding(Current) /\ NeedsDecodeBlocks(Current) /\ ~CanAllocate(EncDec)
       \/ /\ ~Decoding(Current)
          /\ ~CanAllocate(NewBlocks(Current, NewTokens(Current, need[Current])))
    /\ LET victim == running[Len(running)]
       IN  /\ running' = SubSeq(running, 1, Len(running) - 1)
           /\ status' = [status EXCEPT ![victim] = "PREEMPTED"]
           /\ computed' = [computed EXCEPT ![victim] = 0]
           /\ FreeBlocks(victim)
           /\ resched' = resched \cup {victim}
           /\ spc' = IF victim = Current THEN "send" ELSE spc
    /\ preempted' = TRUE
    /\ UNCHANGED <<idx, need, waiting, requests, slotVars, output, cursor, budget, scheduled>>

(* One pass of _trigger_preempt: the current request cannot be given its     *)
(* blocks, so the last running request loses its own.  If that is the        *)
(* current request itself, schedule() is over; otherwise it is tried again.  *)
TriggerPreempt ==
    /\ InRunningLoop
    /\ \/ Decoding(Current) /\ NeedsDecodeBlocks(Current) /\ ~CanAllocate(EncDec)
       \/ /\ ~Decoding(Current)
          /\ ~CanAllocate(NewBlocks(Current, NewTokens(Current, need[Current])))
    /\ LET victim == running[Len(running)]
       IN  /\ running' = SubSeq(running, 1, Len(running) - 1)
           /\ status' = [status EXCEPT ![victim] = "PREEMPTED"]
           /\ computed' = [computed EXCEPT ![victim] = 0]
           /\ FreeBlocks(victim)
           /\ resched' = resched \cup {victim}
           /\ scheduled' = scheduled \cup {PreemptTask(victim)}
           /\ spc' = IF victim = Current THEN "send" ELSE spc
    /\ preempted' = TRUE
    /\ UNCHANGED <<idx, need, waiting, requests, slotVars, output, cursor, budget>>

(* The first loop ends; the second runs only if nothing was preempted. *)
RunningLoopEnds ==
    /\ spc = "run"
    /\ cursor > Len(running) \/ budget <= 0
    /\ spc' = IF preempted THEN "send" ELSE "wait"
    /\ UNCHANGED <<poolVars, reqVars, queueVars, slotVars, output,
                   cursor, budget, preempted, scheduled>>

InWaitingLoop ==
    /\ spc = "wait" /\ waiting # << >> /\ budget > 0
    /\ Len(running) # MaxSeqs

(* Lines common to the two ways a waiting request becomes running. *)
StartRunning(r, needed) ==
    LET n == NewTokens(r, needed)
        nb == NewBlocks(r, n)
    IN  /\ CanAllocate(nb)
        /\ Allocate(r, nb)
        /\ waiting' = Tail(waiting)
        /\ running' = Append(running, r)
        /\ scheduled' = scheduled \cup {PrefillTask(r, computed[r], computed[r] + n)}
        /\ budget' = budget - n
        /\ computed' = [computed EXCEPT ![r] = @ + n]
        /\ status' = [status EXCEPT ![r] = "RUNNING"]

(* Mutant: get_available_position runs past the last position. *)
AdmitWaitingAnyway ==
    /\ InWaitingLoop
    /\ LET r == Head(waiting)
       IN  /\ status[r] = "WAITING"
           /\ StartRunning(r, need[r])
           /\ \E pos \in stopped \cup {MaxSeqs} :
                 /\ \A s \in stopped : pos <= s
                 /\ idx' = [idx EXCEPT ![r] = pos]
                 /\ tasks_list' = [tasks_list EXCEPT ![pos] = r]
                 /\ stopped' = stopped \ {pos}
    /\ UNCHANGED <<need, requests, resched, real_bsz, output, spc, cursor, preempted>>

(* A new request gets blocks and the first free position. *)
AdmitWaiting ==
    /\ InWaitingLoop
    /\ LET r == Head(waiting)
       IN  /\ status[r] = "WAITING"
           /\ StartRunning(r, need[r])
           /\ \E pos \in stopped :
                 /\ \A s \in stopped : pos <= s
                 /\ idx' = [idx EXCEPT ![r] = pos]
                 /\ tasks_list' = [tasks_list EXCEPT ![pos] = r]
                 /\ stopped' = stopped \ {pos}
    /\ UNCHANGED <<need, requests, resched, real_bsz, output, spc, cursor, preempted>>

(* A new request gets blocks but get_available_position finds no position    *)
(* and raises: schedule() is left with its other effects in place, and the   *)
(* tasks it had scheduled are dropped with the exception.                    *)
AdmitRaises ==
    /\ InWaitingLoop
    /\ stopped = {}
    /\ LET r == Head(waiting)
           n == NewTokens(r, need[r])
           nb == NewBlocks(r, n)
       IN  /\ status[r] = "WAITING"
           /\ CanAllocate(nb)
           /\ Allocate(r, nb)
           /\ waiting' = Tail(waiting)
           /\ running' = Append(running, r)
           /\ computed' = [computed EXCEPT ![r] = @ + n]
           /\ status' = [status EXCEPT ![r] = "RUNNING"]
           /\ budget' = budget - n
    /\ spc' = "send" /\ scheduled' = {}
    /\ UNCHANGED <<idx, need, requests, resched, slotVars, output, cursor, preempted>>

(* A preempted request comes back at its old position: it prefills again all *)
(* the tokens it has, prompt and output.                                     *)
ResumePreempted ==
    /\ InWaitingLoop
    /\ LET r == Head(waiting)
       IN  /\ status[r] = "PREEMPTED"
           /\ need' = [need EXCEPT ![r] = TotalTokens(r)]
           /\ StartRunning(r, TotalTokens(r))
    /\ UNCHANGED <<idx, requests, resched, slotVars, output, spc, cursor, preempted>>

(* The second loop ends: nothing waiting, no budget, no room in the batch,   *)
(* or no blocks for the first waiting request.                               *)
WaitingLoopEnds ==
    /\ spc = "wait"
    /\ \/ ~InWaitingLoop /\ UNCHANGED need
       \/ /\ InWaitingLoop
          /\ LET r == Head(waiting)
                 needed == IF status[r] = "PREEMPTED" THEN TotalTokens(r) ELSE need[r]
             IN  /\ status[r] \in {"WAITING", "PREEMPTED"}
                 /\ ~CanAllocate(NewBlocks(r, NewTokens(r, needed)))
                 /\ need' = [need EXCEPT ![r] = needed]
    /\ spc' = "send"
    /\ UNCHANGED <<poolVars, status, idx, computed, queueVars, slotVars, output,
                   cursor, budget, preempted, scheduled>>

ScheduleStep ==
    \/ DecodeGoesOn \/ DecodeGetsBlocks \/ PrefillChunk \/ TriggerPreempt
    \/ RunningLoopEnds \/ AdmitWaiting \/ AdmitRaises \/ ResumePreempted
    \/ WaitingLoopEnds

-----------------------------------------------------------------------------
(* add_request, called by the fetching thread. *)
AddRequest(r) ==
    /\ LockFree
    /\ waiting' = Append(waiting, r)
    /\ requests' = requests \cup {r}
    /\ UNCHANGED <<running, resched, poolVars, reqVars, slotVars, schedVars, output>>

(* Mutant: the id stays in to_be_rescheduled_request_id_set. *)
ReschedulePreemptTaskKeepsId(r) ==
    /\ LockFree
    /\ IF r \in resched /\ r \in requests
          THEN waiting' = <<r>> \o waiting
          ELSE UNCHANGED waiting
    /\ UNCHANGED <<running, requests, resched, poolVars, reqVars, slotVars, schedVars, output>>

(* reschedule_preempt_task(r), called by the token processor. *)
ReschedulePreemptTask(r) ==
    /\ LockFree
    /\ IF r \in resched /\ r \in requests
          THEN /\ waiting' = <<r>> \o waiting
               /\ resched' = resched \ {r}
          ELSE UNCHANGED <<waiting, resched>>
    /\ UNCHANGED <<running, requests, poolVars, reqVars, slotVars, schedVars, output>>

(* self.running.remove(r): its first occurrence. *)
RemoveRunning(r) ==
    \E i \in 1 .. Len(running) :
        /\ running[i] = r /\ \A j \in 1 .. i - 1 : running[j] # r
        /\ running' = SubSeq(running, 1, i - 1) \o SubSeq(running, i + 1, Len(running))

(* finish_requests(r), run by the finish pool.  It raises, and logs, when r  *)
(* is in the waiting list or has no position; what it did before stays done. *)
FinishRequests(r) ==
    /\ LockFree
    /\ IF r \notin requests
       THEN UNCHANGED <<running, requests, resched, poolVars, reqVars, slotVars>>
       ELSE /\ IF r \in Members(running)
                  THEN /\ RemoveRunning(r)
                       /\ status' = [status EXCEPT ![r] = "FINISHED"]
                       /\ FreeBlocks(r)
                  ELSE UNCHANGED <<running, status, poolVars>>
            /\ resched' = resched \ {r}
            /\ IF r \in Members(waiting) \/ idx[r] = NoSlot
                  THEN UNCHANGED <<requests, slotVars>>
                  ELSE /\ tasks_list' = [tasks_list EXCEPT ![idx[r]] = NoReq]
                       /\ stopped' = stopped \cup {idx[r]}
                       /\ requests' = requests \ {r}
                       /\ UNCHANGED real_bsz
            /\ UNCHANGED <<idx, computed, need>>
    /\ UNCHANGED <<waiting, schedVars, output>>

(* get_real_bsz: b is one more than the highest occupied position, and the   *)
(* last value when none is occupied.                                         *)
IsRealBsz(b) ==
    LET taken == Slots \ stopped
    IN  IF taken = {} THEN b = real_bsz ELSE b - 1 \in taken /\ \A s \in taken : s < b
=============================================================================
