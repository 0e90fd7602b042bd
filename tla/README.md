# A TLA+ development for FastDeploy

FastDeploy serves large language models: an HTTP front end puts requests into
a scheduler, an engine process batches them over a pool of KV-cache blocks, and
tensor-parallel worker processes run the model step by step and send tokens
back. The correctness of this program lies in its coordination: which rank has
read which batch, who owns a block, which request a token belongs to, and what
happens when several threads of the engine act on the same request at once.
That coordination is what the modules here describe. They are translated from
the source under `src/`; prose in documents is used only to state what the code
is said to do.

## Inventory

| Component | State | Operations | Interacts with | Hard behaviour | Correct when |
|---|---|---|---|---|---|
| Engine-worker queue (`inter_communicator/engine_worker_queue.py`) | shared task list, read flag per rank; the same for cache infos; queues of disaggregated tasks and finished requests | `put_tasks`, `get_tasks`, `num_tasks`, `put_cache_info`, `get_cache_info`, `put_disaggregated_tasks`, `get_finished_req` ... | engine threads put, ranks and cache messagers get | readers that poll at their own pace; `get_tasks` does not guard against a second read | each rank reads each batch exactly once and in order |
| Worker process (`worker/worker_process.py`) | `exist_task_signal`, `read_finish_flag`, place in the loop | `event_loop_normal` | queue, model runner, weight manager | ranks test shared flags between barriers | all ranks run a step with the same batches |
| Resource manager v1 (`engine/sched/resource_manager_v1.py`) | `waiting`, `running`, `requests`, `to_be_rescheduled_request_id_set`, positions, per-request counters and block tables | `schedule`, `add_request`, `reschedule_preempt_task`, `finish_requests` | engine loop, fetching thread, token processor, finish pool | preemption takes blocks from a request that still runs | blocks are conserved; a request is in one queue |
| Engine service (`engine/common_engine.py`) | `is_fetching`, waiting disaggregated requests | v0 and v1 scheduling loops, `insert_tasks`, zmq threads, `split_mode_get_tasks`, chunk sizes | every engine component | unsynchronised tests of shared state | every request is served |
| Model runner and step kernels (`worker/gpu_model_runner.py`, `custom_ops/gpu_ops/*.cu`) | per position: stop flag, sequence lengths, block table, block-step flag | `insert_tasks_v1`, `execute_model`, `recover_decode_task`, `update_inputs_v1` | batches in, output messages out | a position that runs out of blocks stops and recovers | no position writes outside its blocks |
| Token processor (`output/token_processor.py`) | the message in hand, token counters | `_process_batch_output`, `_recycle_resources` | reads the manager without its lock | tokens are matched to requests by position, late | every token reaches the request that generated it |
| Local scheduler (`scheduler/local_scheduler.py`) | `ids`, `ids_read_cursor`, `requests`, `responses` | `put_requests`, `get_requests`, `put_results`, `get_results`, `reset` | clients and engine threads | requests leave from the middle of the list; resets while the engine works | each request is handed out once, its responses arrive whole and in order |
| Prefix cache manager (`cache_manager/prefix_cache_manager.py`, `cache_data.py`) | free lists, radix tree with reference counts, swap futures | allocate and recycle, match, build path, release, free, swap | resource managers, cache transfer queue | shared blocks freed asynchronously, swaps in flight | every block has one owner, and none is freed, moved or reordered under a request that uses it |
| Cache transfer (`inter_communicator/engine_cache_queue.py`, `cache_manager/cache_transfer_manager.py`) | task list, bit mask of readers, done list | put/get transfer task, swap | cache manager, transfer processes | a put between two readers of one task | each swap done once by every rank |
| Splitwise (`splitwise/splitwise_connector.py`, `cache_manager/cache_messager.py`) | request ids awaiting blocks, sockets | dispatch, `cache_sync`, first token | prefill and decode engines | messages handled by four threads, out of order | a decode starts only with its cache |
| Resource manager v0 (`engine/resource_manager.py`) | positions, free blocks | allocate for new tasks, recycle | engine v0 loop, token processor | allocation fails halfway | positions and blocks conserved |
| Global and splitwise schedulers (`scheduler/global_scheduler.py`, `splitwise_scheduler.py`) | Redis lists, local workers | put/get requests and results, stealing, heartbeats | several engines | crash of a peer, stolen requests | each request executed by one engine |
| Dynamic weights (`rl/dynamic_weight_manager.py`) | `model_weights_status` | update, clear, wait | API server, ranks | a rank sleeps through a value | all ranks leave the update |
| Front end (`entrypoints/`, `engine/engine.py`, `zmq_client.py`), input processing, model layers, other devices, configuration, metrics | — | — | — | I/O or numerics | not modelled, see below |

`PROJECT.json` lists every component with its status, and under `hazards` the
places in the code that are hard to test, each with the properties that would
catch it going wrong.

## Modules

    TaskBroadcast        what put_tasks/get_tasks promise (abstract)
    EngineWorkerQueue    the two broadcast channels
    WorkerProcess        the ranks' loop over the task channel; implements TaskBroadcast
    ResourceManagerV1    scheduler v1 and the block pool
    EngineV1             engine loop, fetching thread, worker, token processor and
                         finish pool around ResourceManagerV1
    LocalScheduler       the request/response scheduler
    PrefixCacheManager   the radix tree, its counts, eviction and swapping, GPU and CPU
    PrefixCacheV0        PrefixCacheManager under the v0 resource manager
    PrefixCacheV1        PrefixCacheManager under the v1 resource manager
    CacheTransfer        how a swap task reaches the transfer ranks and comes back
    DynamicWeights       clearing and reloading weights while the ranks serve
    GlobalScheduler      several schedulers over Redis, with stealing and faults
    ListOps              the elements of a list that lie in a set
    MC*                  instances for TLC
    *Proofs              theorems, checked with TLAPS

Definitions called "Mutant" or "variant" are plausible mistakes. They are part
of no specification; replacing the definition they stand beside by them makes a
property fail, which shows that the property can.

### EngineWorkerQueue and WorkerProcess

A method of the queue holds its lock from the test to the last assignment (a
blocked put tests again after every wait), so it is one action. A batch is its
number; `sent`, `got`, `infoSent` and `infoGot` are history. The loop of a rank
is cut where another process can act in between: clearing the signal, the first
barrier, counting the tasks, raising the signal, the second barrier, testing
the signal, `get_tasks`, lowering the signal, the model step. A barrier is one
joint step, and so is `execute_model` (or the idle barrier), whose collectives
return on no rank before all have entered. `MultiNode` selects
`read_finish_flag` and gives each node a leading rank; `MultiModal` lets a
leading rank put a batch off because a prefill is running. Rank 0 may write 2
(weights to be updated) instead of 0, since `model_weights_status` belongs to
another component.

### ResourceManagerV1 and EngineV1

The variables of `ResourceManagerV1` are the attributes of the class and of the
requests; a block table is the set of its blocks and tokens are counted, since
no decision depends on anything else. `schedule()` holds the lock but the token
processor appends tokens without it, so it is one action per pass of its loops:
`DecodeGoesOn`, `DecodeGetsBlocks`, `PrefillChunk`, `TriggerPreempt` (one victim
per step), `AdmitWaiting`, `ResumePreempted`, and the loop ends. `AdmitRaises`
is the `RuntimeError` of `get_available_position`, which leaves the request in
`running` with blocks and without a position. `FinishRequests` includes the
exception it raises for a waiting request, and what it has done before it.

`EngineV1` adds five threads of control:

 * the engine loop (`LoopTop`, `LoopFetch`, `LoopSchedule`, `LoopScheduleStep`,
   `LoopSend`): its tests of `waiting` and `is_fetching` are separate reads;
   `put_tasks` pickles a prefill task as the request then is (`Serialised`);
 * the fetching thread (`FetchTake`, `FetchAdd`, `FetchEnd`), which sets
   `is_fetching` only when it starts, so the loop may submit it twice;
 * the worker (`WorkerPass`): `insert_tasks_v1`, `recover_decode_task`, a model
   step with a nondeterministic outcome per position, `update_inputs_v1` and
   the output message. It is one rank, which `WorkerProcess` justifies;
 * the token processor (`TokenTake`, `TokenLookAt`, `TokenScan`, `TokenRead`),
   split at every unlocked read of the manager. A missing key or a `None` in
   `tasks_list` raises, and the rest of the message is dropped (`TokenDrop`). In
   the code the results already made from its earlier rows are lost with it; what
   is delivered to clients is not part of this model;
 * the finish pool (`Finish`), one thread, in order.

`slot[s]` is a row of `share_inputs`; `pos` stands for `seq_lens_decoder`, or for
`step_seq_lens_decoder` while the row waits for a block. `Choices` is what a row
can send after a model step: the length test and the end tokens act on the chunks
of a prompt too (`Sampled`), so a request can stop in mid-prompt; a stop sequence
(`WithStops`) is looked for in stopped rows as well, where nothing it compares
changes, so a row that was stopped by one (`hit`) sends the end token again in each
later step. `by`, in a message, `premature` and `stray` (a stopped or mid-prompt
row has sent a token) are history: no guard reads them.

### LocalScheduler

Every method holds the mutex, so each is one action; `handed`, `produced` and
`done` are the engine's side, `delivered` the client's. Request ids are not
reused. `_recycle(None)` changes nothing in a reachable state: it goes on to the
expired requests only with more than `max_size` of them, which `SizeBounded`
excludes, so time and TTL have no place in the model.

### PrefixCacheManager, PrefixCacheV0, PrefixCacheV1

A prompt is the sequence of its full blocks, each a model value for the block's
hash, and a flag for an unfilled last block. `tree` maps a node number to the
fields of its `BlockNode`; the path to the root is what the loops over `.parent`
visit. `last_used_time` is left out, so any leaf in an LRU heap may be the next
victim: what is shown holds for every order of use. `victims` joins the lists of
`hash_value_gpu_block_ids_map`: a victim goes before those of the prompt that
built it, since each list is issued reversed. `MaxNodes` bounds the `BlockNode`
objects; a number is used again when nothing refers to its node, and a path is
built only while there are numbers for it.

`request_release_lock` is held over several steps where the code lets another
thread in meanwhile; `holder` says by whom: a request that waits for its swap
(`RequestBlockIds`, then `SwappedIn`), an eviction (`FreeStart`, `FreeVictim` per
node, `FreeEnd`) or `free_cpu_block_ids`. Swap results are taken by a thread that
needs only `cache_status_lock`, one node per step (`HandleSwapResult`), so a
match can fall between two nodes of one result. `future` is
`gpu_free_task_future` with the place of its task: making room on the CPU,
allocating and issuing, or waiting for the swap. How a swap is carried out is
`CacheTransfer`'s business; here it finishes at any later time.

`PrefixCacheV0` adds `request_block_ids` and the release of a finished request.
`PrefixCacheV1` adds `request_match_blocks`, `update_cache_blocks` (which
publishes a request's blocks only when its prefill is computed), `_free_blocks`
and preemption; it leaves out token budgets and chunks, which
`ResourceManagerV1` has, and the CPU tier.

### CacheTransfer

What is done under `task_lock` is one step. Between `put_transfer_task`'s test of
the mask and its write there is none of that lock, so it has four steps. Each
rank's `do_data_transfer` is cut at its barriers and at its access to the queue
and to `cache_task_broadcast_signal`; the two thread pools of a rank move data
and meet at the swap barriers. `overwritten` records that a put has cleared a
mask some ranks had set: from then on the ranks may read a task twice and
nothing is claimed.

### DynamicWeights

`status` is `model_weights_status`, one word that API-server threads and rank 0
write and every rank polls. Each read of it is a step: the outer loop of
`check_model_weights_status` tests it three times and the inner loop twice per
round. The calls of `EngineClient` come from any number of threads and nothing
orders them: a call tests the word, writes its wish and polls, each a step.
`raced` is history. It records that a wish was written out of turn, that is,
over another value than the outcome it is meant to follow (0 for a clear, -2 for
an update), or before every rank had read that outcome. The docstring of
`update_model_weight` gives 2 for a finished update; the code writes 0, and
`TypeOK` follows the code. Left out: the process groups that are shut down after
a clear and restarted before an update, the first load, and what
`GPUModelRunner.update_parameters` and `clear_parameters` do to the KV cache and
the captured graphs after the word is published.

### GlobalScheduler

Redis commands and sections under `self.mutex` are steps of their own where
another process can make a difference in between: popping and counting, pushing
and counting, the two sections of `_put_results_worker`, putting back and
recounting. Merged into one step each are a pull's `zincrby` and the local
choice after it; a round of `_get_results_worker`, which pops its own response
list and stores it; `reset`, which deletes keys of its own and then its
dictionaries; and the removal of a dead instance's load and the test for it.
`load` is 0 when the member is absent: `zincrby` with `rem_amount=0` removes it
exactly at 0. `Crash` loses a process's memory and leaves its Redis keys;
`Expire` drops its instance key. `hurt` collects the requests that a reset or
crash strikes (those of the scheduler itself and those it has in hand), and
`skewed` the loads that a fault between two commands, or the removal of a dead
instance, has falsified. `Kinds` and `At` name the places a request can be in.
The arithmetic of which requests fit is that of `LocalScheduler`; here any
prefix of what was pulled may fit.

## Runs

| Run | Instance | What it shows |
|---|---|---|
| `worker_single_node` | 3 ranks, 3 batches, 1 put of infos | `ExactlyOnce`, `InfoExactlyOnce`, `Lockstep`, `EveryBatchRead`, the refinement of `TaskBroadcast`, and the inductive `PhaseInv` |
| `engine_contended` | 3 requests (one with a stop sequence), 2 positions, 2 blocks of 2 tokens, `min_tokens` 0 | preemption, resumption, reuse of positions, `AdmitRaises` |
| `engine_ample` | 2 requests, prompts of 3 and 1 (with a stop sequence), budget 2, 1 position, 6 blocks | every request finishes, one after a prefill in two chunks |
| `engine_drained` | 2 requests, 2 positions, 3 blocks | a comment of the code that does not hold (below) |
| `local_scheduler` | 4 requests, size 2, one reset | hand-out, streams, size, and every request answered |
| `prefix_hierarchical` | 5 requests (two equal prompts, one branching off, one without a full block, one unrelated), 5 GPU and 3 CPU blocks | ownership of blocks on both tiers, exact counts, no unevictable node, room for every eviction, every request admitted |
| `prefix_order` | the same | the blocks of a running request can be out of order (below) |
| `prefix_v1_shared` | 2 requests, one prompt extends the other, 3 blocks | a block of the tree is handed out as exclusive (below) |
| `cache_transfer` | 2 ranks, 2 swaps of each type | reading, reporting and waking |
| `weights_in_turn` | 3 ranks, 2 callers, 4 calls | no step on cleared weights, true answers, until a wish is written out of turn |
| `weights_update` | 2 ranks, 1 caller, 2 calls | an update that never finishes (below) |
| `global_scheduler` | 2 schedulers, 2 requests of one of them, both may be reset, the other may crash | stealing, putting back and faults never duplicate, lose or reorder what no fault has struck |

Twelve runs, one per question. The multi-node variant of the worker loop is not
run: the invariants of `worker_single_node` are proved for every `MultiNode`.
`engine_ample` prefills a prompt longer than the token budget. The chunked
setting of `LocalScheduler` has no run of its own; its invariants are proved for
every budget.

Bounds. Three ranks are the fewest at which a first, a middle and a last reader
differ, and three batches let a rank be overtaken by two puts if it could be.
Two positions and two or three blocks make preemption certain: a request needs
at least two blocks to finish, so two requests cannot both. Three requests make
a position change hands while messages of its first owner are in flight. Blocks
of two tokens matter: with blocks of one token a victim has always stopped by
itself for want of a block, and the case that a *live* position loses its blocks
never occurs. `MaxMsgs` 2 lets the worker run a step ahead of the token
processor's message; `MaxJobs` 2 lets a second fetch be submitted before the
first starts. `Prompt`, `MaxTokens` and the budget are the smallest values at
which a chunk ends inside a prompt and a request decodes past its first block.

`engine_contended` follows a behaviour up to the first premature reschedule or
the first stray token (`UntilTrouble`). Such a reschedule is the defect that
`engine_drained` shows; behind it the request may be prefilled with a wrong
number of tokens or run again after it has finished. A stray token is one that a
row sends after it has stopped, or before its prompt ends; what it does to
others is shown by `EngineStopSeqs.cfg` and `EngineOneToken.cfg`, and behind it
a request can be finished while a chunk of it, or another request, is computed
in its position. So what is said of the worker and of tokens in flight is said
up to that point. `OrdinaryNeverStray` proves which requests never come there:
those without stop sequences, with `min_tokens` of at least 1 and `max_tokens` of
at least 2. `BlocksConserved` and `OneQueue` are proved with no such limit. Deadlock is
not checked in `engine_contended`, where a task without a position (after
`AdmitRaises`) ends the worker's process for good, nor in the modules that are
idle once their requests, tasks or calls are used up.

In `prefix_hierarchical` five GPU blocks hold two requests of different prompts
and no third, so admission needs eviction; three CPU blocks are `MaxSeqBlocks`,
the fewest with which the code swaps at all, and fewer than the nodes that want
to leave, so `free_cpu_block_ids` runs. Two equal prompts let a node be matched
while it leaves, the branching one gives a parent two children, the empty one
takes the path through `unfilled_req_block_map`. Seven nodes are as many as the
blocks of both tiers and the requests can refer to. In `cache_transfer` two
ranks have a first and a last reader, and two tasks of each type let one be put
while another is half read. `weights_in_turn` has three ranks so that rank 0,
one that agrees with it and one that lags behind differ, two callers whose calls
overlap, and four calls for clear, update, clear, update; it follows a behaviour
until a wish is written out of turn, where its properties end (`UntilRaced`).
Deadlock is not checked in the weight runs, which stop when their calls are used
up; that the service goes on is `ServiceResumes`, and it fails (below). In
`global_scheduler` the second scheduler has no requests of its own and must
steal; a request with two responses and one with one make streams interleave.

Fairness. `WorkerProcess`: every rank keeps running its loop and every cache
messager keeps polling (weak fairness); a multimodal prefill ends, so a leading
rank that finds tasks again and again does not put them off for ever (strong
fairness of `DetectTasks`). `EngineV1`: weak fairness of the engine loop and the
worker, strong fairness of the threads that need the manager's lock, since the
engine loop releases it and sleeps or waits for the worker between two calls of
`schedule()`; strong fairness of a submission and of a non-empty answer of the
scheduler, because `exist_prefill_task_signal` is lowered after each prefill and
a pending request is handed out once there is room. `LocalScheduler`: results
keep coming and are collected (weak), and blocks and positions become free again
and again (strong fairness of `GetRequests` with all resources).
`EveryRequestFinishes` is stated for one position, blocks enough, `min_tokens` 1
and no stop sequence on the long prompt: a request that stops in mid-prompt can
be finished while its next chunk is under way, and need not end. With two
positions it does not hold, because the exception between `token_processor.py`
lines 310 and 314 can lose another request's end token, and with too few blocks
a preempted request waits for an output message that need not come. No document
promises either, so they are recorded as hazards. `PrefixCacheV0`: the receiving
thread, the pools and a method inside the lock keep running (weak); whoever
wants the lock gets it in the end, and waiting requests are offered again and
again (strong), since the engine's loop offers them every millisecond.
`CacheTransfer`: every thread and rank keeps running; a putting thread that
polls the mask sees it complete in the end (strong). `DynamicWeights`: ranks and
callers keep running, and rank 0 finds the queue empty again and again (strong),
since a batch is read in the pass that finds it and most passes of a decoding
engine bring none; under a load that fills the queue before every pass the word
would not be looked at. `GlobalScheduler` has no liveness property: a request
taken by a scheduler that then crashes is lost.

## Findings

 * `token_processor.py:305`: a preempted request is rescheduled when its position
   is `>= batch - 1`, under the comment "No more token generated for preempted
   request". The last row of the message is `batch - 1`, so a request there is
   put back before its own token in that message is processed
   (`engine_drained`).
   The same step refutes two more comments: "num_total_tokens should be static
   and correct" (`resource_manager_v1.py:327`) for a preempted request in the
   waiting list, and "unexpected error, should not be here" (line 438) for a
   finished one.
 * `prefix_cache_manager.py:623`: `common_block_ids` is the blocks matched on the
   GPU followed by the blocks swapped in. A swap result is handled parent first,
   so a request can match the parent on the CPU and its child, still leaving, on
   the GPU: the first two blocks of its table are exchanged (`prefix_order`).
   `prefix_hierarchical` shows that the *set* of blocks is right all the same.
 * `resource_manager_v1.py:116`: `_trigger_preempt` sets `prefill_block_num` to 0
   before `_free_blocks`, which then recycles the whole table, blocks of the tree
   included; they are handed out again as "exclusively allocated blocks"
   (`prefix_v1_shared`).
 * `dynamic_weight_manager.py:227`: a rank that has not read -2 when the next
   update begins waits for ever, and the others wait for it at the barrier
   (`weights_update`). The second that each call and each round sleeps makes this
   rare, and no test in the server excludes it.

Four more configurations are not among the runs; TLC refutes each of them within
a minute. Three of them show what lies behind the point up to which the passing
runs make their claims (`raced`, `stray`), the first a fault before that point.

 * `WeightsResume.cfg` (`ServiceResumes`), `dynamic_weight_manager.py:227`, with
   calls made in turn: a rank that has seen the clear keeps `is_stop = 1` and no
   longer waits for 0. Past the barrier of the update it reads 1 once more before
   rank 0 has written 0, loads again, and waits at the barrier for ranks that have
   gone back to serving. The word is 0, the client has its answer ("worker update
   finish and notify client", line 318 of `engine_client.py`), `is_workers_alive` is
   content, and no model step is run any more. The rank must be faster than rank
   0's write by the millisecond it sleeps.
 * `WeightsRace.cfg` (`ClearIsFinished`), `engine_client.py:325`: an update writes 1
   over the -1 of a clear in progress (it refuses only a second update). Ranks that
   read the word before and after go to the same barrier, one to clear and one to
   load, and rank 0 publishes -2 or 0 for all, against "-2 : worker clear finish
   and notify client" (line 340). A model step on cleared weights can follow.
 * `EngineStopSeqs.cfg` (`EndsOnlyItsOwn`), `stop_generation_multi_ends.cu:69`: a
   position that a stop sequence has ended sends the end token again in every later
   step. When the position has gone to another request which the worker has not
   inserted yet, that request is ended, where `docs/features/early_stop.md:77` speaks
   of the generation "for that batch" whose tokens contain the sequence.
 * `EngineOneToken.cfg` (`OutputBounded`), `pre_and_post_process.py:215`: the length
   test counts the steps of a chunked prefill. With `max_tokens` 1
   (`engine_client.py:223` allows it) the first chunk ends the request, while the
   second is already scheduled and ends it again, with a second token; `max_tokens`
   is the "maximum number of tokens to generate" (`sampling_params.py:69`).

Not a run, but visible in the models: `local_scheduler.py:138` never recycles
expired requests (`SizeBounded`), although the docstring at line 65 says so; and
`reset` of a global scheduler that has stolen requests leaves them unanswered,
although its docstring (line 818) says that other instances are not affected
(`StreamsIntact` excludes requests in the hands of a scheduler that is reset).

## Theorems

All proofs are for every value of the constants that satisfies the named
assumptions of the modules (non-empty set of ranks, rank 0 among the leading
ranks, positive sizes, prompts of at least one token, `max_tokens` of at least
one and `min_tokens` up to it, request ids that arrive once). Every theorem
rests on an invariant that is inductive as proved, and none of them is bounded
by the instance of a run.

| Module | Theorem | Property |
|---|---|---|
| `WorkerProcessProofs` | `TypeCorrect`, `TasksExactlyOnce`, `InfosExactlyOnce`, `RanksInLockstep`, `PhasesHold`, `QueueImplementsBroadcast` | `TypeOK`, `ExactlyOnce`, `InfoExactlyOnce`, `Lockstep`, `PhaseInv`, `ImplementsBroadcast` |
| `EngineV1Proofs` | `TypeCorrect`, `BlocksAreConserved`, `RequestsInOneQueue`, `BlocksNotShared`, `TokensCredited`, `WorkerStaysInBounds`, `OrdinaryNeverStray`; `Invariance`, `EngineInOrder` | `TypeOK`, `BlocksConserved`, `OneQueue`, `LiveSlotsDisjoint`, `TokensReachTheirRequest`, `WorkerInBounds` |
| `LocalSchedulerProofs` | `TypeCorrect`, `SizeIsBounded`, `RequestsHandedOutOnce`, `StreamsStayIntact` | `TypeOK`, `SizeBounded`, `HandedOutOnce`, `StreamsIntact` |
| `CacheTransferProofs` | `TypeCorrect`, `TasksReadInOrder`, `ReportedTasksMoved` | `TypeOK`, `ReadInOrder`, `DoneMeansMoved` |
| `DynamicWeightsProofs` | `TypeCorrect`, `NeverRunsCleared`, `AnswersAreTrue`; `Invariance` | `TypeOK`, `RunsWithWeights`, `TrueAnswers` |
| `GlobalSchedulerProofs` | `TypeCorrect`, `RequestsInOnePlace`, `LoadNeverDrifts`, `StreamsStayIntact` | `TypeOK`, `InOnePlace`, `LoadIsQueueLength`, `StreamsIntact` |
| `PrefixCacheV0Proofs` | `TypeCorrect`, `GpuBlocksSafe`, `CpuBlocksSafe`, `CountsRight`, `PromptsSafe`, `LeavesFound`, `EvictionSafe`; `Invariant` | `TypeOK`, `GpuBlocksOwnedOnce`, `CpuBlocksOwnedOnce`, `SharedCountsUsers`, `PromptBlocksKept`, `UnusedLeavesEvictable`, `EvictionFindsRoom` |
| `ListOpsProofs` | lemmas on `Kept` | |

`WorkerProcessProofs`. `get_tasks` alone is not safe: a rank could read twice.
The invariant `IInv` adds to types and `ExactlyOnce` the argument of the loop,
`PhaseInv`: the two barriers and the model step cut a pass into three phases
which no two ranks straddle (`SamePhase`); the signal is up only while the batch
it announces is unread by the ranks still to read it (`ReadsAreDue`); and when it
is down, or all have read, all hold the same batches (`QuietInv`). `Invariance`
gives the theorems on the ranks and, step by step under the refinement mapping
`log <- sent, seen <- got`, `QueueImplementsBroadcast`.

`EngineV1Proofs`. The invariant is `TypeOK`, `BlocksConserved` and
`ReadInRange` (the token processor reads a position only inside its message,
without which its tokens have no type). There is a lemma per action of the
manager, then per action of the engine; allocation and release of blocks are
lemmas of their own. `RequestsInOneQueue` adds `QInv`: a request that has not
been fetched, or that a fetching thread still has in hand, is in no queue, and
one marked for rescheduling has the status PREEMPTED. It rests on the
scheduler handing each request out once, which is the assumption that the
arrivals are distinct here and the theorem `RequestsHandedOutOnce` there. These
three hold in every interleaving, premature reschedules and exceptions included.

What the worker does with blocks and tokens it is told of late needs more. The
invariant of `EngineInOrder` is `QInv` with three further layers:

 * `PosInv`: `tasks_list` and `request.idx` are inverse to each other while a
   request is in a queue, only a running request has blocks, and a request that
   has not been admitted is as it arrived;
 * `BatchInv`, on the batch between `schedule()` and the worker, which is in
   `scheduled` or in the task queue and never in both, because the loop
   schedules only when the queue is empty: one task per request and per
   position, the position still its request's or free again, a task to preempt
   only for a request that does not run, and `real_bsz` covers every taken
   position;
 * `FlowInv`, on the worker and the tokens (`WorkerInv`, `TokInv`). A row of the
   worker is the one its request has in `tasks_list` and uses blocks of its
   request's block table, or a task of the batch tells it to leave (`Owner`); no
   two rows share a block (`Disjoint`); a row's length fits its blocks, or it
   waits for want of one (`Shape`); the tasks under way fit the rows they are for
   (`DecodeFits`, `PrefillFits`, `NeedIsTotal`). Tokens in flight find their
   request, an end token is the last of its request, and a request handed to the
   finish pool has none left (`TokInv`); a request with prompt left has none in
   flight and cannot yield one (`Drained`, `NoYield`); and a row whose end token
   is generated is no longer active (`Ended`).

A grant of blocks keeps `Disjoint` only because the leaving row of the preempted
request is known to have its task in the very batch that carries the grant.
`InputInOrder` and `InputDisjoint` carry the layers through `insert_tasks_v1` and
`recover_decode_task`, `AdvancedFollows` and `PassTokens` through the model step
and its message. `FlowInv` holds up to the first premature reschedule or stray
token, and its
`WorkerInv` until the worker has crashed: a batch with a task without a position
ends the worker's process, a preemption in the same batch is never carried out,
and later grants hand the blocks of the dead process's rows to others.
`LiveSlotsDisjoint` and `WorkerInBounds` speak of a model step and so exempt a
worker that will take none. `NothingAssumption` says that the absence of a batch
is not a batch.

`LocalSchedulerProofs`. `SizeIsBounded` needs only that `requests` stays a subset
of the finite set of ids. The list of ids loses elements in its middle while the
cursor stands on it; what is left is given by `Kept`, and the rank of an element
in it by how many before it stay. `HandedOutOnce` and `StreamsIntact` are
inductive together with `Accounts`: an accepted request is known to the
scheduler, or a reset has dropped it, or it is done and collected, and responses
wait only for requests that are known.

`ListOpsProofs`. `Kept(seq, S)`, the elements of a list that lie in a set, stands
for the code's list comprehensions. The library's induction theorems take an
operator as a parameter and cannot be used here; induction is done instead over a
set of numbers (`SetInduction`, from the least element of a non-empty set).
`KeptFunction` gives the recursive function behind `Kept`, and `KeptFacts` that
the result is a list of the same type which holds the elements in question, each
at the place its rank says. From these, by the uniqueness of such a list,
follows what `Kept` does to an appended, a joined and an already filtered list.

`CacheTransferProofs`. A putting thread waits for its task, so at most one task
of each type is on its way. `Places` says where: for every rank it is unread in
the queue, or fetched, or in the pool of its type, and in only one of these, until
it is in the done list. `MovedAsDue` counts how often each rank has moved each
task by the stage its pool has reached. `TasksReadInOrder` and
`ReportedTasksMoved` exclude what happens behind `overwritten`, as the run does.

`DynamicWeightsProofs`. Nothing is assumed of the callers: their calls overlap
in any way, and the claims end when a wish is written out of turn (`raced`). The
invariant says for each value of the word where every rank may be and whether
its weights are loaded (`Loaded`, `Clearing`, `Cleared`, `Loading`, the middle
ones before and after the barrier), and that no rank is sent to look at the word
while the weights are loaded (`NoStaleSignal`). Only the write of a wish can
open a phase that does not fit the ranks, and in turn it does not:
`CallerWritesKeeps` is that step. The invariant allows the second load of
`WeightsResume.cfg`, which harms no answer.

`GlobalSchedulerProofs`. The requests in each place (being put, a queue, pulled,
an engine, answered) form a layout; a step moves a set of requests from one
place to one other, adds a new request to one, or empties places whose contents
it marks as hurt. `PlaceInv` (no two places share a request, and what is begun
and not hurt is somewhere) is inductive together with `ListInv` (a queue and
what was pulled name a request once; a queue holds requests of its own
scheduler, so that a reset strikes no other's; what was pulled knows the queue
it came from). `PlaceInv` also gives that an engine works only on open requests,
without which the responses have no type. For the load, `Balanced` is the
equation of one step: what a pop, a count, a put back and a recount change on
both sides; the sets of elements on their way are kept finite by the invariant,
so nothing is assumed of the number of schedulers.

`StreamsStayIntact` is proved for one request at a time. Its view is a record of
the numbers of its responses in each of the lists they pass through (`p`, `b`,
`q` at the schedulers, `box`, `y`, `d` on the way to the client), of how many
there are, and of the schedulers that execute it, track it, or have it in
`stolen_requests` and in the two snapshots. What a step does to a view is a
relation between two views (`Takes`, `Applies`, `Pushes`, `Fetches`, `Hands`,
`Emits`, `Joins`, `Enlists`, `Drops`, `Strikes`, `Untouched`), and there is one
lemma per relation. `Good` holds for every request, struck or not: one scheduler
at most has responses of it, they are the latest without a gap, local responses
never meet those of a thief, and behind the last response there is nothing.
`Whole` holds for a request that no fault has struck: whoever executes it still
knows whose it is, home tracks it until the client has the last response, and
all lists joined are the numbers from 1. Two facts make the steps go through.
`FreshInv`: a request that is not in an engine yet has no responses, so joining
one starts a new stream. `Batches`: when a batch names a request that has been
local and is not tracked any more, everything in the batch was struck by a fault
before. This is why the KeyError of `_put_results_worker`, which throws a whole
batch away, never costs a request that no fault has struck a response.

`PrefixCacheV0Proofs`. The theorems hold for all pools, prompts, block counts and
bounds that satisfy `CacheAssumption`, `DecAssumption` and `NamesAssumption` (the
values that stand for "none" are not nodes, requests or methods), with the CPU
tier and without. None of the properties is inductive: each needs most of the
others. `IInv` has fifteen parts.

 * `TreeInv`: parents, children and depths agree, children of a node have
   different keys, and the root is never left. `Linked` takes the tree as a
   parameter, because a step is argued about on the tree before, between and
   after its parts. From it follow, by induction on the depth over a set of
   numbers, that a path is inside the tree and has one node of each depth
   (`PathShapes`), and that it stays the same when its nodes keep their parents
   (`PathKept`).
 * `SwapTypes`, `OneTask`, `Waits`: an eviction has at most one task on its way and
   so has the one request that holds the lock; a request waits exactly while its
   task is there.
 * `ItemsInv`, `VictimsInv`, `StatusInv`: a node that is swapped in or out is the
   node of one item or victim, its block is the one the item names, and below a
   node on the CPU (or leaving) there is none on the GPU. A node that a match has
   taken back while it left is the case that the swap result must recognise.
 * `PhaseInv`, `RoomInv`: the lock, the future and the victims are in step, and
   the counts that `free_cpu_block_ids` is given are enough. `CpuEmptied` is the
   reason: if its heap runs empty while CPU blocks are in use, a deepest node on
   the CPU would be an unused leaf, which `LruInv` puts in the heap.
 * `ReqInv`, `CountInv`, `UsedInv`, `LruInv`: where a request is on its way, which
   nodes and blocks it has there, that a count is the number of users, that a node
   in use is on the GPU or comes in, and that unused leaves are in their heaps.
 * `OwnInv`: the owners of the blocks of each tier as a function (`GpuLayout`,
   `CpuLayout`), so that a step is a transfer from one owner to others
   (`HandedOut`, `HandedOver`) or changes nothing (`SameOwners`). The partition
   that the property states has the owners as pairs and follows from it
   (`GpuOnce`, `CpuOnce`).

There is a lemma per action. Those of the same effect share one: nodes that
leave the tree (`Unlinked`), a request that comes to use a path
(`AttachedTree`), the path that is built below it (`Built`), used by an
admission at once and by one after a swap. What `Allocate` and `InsertAt`
return, and what the walk of `match_block` finds, are lemmas of their own.

Only model-checked: liveness (`EveryBatchRead`, `EveryRequestFinishes`,
`EveryRequestAnswered`, `EveryRequestAdmitted`, `SwapsFinish`), which rests on
fairness and is outside the prover's reach. Every invariant and action property
of a passing run is a theorem.

## Not modelled

FastDeploy has about 77 000 lines of implementation, of which the modules here
cover the coordination: the queues, signals and barriers between processes, the
schedulers, the block pools, the prefix cache and its swaps, the weight
protocol. Most of the rest has no state that steps of several actors share, and
a model of it would be a transcription:

 * `model_executor/` (layers, attention and MoE back ends, quantisation, models,
   samplers, graph compilation) and the CUDA kernels: numerical code. The kernels
   that keep control state per position are in `EngineV1`.
 * the XPU, GCU, Metax, HPU and Iluvatar runners: variants of the GPU runner for
   other devices.
 * `config.py`, `args_utils.py`, `envs.py`, metrics, platforms, plugins, loaders:
   static data and reporting.
 * input processing, tokenisers, reasoning and tool parsers, the OpenAI
   protocol: sequential data conversion.
 * process launch, HTTP and socket code: operating-system I/O.

Coordination that is not modelled yet: the hand-over between prefill and decode
instances (`splitwise_connector.py`, `cache_messager.py`, the disaggregated part
of the engine loops) and the splitwise scheduler, which has meaning only with
it; positions and `allocate_resources_for_new_tasks` of the v0 manager; the
chunk-size algorithm; speculative decoding; the stopper of repetitions;
multimodal chunks; expert and data parallelism; failing transfers. In
`GlobalScheduler`: `update_config`, TTLs, shards of the load table and duplicate
request ids.

## Plan

In order of importance.

 1. Done: the queue and the ranks; the v1 engine; the local scheduler; the prefix
    cache under both managers; cache transfer; weight updates; the global
    scheduler.
 2. Proofs. Done: the local scheduler, `CacheTransfer`, `DynamicWeights`, the
    six invariants of the v1 engine, the four of the global scheduler and the
    seven of `PrefixCacheV0`.
 3. Positions of the v0 manager in `PrefixCacheV0`, with the token processor's
    unlocked writes of `stop_flags` and `tasks_list`.
 4. `Splitwise`: dispatch from a prefill to a decode engine, `cache_sync` and the
    first token over reordered messages, failure of a transfer.
 5. The chunk-size algorithm as operators against a reference definition.
