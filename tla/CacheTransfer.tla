--------------------------- MODULE CacheTransfer ---------------------------
(***************************************************************************)
(* How a swap task reaches the cache transfer processes and how its result *)
(* comes back: EngineCacheQueue (a list, a bit mask of the ranks that have *)
(* read its head, and a lock) between issue_swap_task of the prefix cache  *)
(* manager and do_data_transfer of every rank.                             *)
(*                                                                         *)
(* Two threads of the engine put tasks: the one that admits a request      *)
(* (SWAP2GPU) and the one that evicts (SWAP2CPU); each waits for its own   *)
(* task before it puts another.  A rank hands a task to one of two threads *)
(* by its type, and the ranks' threads meet before and after moving data.  *)
(* What is done under task_lock is one step.  Barriers are joint steps:    *)
(* rank 0's reset() comes before it reaches the next barrier, so it never  *)
(* finds a rank waiting.                                                   *)
(***************************************************************************)
EXTENDS Integers, Sequences, FiniteSets, SequencesExt

CONSTANTS
    Ranks, Rank0,
    MaxTasks        \* bound: tasks that each thread puts

ASSUME TransferAssumption ==
    /\ IsFiniteSet(Ranks) /\ Rank0 \in Ranks /\ MaxTasks \in Nat

Types == {"SWAP2GPU", "SWAP2CPU"}   \* also names the thread that puts the task

VARIABLES
    task_queue,     \* transfer_task_queue
    sync_value,     \* task_sync_value, as the set of ranks
    done_queue,     \* tansfer_done_queue
    signal,         \* cache_task_broadcast_signal
    put_pc,         \* putting thread -> where it is
    put_num,        \* putting thread -> tasks it has put
    pc,             \* rank -> position in do_data_transfer
    data,           \* rank -> the last task it read
    pool,           \* rank, type -> tasks handed to the thread pool
    stage,          \* rank, type -> what the pool's thread does
    sent,           \* history: tasks in the order they were put
    got,            \* history: rank -> tasks it has read
    moved,          \* history: rank -> tasks whose data it has moved
    overwritten     \* history: a put has cleared a mask that was not empty

queueVars == <<task_queue, sync_value, done_queue, signal>>
putVars == <<put_pc, put_num>>
rankVars == <<pc, data, pool, stage>>
history == <<sent, got, moved, overwritten>>
vars == <<queueVars, putVars, rankVars, history>>

Start(r) == IF r = Rank0 THEN "top" ELSE "barrier1"

Init ==
    /\ task_queue = << >> /\ sync_value = {} /\ done_queue = << >> /\ signal = 0
    /\ put_pc = [p \in Types |-> "idle"] /\ put_num = [p \in Types |-> 0]
    /\ pc = [r \in Ranks |-> Start(r)]
    /\ data = [r \in Ranks |-> << >>]
    /\ pool = [r \in Ranks |-> [t \in Types |-> << >>]]
    /\ stage = [r \in Ranks |-> [t \in Types |-> "wait"]]
    /\ sent = << >> /\ got = [r \in Ranks |-> << >>]
    /\ moved = [r \in Ranks |-> << >>] /\ overwritten = FALSE

-----------------------------------------------------------------------------
(* issue_swap_task: put_transfer_task, then wait for the task's event.     *)
Partial == sync_value # {} /\ sync_value # Ranks

Append1(p) ==
    LET t == [type |-> p, num |-> put_num[p] + 1]
    IN  /\ task_queue' = Append(task_queue, t)
        /\ sync_value' = {}
        /\ sent' = Append(sent, t)
        /\ overwritten' = (overwritten \/ sync_value # {})
        /\ put_num' = [put_num EXCEPT ![p] = @ + 1]
        /\ put_pc' = [put_pc EXCEPT ![p] = "sync"]
        /\ UNCHANGED <<done_queue, signal, rankVars, got, moved>>

PutTransferTask(p) ==
    /\ put_pc[p] = "idle" /\ put_num[p] < MaxTasks
    /\ ~Partial /\ Append1(p)

\* some ranks have still to read the head: the lock is released
PutHasToWait(p) ==
    /\ put_pc[p] = "idle" /\ put_num[p] < MaxTasks
    /\ Partial
    /\ put_pc' = [put_pc EXCEPT ![p] = "poll"]
    /\ UNCHANGED <<queueVars, put_num, rankVars, history>>

PutSeesRead(p) ==
    /\ put_pc[p] = "poll" /\ ~Partial
    /\ put_pc' = [put_pc EXCEPT ![p] = "relock"]
    /\ UNCHANGED <<queueVars, put_num, rankVars, history>>

\* the lock again, but not the test
PutRelocked(p) == put_pc[p] = "relock" /\ Append1(p)

\* recv_data_transfer_result: the event of the task, if anybody waits for it
RecvDataTransferResult ==
    /\ done_queue # << >>
    /\ done_queue' = Tail(done_queue)
    /\ LET t == Head(done_queue)
       IN  put_pc' = IF put_pc[t.type] = "sync" /\ put_num[t.type] = t.num
                     THEN [put_pc EXCEPT ![t.type] = "idle"] ELSE put_pc
    /\ UNCHANGED <<task_queue, sync_value, signal, put_num, rankVars, history>>

-----------------------------------------------------------------------------
(* do_data_transfer.                                                       *)
Goto(r, l) == pc' = [pc EXCEPT ![r] = l]

\* variant used to show that a property can fail: one queued task only
RaiseSignalForOne ==
    /\ pc[Rank0] = "top"
    /\ signal' = IF Len(task_queue) = 1 THEN 1 ELSE signal
    /\ Goto(Rank0, "barrier1")
    /\ UNCHANGED <<task_queue, sync_value, done_queue, putVars, data, pool, stage, history>>

RaiseSignal ==
    /\ pc[Rank0] = "top"
    /\ signal' = IF task_queue # << >> THEN 1 ELSE signal
    /\ Goto(Rank0, "barrier1")
    /\ UNCHANGED <<task_queue, sync_value, done_queue, putVars, data, pool, stage, history>>

Barrier1 ==
    /\ \A r \in Ranks : pc[r] = "barrier1"
    /\ pc' = [r \in Ranks |-> "test"]
    /\ UNCHANGED <<queueVars, putVars, data, pool, stage, history>>

TestSignal(r) ==
    /\ pc[r] = "test"
    /\ Goto(r, IF signal = 1 THEN "get" ELSE "barrier2")
    /\ UNCHANGED <<queueVars, putVars, data, pool, stage, history>>

\* barrier2 or barrier3, and round again
RoundAgain(at) ==
    /\ \A r \in Ranks : pc[r] = at
    /\ pc' = [r \in Ranks |-> Start(r)]
    /\ UNCHANGED <<queueVars, putVars, data, pool, stage, history>>

Submit(r, t) == pool' = [pool EXCEPT ![r][t.type] = Append(@, t)]
Readable(r) == r \notin sync_value /\ task_queue # << >>

\* get_transfer_task, not the last rank: the task goes to its pool
GetTransferTask(r) ==
    /\ pc[r] = "get" /\ Readable(r)
    /\ sync_value \cup {r} # Ranks
    /\ sync_value' = sync_value \cup {r}
    /\ Submit(r, Head(task_queue))
    /\ got' = [got EXCEPT ![r] = Append(@, Head(task_queue))]
    /\ Goto(r, "barrier3")
    /\ UNCHANGED <<task_queue, done_queue, signal, putVars, data, stage, sent, moved, overwritten>>

\* variants used to show that properties can fail: the last rank pops the wrong
\* end of the list
GetTransferTaskLastPopsTail(r) ==
    /\ pc[r] = "get" /\ Readable(r)
    /\ sync_value \cup {r} = Ranks
    /\ sync_value' = {}
    /\ task_queue' = Front(task_queue)
    /\ data' = [data EXCEPT ![r] = Head(task_queue)]
    /\ got' = [got EXCEPT ![r] = Append(@, Head(task_queue))]
    /\ Goto(r, "lower")
    /\ UNCHANGED <<done_queue, signal, putVars, pool, stage, sent, moved, overwritten>>

\* the last rank pops the task, and lowers the signal after the lock
GetTransferTaskLast(r) ==
    /\ pc[r] = "get" /\ Readable(r)
    /\ sync_value \cup {r} = Ranks
    /\ sync_value' = {}
    /\ task_queue' = Tail(task_queue)
    /\ data' = [data EXCEPT ![r] = Head(task_queue)]
    /\ got' = [got EXCEPT ![r] = Append(@, Head(task_queue))]
    /\ Goto(r, "lower")
    /\ UNCHANGED <<done_queue, signal, putVars, pool, stage, sent, moved, overwritten>>

LowerSignal(r) ==
    /\ pc[r] = "lower"
    /\ signal' = 0
    /\ Submit(r, data[r])
    /\ Goto(r, "barrier3")
    /\ UNCHANGED <<task_queue, sync_value, done_queue, putVars, data, stage, history>>

\* no task: unpacking None raises, and the handler goes round without barrier3
GetNothing(r) ==
    /\ pc[r] = "get" /\ ~Readable(r)
    /\ Goto(r, Start(r))
    /\ UNCHANGED <<queueVars, putVars, data, pool, stage, history>>

-----------------------------------------------------------------------------
(* _do_swap_to_cpu_task, _do_swap_to_gpu_task: one thread per type, with   *)
(* the type's first barrier, the transfer, and its second barrier.         *)
SwapBarrier1(t) ==
    /\ \A r \in Ranks : stage[r][t] = "wait" /\ pool[r][t] # << >>
    /\ stage' = [r \in Ranks |-> [stage[r] EXCEPT ![t] = "move"]]
    /\ UNCHANGED <<queueVars, putVars, pc, data, pool, history>>

TransferData(r, t) ==
    /\ stage[r][t] = "move"
    /\ stage' = [stage EXCEPT ![r][t] = "moved"]
    /\ moved' = [moved EXCEPT ![r] = Append(@, Head(pool[r][t]))]
    /\ UNCHANGED <<queueVars, putVars, pc, data, pool, sent, got, overwritten>>

\* variants used to show that properties can fail: rank 0 does not wait for the
\* others, or reports what the main loop read last
SwapBarrier2Missing(t) ==
    \E r \in Ranks :
        /\ stage[r][t] = "moved"
        /\ stage' = [stage EXCEPT ![r][t] = "wait"]
        /\ pool' = [pool EXCEPT ![r][t] = Tail(@)]
        /\ done_queue' = IF r = Rank0 THEN Append(done_queue, Head(pool[r][t])) ELSE done_queue
        /\ UNCHANGED <<task_queue, sync_value, signal, putVars, pc, data, history>>

SwapBarrier2Stale(t) ==
    /\ \A r \in Ranks : stage[r][t] = "moved"
    /\ stage' = [r \in Ranks |-> [stage[r] EXCEPT ![t] = "wait"]]
    /\ pool' = [r \in Ranks |-> [pool[r] EXCEPT ![t] = Tail(@)]]
    /\ done_queue' = Append(done_queue, data[Rank0])
    /\ UNCHANGED <<task_queue, sync_value, signal, putVars, pc, data, history>>

\* rank 0 puts the done signal
SwapBarrier2(t) ==
    /\ \A r \in Ranks : stage[r][t] = "moved"
    /\ stage' = [r \in Ranks |-> [stage[r] EXCEPT ![t] = "wait"]]
    /\ pool' = [r \in Ranks |-> [pool[r] EXCEPT ![t] = Tail(@)]]
    /\ done_queue' = Append(done_queue, Head(pool[Rank0][t]))
    /\ UNCHANGED <<task_queue, sync_value, signal, putVars, pc, data, history>>

PutStep(p) ==
    PutTransferTask(p) \/ PutHasToWait(p) \/ PutSeesRead(p) \/ PutRelocked(p)
RankStep(r) ==
    \/ TestSignal(r) \/ GetTransferTask(r) \/ GetTransferTaskLast(r)
    \/ LowerSignal(r) \/ GetNothing(r)
    \/ \E t \in Types : TransferData(r, t)
JointStep ==
    \/ RaiseSignal \/ Barrier1 \/ RoundAgain("barrier2") \/ RoundAgain("barrier3")
    \/ \E t \in Types : SwapBarrier1(t) \/ SwapBarrier2(t)

Next ==
    \/ \E p \in Types : PutStep(p)
    \/ \E r \in Ranks : RankStep(r)
    \/ JointStep \/ RecvDataTransferResult

Spec == Init /\ [][Next]_vars

(* Every process and thread keeps running; a put that waits sees the mask  *)
(* complete in the end, polling it every millisecond.                      *)
Fairness ==
    /\ \A p \in Types : /\ WF_vars(PutRelocked(p)) /\ SF_vars(PutSeesRead(p))
                        /\ WF_vars(PutTransferTask(p) \/ PutHasToWait(p))
    /\ \A r \in Ranks : /\ WF_vars(TestSignal(r) \/ LowerSignal(r) \/ GetNothing(r)
                                     \/ GetTransferTask(r) \/ GetTransferTaskLast(r))
                        /\ \A t \in Types : WF_vars(TransferData(r, t))
    /\ WF_vars(RaiseSignal) /\ WF_vars(Barrier1)
    /\ WF_vars(RoundAgain("barrier2")) /\ WF_vars(RoundAgain("barrier3"))
    /\ \A t \in Types : WF_vars(SwapBarrier1(t)) /\ WF_vars(SwapBarrier2(t))
    /\ WF_vars(RecvDataTransferResult)

FairSpec == Spec /\ Fairness

-----------------------------------------------------------------------------
(* Properties.  put_transfer_task tests the mask, releases the lock, and   *)
(* clears the mask later without testing again: from the moment it clears  *)
(* a mask that was not empty nothing is claimed.                           *)
Task == [type : Types, num : 1 .. MaxTasks]

(* Types of the queue's lists and of the two loops. *)
TypeOK ==
    /\ task_queue \in Seq(Task) /\ done_queue \in Seq(Task)
    /\ sync_value \subseteq Ranks /\ signal \in {0, 1}
    /\ put_pc \in [Types -> {"idle", "poll", "relock", "sync"}]
    /\ put_num \in [Types -> 0 .. MaxTasks]
    /\ pc \in [Ranks -> {"top", "barrier1", "test", "get", "lower", "barrier2", "barrier3"}]
    /\ pool \in [Ranks -> [Types -> Seq(Task)]]
    /\ stage \in [Ranks -> [Types -> {"wait", "move", "moved"}]]

(* Every rank reads every task once and in the order of the puts, although *)
(* puts go on while some ranks have read the head and others have not.     *)
ReadInOrder ==
    ~overwritten => \A r \in Ranks :
        got[r] \o (IF r \in sync_value THEN Tail(task_queue) ELSE task_queue) = sent

(* Rank 0 reports a task, and _handle_swap_result gives its blocks to      *)
(* others, only when every rank has moved its share, and no rank moves it  *)
(* again.                                                                  *)
Reported ==
    Range(done_queue) \cup
      {t \in Task : t.num < put_num[t.type] \/
                    (t.num = put_num[t.type] /\ put_pc[t.type] = "idle")}

DoneMeansMoved ==
    ~overwritten => \A t \in Reported, r \in Ranks :
        Cardinality({i \in DOMAIN moved[r] : moved[r][i] = t}) = 1

(* A thread that has issued a swap is woken: it holds request_release_lock *)
(* while it waits, so nothing else would move.                             *)
SwapsFinish ==
    \A p \in Types : put_pc[p] # "idle" ~> (put_pc[p] = "idle" \/ overwritten)
=============================================================================
