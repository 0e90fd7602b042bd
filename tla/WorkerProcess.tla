---------------------------- MODULE WorkerProcess ----------------------------
(***************************************************************************)
(* The tensor-parallel ranks of fastdeploy/worker/worker_process.py        *)
(* (event_loop_normal) reading the task channel of EngineWorkerQueue.      *)
(*                                                                         *)
(* One pass of the loop:                                                   *)
(*    "top"     rank 0 clears exist_task_signal (lines 246-250)            *)
(*    "b1"      waits at the first barrier (252-254)                       *)
(*    "detect"  a leading rank counts the queued batches (261-266)         *)
(*    "set"     ... and found some: raises the signal (267-270)            *)
(*    "b2"      waits at the second barrier (272-274)                      *)
(*    "check"   tests the signal (288-291)                                 *)
(*    "get"     calls get_tasks (295)                                      *)
(*    "reset"   it was the last reader: lowers the signal (296-299)        *)
(*    "b3"      idle barrier (315-320), or execute_model (324)             *)
(* A barrier is one joint step of all ranks.  execute_model is one too:    *)
(* its tensor-parallel collectives return on no rank before every rank has *)
(* entered them.  Lines 246-325 do not otherwise synchronise the ranks.    *)
(*                                                                         *)
(* On one node the signal is exist_task_signal, in shared memory; across   *)
(* nodes it is read_finish_flag, held by the queue server, and each node's *)
(* first rank is a leading rank.                                           *)
(***************************************************************************)
EXTENDS EngineWorkerQueue, Integers

CONSTANTS
    Rank0,          \* the rank with local_rank = 0 on the first node
    Leaders,        \* ranks with local_rank % mp_num_per_node = 0
    MultiNode,      \* nnode > 1 and more ranks than one node's chips
    MultiModal      \* enable_mm without the v1 scheduler: one prefill at a time

ASSUME RanksAssumption == Rank0 \in Leaders /\ Leaders \subseteq Clients
ASSUME ModeAssumption == MultiNode \in BOOLEAN /\ MultiModal \in BOOLEAN

VARIABLES
    exist_task_signal,  \* shared memory: 0 none, 1 tasks, 2 weights to update
    read_finish_flag,   \* queue server: 1 tasks
    pc                  \* rank -> position in the loop

workerVars == <<exist_task_signal, read_finish_flag, pc>>
vars == <<queueVars, workerVars>>

-----------------------------------------------------------------------------
Init ==
    /\ QueueInit
    /\ exist_task_signal = 0
    /\ read_finish_flag = 0
    /\ pc = [c \in Clients |-> "top"]

Goto(c, l) == pc' = [pc EXCEPT ![c] = l]

(* A barrier (or a collective) releases its ranks together. *)
Barrier(from, to) ==
    /\ \A c \in Clients : pc[c] = from
    /\ pc' = [c \in Clients |-> to]
    /\ UNCHANGED <<queueVars, exist_task_signal, read_finish_flag>>

(* Variants used to show that the properties can fail: a barrier left out, a  *)
(* signal lowered by every reader or by decrementing it.                      *)
NoBarrier(from, to) ==
    /\ \E c \in Clients : pc[c] = from /\ Goto(c, to)
    /\ UNCHANGED <<queueVars, exist_task_signal, read_finish_flag>>

RunModelUnsynchronised == NoBarrier("b3", "top")

BeforeCheckUnsynchronised == NoBarrier("b2", "check")

ReadTasksAnyLowers(c) ==
    /\ pc[c] = "get"
    /\ GetTasks(c)
    /\ Goto(c, "reset")
    /\ UNCHANGED <<exist_task_signal, read_finish_flag>>

LowerSignalDecrement(c) ==
    /\ pc[c] = "reset"
    /\ exist_task_signal' = exist_task_signal - 1
    /\ read_finish_flag' = read_finish_flag - 1
    /\ Goto(c, "b3")
    /\ UNCHANGED queueVars

(* Top of the loop.  Rank 0 writes 2 when the engine has asked for a weight *)
(* update (model_weights_status, another component's state), else 0.        *)
ClearSignal(c) ==
    /\ pc[c] = "top"
    /\ IF c = Rank0 THEN exist_task_signal' \in {0, 2}
                    ELSE UNCHANGED exist_task_signal
    /\ Goto(c, "b1")
    /\ UNCHANGED <<queueVars, read_finish_flag>>

BeforeDetect == Barrier("b1", "detect")

(* A leading rank reads num_tasks under the queue's lock and finds tasks. *)
DetectTasks(c) ==
    /\ pc[c] = "detect"
    /\ c \in Leaders
    /\ Len(tasks) > 0
    /\ Goto(c, "set")
    /\ UNCHANGED <<queueVars, exist_task_signal, read_finish_flag>>

(* The other outcomes: not a leading rank, no tasks, or tasks that must wait *)
(* because a multimodal model is still in prefill (worker.exist_prefill).    *)
DetectNothing(c) ==
    /\ pc[c] = "detect"
    /\ c \notin Leaders \/ Len(tasks) = 0 \/ MultiModal
    /\ Goto(c, "b2")
    /\ UNCHANGED <<queueVars, exist_task_signal, read_finish_flag>>

RaiseSignal(c) ==
    /\ pc[c] = "set"
    /\ IF MultiNode
          THEN read_finish_flag' = 1 /\ UNCHANGED exist_task_signal
          ELSE exist_task_signal' = 1 /\ UNCHANGED read_finish_flag
    /\ Goto(c, "b2")
    /\ UNCHANGED queueVars

BeforeCheck == Barrier("b2", "check")

SignalRaised == exist_task_signal = 1 \/ read_finish_flag = 1

CheckSignal(c) ==
    /\ pc[c] = "check"
    /\ Goto(c, IF SignalRaised THEN "get" ELSE "b3")
    /\ UNCHANGED <<queueVars, exist_task_signal, read_finish_flag>>

(* get_tasks returns read_finish to the last reader only. *)
ReadTasks(c) ==
    /\ pc[c] = "get"
    /\ GetTasks(c)
    /\ Goto(c, IF AllRead(client_read_flag') THEN "reset" ELSE "b3")
    /\ UNCHANGED <<exist_task_signal, read_finish_flag>>

LowerSignal(c) ==
    /\ pc[c] = "reset"
    /\ exist_task_signal' = 0
    /\ read_finish_flag' = 0
    /\ Goto(c, "b3")
    /\ UNCHANGED queueVars

RunModel == Barrier("b3", "top")

RankStep(c) ==
    \/ ClearSignal(c) \/ DetectTasks(c) \/ DetectNothing(c) \/ RaiseSignal(c)
    \/ CheckSignal(c) \/ ReadTasks(c) \/ LowerSignal(c)

Next ==
    \/ PutTasks /\ UNCHANGED workerVars
    \/ PutCacheInfo /\ UNCHANGED workerVars
    \/ \E c \in Clients : GetCacheInfo(c) /\ UNCHANGED workerVars
    \/ \E c \in Clients : RankStep(c)
    \/ BeforeDetect \/ BeforeCheck \/ RunModel

Spec == Init /\ [][Next]_vars

(* Every rank keeps running its loop, and every cache messager keeps polling. *)
(* A multimodal prefill ends, so a leading rank that looks again and again    *)
(* while tasks are queued does not find the model in prefill every time: that *)
(* is the strong fairness of DetectTasks.                                     *)
Fairness ==
    /\ \A c \in Clients :
          /\ WF_vars(RankStep(c))
          /\ SF_vars(DetectTasks(c))
          /\ WF_vars(GetCacheInfo(c) /\ UNCHANGED workerVars)
    /\ WF_vars(BeforeDetect) /\ WF_vars(BeforeCheck) /\ WF_vars(RunModel)

FairSpec == Spec /\ Fairness

-----------------------------------------------------------------------------
(* Type correctness of the queue and of the ranks' loop. *)
TypeOK ==
    /\ QueueTypeOK
    /\ exist_task_signal \in {0, 1, 2}
    /\ read_finish_flag \in {0, 1}
    /\ pc \in [Clients -> {"top", "b1", "detect", "set", "b2",
                            "check", "get", "reset", "b3"}]

(* No rank loses, repeats or reorders a batch, although get_tasks itself does *)
(* not stop a rank from reading twice: a rank whose read flag is up has read  *)
(* everything that was put, one whose flag is down lacks exactly the batch    *)
(* that is in the list.                                                       *)
ExactlyOnce ==
    \A c \in Clients :
        IF client_read_flag[c] = 1
        THEN got[c] = sent
        ELSE Len(tasks) = 1 /\ sent = Append(got[c], tasks[1])

(* The same for the cache-info channel, whose readers do not synchronise with *)
(* one another and rely on get_cache_info's own guard.                        *)
InfoExactlyOnce ==
    \A c \in Clients :
        IF client_read_info_flag[c] = 1
        THEN infoGot[c] = infoSent
        ELSE infoSent = infoGot[c] \o cache_infos

(* Whenever the ranks enter execute_model together they have all read the     *)
(* same batches: a rank that ran a step without the newest batch would hang   *)
(* or corrupt the tensor-parallel collectives of that step.                   *)
Lockstep ==
    (\A c \in Clients : pc[c] = "b3") =>
        \A c, d \in Clients : got[c] = got[d]

(* A put that arrives while the last reader is still lowering the signal is   *)
(* not lost: every batch put is read by every rank (the signal is re-derived  *)
(* from the list in the next pass).                                           *)
EveryBatchRead ==
    \A n \in 1 .. MaxBatches :
        Len(sent) >= n ~> \A c \in Clients : Len(got[c]) >= n

(* Why the above hold.  The two barriers and the model step cut a pass into   *)
(* three phases that no two ranks straddle, and the signal is raised only     *)
(* while some rank still has to read the batch it announces.                  *)
ClearPhase == {"top", "b1"}
DetectPhase == {"detect", "set", "b2"}
ReadPhase == {"check", "get", "reset", "b3"}

SamePhase ==
    \A c, d \in Clients :
        \A phase \in {ClearPhase, DetectPhase, ReadPhase} :
            pc[c] \in phase => pc[d] \in phase

SameBatches == \A c, d \in Clients : got[c] = got[d]

ReadsAreDue ==
    \A c \in Clients :
        /\ pc[c] \in ClearPhase => ~SignalRaised
        /\ pc[c] = "set" \/ (pc[c] \in DetectPhase /\ SignalRaised)
              => \A d \in Clients : client_read_flag[d] = 0
        /\ pc[c] = "check" /\ SignalRaised => client_read_flag[c] = 0
        /\ pc[c] = "get" => SignalRaised /\ client_read_flag[c] = 0
        /\ pc[c] = "reset" => \A d \in Clients \ {c} : pc[d] = "b3"
        /\ pc[c] = "b3" /\ SignalRaised
              => \/ client_read_flag[c] = 1
                 \/ \E d \in Clients : pc[d] = "reset"
        /\ pc[c] \in ReadPhase /\ SignalRaised
              => \E d \in Clients : pc[d] \in {"check", "get", "reset"}
        /\ pc[c] \in ClearPhase \cup DetectPhase \cup {"reset"} => SameBatches

QuietInv ==
    /\ ~SignalRaised => SameBatches
    /\ AllRead(client_read_flag) => tasks = << >>

(* The inductive invariant: what the phases guarantee about the signal, the   *)
(* read flags and the batches each rank holds at every point of the loop.     *)
PhaseInv == SamePhase /\ ReadsAreDue /\ QuietInv

(* The queue read by the loop implements a reliable broadcast with one        *)
(* outstanding batch (TaskBroadcast).                                         *)
Broadcast == INSTANCE TaskBroadcast WITH log <- sent, seen <- got
ImplementsBroadcast == Broadcast!Spec
=============================================================================
