-------------------------- MODULE EngineWorkerQueue --------------------------
(***************************************************************************)
(* The two broadcast channels of fastdeploy/inter_communicator/            *)
(* engine_worker_queue.py: the task channel (put_tasks, get_tasks) by      *)
(* which the engine hands each batch to every tensor-parallel rank, and    *)
(* the cache-info channel (put_cache_info, get_cache_info) by which it     *)
(* hands KV-cache transfer descriptions to every rank's cache messager.    *)
(*                                                                         *)
(* Both methods of a channel run under that channel's lock, and a blocked  *)
(* put re-tests its condition after it re-acquires the lock, so a method   *)
(* is one atomic step.  Several engine threads may put; because the step   *)
(* is atomic, their calls are interleaved here as those of one producer.   *)
(*                                                                         *)
(* A batch is its position in the order of the puts.  sent and got are     *)
(* history: what was put, and what each rank has taken out.                *)
(***************************************************************************)
EXTENDS Naturals, Sequences

CONSTANTS
    Clients,        \* the ranks that read the queue (num_client of them)
    MaxBatches,     \* bound: put_tasks calls
    MaxInfoPuts     \* bound: put_cache_info calls

ASSUME ClientsAssumption == Clients # {}
ASSUME BoundsAssumption == MaxBatches \in Nat /\ MaxInfoPuts \in Nat

VARIABLES
    tasks,                  \* the shared task list
    client_read_flag,       \* rank -> 1 once it has read the current batch
    sent,                   \* history: batches put, in order
    got,                    \* history: rank -> batches it has read, in order
    cache_infos,            \* the shared cache-info list
    client_read_info_flag,  \* rank -> 1 once it has read the current infos
    infoPuts,               \* number of put_cache_info calls so far
    infoSent,               \* history: infos put, in order
    infoGot                 \* history: rank -> infos it has read, in order

taskVars == <<tasks, client_read_flag, sent, got>>
infoVars == <<cache_infos, client_read_info_flag, infoPuts, infoSent, infoGot>>
queueVars == <<taskVars, infoVars>>

-----------------------------------------------------------------------------
(* __init__ of the server: empty lists, every client marked as having read. *)
QueueInit ==
    /\ tasks = << >>
    /\ client_read_flag = [c \in Clients |-> 1]
    /\ sent = << >>
    /\ got = [c \in Clients |-> << >>]
    /\ cache_infos = << >>
    /\ client_read_info_flag = [c \in Clients |-> 1]
    /\ infoPuts = 0
    /\ infoSent = << >>
    /\ infoGot = [c \in Clients |-> << >>]

AllRead(flag) == \A c \in Clients : flag[c] = 1

(* Variants used to show that the properties can fail: a put that does not   *)
(* wait, a put that empties the list after appending, a get without a guard.  *)
PutTasksNoWait ==
    /\ Len(sent) < MaxBatches
    /\ tasks' = <<Len(sent) + 1>>
    /\ sent' = Append(sent, Len(sent) + 1)
    /\ client_read_flag' = [c \in Clients |-> 0]
    /\ UNCHANGED <<got, infoVars>>

PutTasksClearLast ==
    /\ Len(sent) < MaxBatches
    /\ AllRead(client_read_flag)
    /\ sent' = Append(sent, Len(sent) + 1)
    /\ client_read_flag' = [c \in Clients |-> 0]
    /\ UNCHANGED <<tasks, got, infoVars>>

GetCacheInfoUnguarded(c) ==
    /\ infoGot' = [infoGot EXCEPT ![c] = @ \o cache_infos]
    /\ client_read_info_flag' = [client_read_info_flag EXCEPT ![c] = 1]
    /\ cache_infos' = IF AllRead(client_read_info_flag') THEN << >> ELSE cache_infos
    /\ UNCHANGED <<taskVars, infoPuts, infoSent>>

(* put_tasks: waits until every client has read the previous batch. *)
PutTasks ==
    /\ Len(sent) < MaxBatches
    /\ AllRead(client_read_flag)
    /\ LET batch == Len(sent) + 1
       IN  /\ tasks' = <<batch>>
           /\ sent' = Append(sent, batch)
    /\ client_read_flag' = [c \in Clients |-> 0]
    /\ UNCHANGED <<got, infoVars>>

(* get_tasks by rank c: takes whatever the list holds, marks c as having    *)
(* read, and the last reader empties the list.  There is no test that c has *)
(* not read before: that is left to the caller.                             *)
GetTasks(c) ==
    /\ got' = [got EXCEPT ![c] = @ \o tasks]
    /\ client_read_flag' = [client_read_flag EXCEPT ![c] = 1]
    /\ tasks' = IF AllRead(client_read_flag') THEN << >> ELSE tasks
    /\ UNCHANGED <<sent, infoVars>>

(* put_cache_info: the same handshake for a list of one or two infos. *)
PutCacheInfo ==
    /\ infoPuts < MaxInfoPuts
    /\ AllRead(client_read_info_flag)
    /\ \E n \in {1, 2} :
          LET infos == [i \in 1 .. n |-> Len(infoSent) + i]
          IN  /\ cache_infos' = infos
              /\ infoSent' = infoSent \o infos
    /\ client_read_info_flag' = [c \in Clients |-> 0]
    /\ infoPuts' = infoPuts + 1
    /\ UNCHANGED <<taskVars, infoGot>>

(* get_cache_info by rank c's cache messager: polled at any time, returns   *)
(* nothing to a rank that has already read.                                 *)
GetCacheInfo(c) ==
    /\ client_read_info_flag[c] = 0
    /\ infoGot' = [infoGot EXCEPT ![c] = @ \o cache_infos]
    /\ client_read_info_flag' = [client_read_info_flag EXCEPT ![c] = 1]
    /\ cache_infos' = IF AllRead(client_read_info_flag') THEN << >> ELSE cache_infos
    /\ UNCHANGED <<taskVars, infoPuts, infoSent>>

-----------------------------------------------------------------------------
QueueTypeOK ==
    /\ tasks \in Seq(Nat)
    /\ client_read_flag \in [Clients -> {0, 1}]
    /\ sent \in Seq(Nat)
    /\ got \in [Clients -> Seq(Nat)]
    /\ cache_infos \in Seq(Nat)
    /\ client_read_info_flag \in [Clients -> {0, 1}]
    /\ infoPuts \in Nat
    /\ infoSent \in Seq(Nat)
    /\ infoGot \in [Clients -> Seq(Nat)]
=============================================================================
