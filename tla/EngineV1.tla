------------------------------ MODULE EngineV1 ------------------------------
(***************************************************************************)
(* The engine with the v1 scheduler (ENABLE_V1_KVCACHE_SCHEDULER=1): the   *)
(* threads around ResourceManagerV1 and the worker they drive.             *)
(*                                                                         *)
(*   engine loop      common_engine.py _scheduler_task_to_worker_v1        *)
(*   fetching thread  its nested _fetch_request                            *)
(*   worker           gpu_model_runner.py insert_tasks_v1, and the model   *)
(*                    step with its post-processing kernels                *)
(*   token processor  token_processor.py _process_batch_output             *)
(*   finish pool      resource_manager_v1.py finish_requests_async         *)
(*                                                                         *)
(* The task queue holds at most one batch and the worker is one rank       *)
(* (WorkerProcess shows that the ranks act as one).  The output message    *)
(* queue between worker and token processor is FIFO.  A token is "tok",    *)
(* "eos", or "none" for the -1 of a position that generated nothing; the   *)
(* request that generated it is history and no step looks at it.  So are   *)
(* premature and stray, which record when two kinds of trouble began.      *)
(***************************************************************************)
EXTENDS ResourceManagerV1

CONSTANTS
    Arrivals,       \* the requests, in the order the scheduler hands them out
    MaxTokens,      \* max_tokens of a request
    MinTokens,      \* min_tokens of a request
    WithStops,      \* the requests that have stop sequences
    MaxMsgs,        \* bound: output messages in flight
    MaxJobs,        \* bound: submitted and not yet started _fetch_request calls
    Nothing         \* no batch, no message

\* the scheduler refuses an id it still holds, and clients do not reuse one
ASSUME ArrivalsAssumption ==
    /\ Arrivals \in Seq(Requests)
    /\ \A i, j \in 1 .. Len(Arrivals) : i # j => Arrivals[i] # Arrivals[j]
ASSUME SamplingAssumption ==
    MaxTokens \in Nat \ {0} /\ MinTokens \in 0 .. MaxTokens /\ WithStops \subseteq Requests
ASSUME BoundsAssumption == MaxMsgs \in Nat /\ MaxJobs \in Nat

VARIABLES
    epc,            \* engine loop: "top", "chk" (waiting was empty), "go"
    queue,          \* the batch in the engine-worker queue, or Nothing
    pending,        \* requests the scheduler still holds
    jobs,           \* submitted _fetch_request calls
    is_fetching,    \* the flag shared with _fetch_request
    fetched,        \* requests fetched and not yet added; Nothing when idle
    slot,           \* worker: share_inputs of each position
    wbsz,           \* worker: rows of seq_lens_this_time
    not_need_stop,  \* worker: some position is live
    crashed,        \* worker: a task without a position was inserted
    stray,          \* history: a stopped or mid-prompt position sent a token
    msgs,           \* output messages in flight
    tmsg,           \* token processor: the message in hand, or Nothing
    tids,           \* ... copied ids still to look at
    tslot,          \* ... position under the loop
    tpc,            \* ... "ids", "scan" (before stop_flags), "read" (after)
    finishing,      \* finish pool: submitted calls, in order
    premature       \* history: a request was rescheduled undrained

loopVars == <<epc, queue>>
fetchVars == <<pending, jobs, is_fetching, fetched>>
workerVars == <<slot, wbsz, not_need_stop, crashed, stray>>
tokenVars == <<tmsg, tids, tslot, tpc>>
vars == <<rmVars, loopVars, fetchVars, workerVars, msgs, tokenVars, finishing, premature>>

Tokens == {"none", "tok", "eos"}

EmptySlot == [live |-> FALSE, hit |-> FALSE, step |-> FALSE, blk |-> {}, pos |-> 0, len |-> 0,
              plen |-> 0, out |-> 0, req |-> NoReq]

Init ==
    /\ RMInit
    /\ epc = "top" /\ queue = Nothing
    /\ pending = Arrivals /\ jobs = 0 /\ is_fetching = FALSE /\ fetched = Nothing
    /\ slot = [s \in Slots |-> EmptySlot]
    /\ wbsz = 0 /\ not_need_stop = FALSE /\ crashed = FALSE /\ stray = FALSE
    /\ msgs = << >>
    /\ tmsg = Nothing /\ tids = {} /\ tslot = 0 /\ tpc = "ids"
    /\ finishing = << >>
    /\ premature = FALSE

-----------------------------------------------------------------------------
(* Engine loop.  It goes on once the worker has taken the last batch; the    *)
(* tests of waiting and of is_fetching are two reads without a lock.         *)
LoopTop ==
    /\ spc = "idle" /\ epc = "top"
    /\ queue = Nothing
    /\ epc' = IF waiting = << >> THEN "chk" ELSE "go"
    /\ UNCHANGED <<rmVars, queue, fetchVars, workerVars, msgs, tokenVars, finishing, premature>>

(* exist_prefill_task_signal may hold the fetch back.  A fetch that would    *)
(* find nothing pending changes nothing and is left out.                     *)
LoopFetch ==
    /\ epc = "chk"
    /\ \/ ~is_fetching /\ jobs < MaxJobs /\ pending # << >> /\ jobs' = jobs + 1
       \/ UNCHANGED jobs
    /\ epc' = "go"
    /\ UNCHANGED <<rmVars, queue, pending, is_fetching, fetched, workerVars, msgs,
                   tokenVars, finishing, premature>>

LoopSchedule ==
    /\ epc = "go"
    /\ ScheduleBegin
    /\ UNCHANGED <<loopVars, fetchVars, workerVars, msgs, tokenVars, finishing, premature>>

LoopScheduleStep ==
    /\ ScheduleStep
    /\ UNCHANGED <<loopVars, fetchVars, workerVars, msgs, tokenVars, finishing, premature>>

(* put_tasks serialises the tasks as they are now: a prefill task is the     *)
(* request itself, a decode or preempt task was filled in by schedule().     *)
Serialised(task) ==
    IF task.type = "PREFILL"
    THEN [type |-> "PREFILL", req |-> task.req, slot |-> idx[task.req],
          blk |-> block_tables[task.req], start |-> task.start, end |-> task.end,
          total |-> TotalTokens(task.req), out |-> output[task.req]]
    ELSE task

LoopSend ==
    /\ spc = "send"
    /\ IF scheduled = {}
          THEN UNCHANGED <<queue, real_bsz>>
          ELSE \E b \in 0 .. MaxSeqs :
                  /\ IsRealBsz(b)
                  /\ real_bsz' = b
                  /\ queue' = [tasks |-> {Serialised(t) : t \in scheduled}, bsz |-> b]
    /\ spc' = "idle" /\ scheduled' = {} /\ epc' = "top"
    /\ cursor' = 1 /\ budget' = 0 /\ preempted' = FALSE
    /\ UNCHANGED <<poolVars, reqVars, queueVars, tasks_list, stopped, output,
                   fetchVars, workerVars, msgs, tokenVars, finishing, premature>>

-----------------------------------------------------------------------------
(* Fetching thread.  How many of the requests it asks for the scheduler      *)
(* returns is the scheduler's business; it asks for as many as there are     *)
(* free positions when the call starts.                                      *)
FetchTake ==
    /\ jobs > 0 /\ fetched = Nothing
    /\ jobs' = jobs - 1
    /\ is_fetching' = TRUE
    /\ \E k \in 0 .. Len(pending) :
          /\ k <= Cardinality(stopped)
          /\ fetched' = SubSeq(pending, 1, k)
          /\ pending' = SubSeq(pending, k + 1, Len(pending))
    /\ UNCHANGED <<rmVars, loopVars, workerVars, msgs, tokenVars, finishing, premature>>

FetchAdd ==
    /\ fetched # Nothing /\ fetched # << >>
    /\ AddRequest(Head(fetched))
    /\ fetched' = Tail(fetched)
    /\ UNCHANGED <<loopVars, pending, jobs, is_fetching, workerVars, msgs, tokenVars, finishing, premature>>

FetchEnd ==
    /\ fetched = << >>
    /\ fetched' = Nothing
    /\ is_fetching' = FALSE
    /\ UNCHANGED <<rmVars, loopVars, pending, jobs, workerVars, msgs, tokenVars, finishing, premature>>

-----------------------------------------------------------------------------
(* Worker.  insert_tasks_v1 on one position. *)
Inserted(s, tasks) ==
    IF \E t \in tasks : t.slot = s
    THEN LET t == CHOOSE t \in tasks : t.slot = s
         IN  CASE t.type = "PREFILL" ->
                    [live |-> TRUE, hit |-> FALSE, step |-> FALSE, blk |-> t.blk, pos |-> t.start,
                     len |-> t.end - t.start, plen |-> t.total,
                     out |-> IF t.end >= t.total THEN t.out ELSE 0, req |-> t.req]
               [] t.type = "DECODE" -> [slot[s] EXCEPT !.blk = t.blk]
               [] t.type = "PREEMPTED" ->
                    [slot[s] EXCEPT !.blk = {}, !.live = FALSE, !.len = 0,
                                    !.pos = 0, !.step = FALSE]
    ELSE slot[s]

(* Mutant: blocks for a stopped position do not wake the model. *)
WakesModelByPrefill(t) == t.type = "PREFILL"

(* A prefill, or blocks for a position that had stopped for want of them,    *)
(* make the model run again.                                                 *)
WakesModel(t) == t.type = "PREFILL" \/ (t.type = "DECODE" /\ slot[t.slot].step)

(* recover_decode_task: a position waiting for a block has received it. *)
Recovered(w) ==
    IF w.step /\ w.pos \div BlockSize < Cardinality(w.blk)
    THEN [w EXCEPT !.step = FALSE, !.len = 1, !.live = TRUE]
    ELSE w

(* The next chunk of the prompt is not the last one. *)
MidPrompt(w) == w.pos + w.len < w.plen

(* What a live position generates: the end token at max_tokens, or sampled   *)
(* once min_tokens are out, in mid-prompt too, where every other token is    *)
(* put back to -1.                                                           *)
Sampled(w) ==
    IF w.out + 1 >= MaxTokens THEN {"eos"}
    ELSE (IF w.out >= MinTokens THEN {"eos"} ELSE {})
            \cup {IF MidPrompt(w) THEN "none" ELSE "tok"}

(* set_value_by_flags: a stop sequence found at the end of what the position *)
(* was fed ("hit") makes it send the end token.  The kernel looks for it in  *)
(* stopped positions too, and what it compares changes only when the         *)
(* position goes on: a position that was hit is hit in every later step.     *)
Outcomes == Tokens \cup {"hit"}
Emitted(outcome) == IF outcome = "hit" THEN "eos" ELSE outcome
Choices(w) ==
    IF w.live THEN Sampled(w) \cup (IF w.req \in WithStops THEN {"hit"} ELSE {})
    ELSE {IF w.hit THEN "hit" ELSE "none"}

Stopped(w, outcome) ==
    [w EXCEPT !.live = FALSE, !.hit = outcome = "hit", !.len = 0,
              !.pos = IF w.step THEN w.pos ELSE 0,
              !.out = IF w.live THEN @ + 1 ELSE @]
OutOfBlocks(w, p) ==
    [w EXCEPT !.pos = p, !.out = @ + 1, !.live = FALSE, !.step = TRUE, !.len = 0]
DecodingOn(w, p) ==
    [w EXCEPT !.pos = p, !.out = @ + 1, !.live = TRUE, !.step = FALSE, !.len = 1]

(* Mutants: an end token does not stop the position; the block after the     *)
(* last is written to.                                                       *)
AdvancedPastEos(w, outcome) ==
    LET p == w.pos + w.len
    IN  IF outcome = "none" THEN Stopped(w, outcome)
        ELSE IF p \div BlockSize >= Cardinality(w.blk) THEN OutOfBlocks(w, p)
        ELSE DecodingOn(w, p)
AdvancedPastBlocks(w, outcome) ==
    LET p == w.pos + w.len
    IN  IF outcome # "tok" THEN Stopped(w, outcome)
        ELSE IF p \div BlockSize > Cardinality(w.blk) THEN OutOfBlocks(w, p)
        ELSE DecodingOn(w, p)

(* update_inputs_v1: stopped, in mid-prompt, out of blocks, or decoding on. *)
Advanced(w, outcome) ==
    LET p == w.pos + w.len
    IN  IF outcome # "tok" THEN Stopped(w, outcome)
        ELSE IF p \div BlockSize >= Cardinality(w.blk) THEN OutOfBlocks(w, p)
        ELSE DecodingOn(w, p)

(* The tasks and the number of rows of the next pass, whether it will run    *)
(* the model, and each position as the model step will find it.              *)
NextTasks == IF queue = Nothing THEN {} ELSE queue.tasks
NextBsz == IF queue = Nothing THEN wbsz ELSE queue.bsz
ModelRuns == not_need_stop \/ \E t \in NextTasks : t.slot # NoSlot /\ WakesModel(t)
StepInput ==
    [s \in Slots |->
        IF ModelRuns /\ s \in 0 .. NextBsz - 1
        THEN Recovered(Inserted(s, NextTasks)) ELSE Inserted(s, NextTasks)]

(* History: a token from a position that is stopped, or that has not reached *)
(* the end of its prompt.                                                    *)
IsStray(w, outcome) == outcome # "none" /\ (~w.live \/ MidPrompt(w))

(* One pass of the worker's loop: take the batch if there is one, then run   *)
(* the model unless every position is stopped.  Only the first NextBsz       *)
(* positions take part in a step and are reported.                           *)
WorkerPass ==
    /\ ~crashed
    /\ Len(msgs) < MaxMsgs
    /\ queue # Nothing \/ not_need_stop
    /\ queue' = Nothing
    /\ wbsz' = NextBsz
    /\ IF \E t \in NextTasks : t.slot = NoSlot
       THEN /\ crashed' = TRUE
            /\ UNCHANGED <<slot, not_need_stop, stray, msgs>>
       ELSE /\ UNCHANGED crashed
            /\ IF ~ModelRuns
               THEN slot' = StepInput /\ UNCHANGED <<not_need_stop, stray, msgs>>
               ELSE \E outcome \in [0 .. NextBsz - 1 -> Outcomes] :
                      LET input == StepInput
                          part == 0 .. NextBsz - 1
                      IN  /\ \A s \in part : outcome[s] \in Choices(input[s])
                          /\ slot' = [s \in Slots |->
                                IF s \in part THEN Advanced(input[s], outcome[s]) ELSE input[s]]
                          /\ not_need_stop' = \E s \in part : slot'[s].live
                          /\ stray' = (stray \/ \E s \in part : IsStray(input[s], outcome[s]))
                          /\ msgs' = Append(msgs,
                                [bsz |-> NextBsz,
                                 tok |-> [s \in part |-> Emitted(outcome[s])],
                                 by |-> [s \in part |-> input[s].req]])
    /\ UNCHANGED <<rmVars, epc, fetchVars, tokenVars, finishing, premature>>

-----------------------------------------------------------------------------
(* Token processor.  It copies to_be_rescheduled_request_id_set. *)
TokenTake ==
    /\ tmsg = Nothing /\ msgs # << >>
    /\ tmsg' = Head(msgs) /\ msgs' = Tail(msgs)
    /\ tids' = resched /\ tslot' = 0 /\ tpc' = "ids"
    /\ UNCHANGED <<rmVars, loopVars, fetchVars, workerVars, finishing, premature>>

(* r is not done: tokens it generated are still to be processed, it can still *)
(* generate some because the worker has not seen its preemption, or its last  *)
(* token has been processed and finish_requests is still to run.              *)
NotDrained(r) ==
    \/ r \in Members(finishing)
    \/ \E i \in 1 .. Len(msgs) : \E s \in Slots :
          s < msgs[i].bsz /\ msgs[i].by[s] = r /\ msgs[i].tok[s] # "none"
    \/ \E s \in Slots :
          tslot <= s /\ s < tmsg.bsz /\ tmsg.by[s] = r /\ tmsg.tok[s] # "none"
    \/ slot[idx[r]].live /\ slot[idx[r]].req = r

Reschedule(r) ==
    /\ ReschedulePreemptTask(r)
    /\ premature' = (premature \/ (r \in resched /\ r \in requests /\ NotDrained(r)))

(* An exception leaves the message; the positions not yet reached get        *)
(* nothing.                                                                  *)
TokenDrop == tmsg' = Nothing /\ tids' = {} /\ tslot' = 0 /\ tpc' = "ids"

(* A copied id: self.requests[id] (it may be gone by now), and a position at *)
(* or past the last of this message means no more tokens will come.          *)
TokenLookAt(r) ==
    /\ tmsg # Nothing /\ tpc = "ids" /\ r \in tids
    /\ IF r \notin requests \/ idx[r] = NoSlot
       THEN TokenDrop /\ UNCHANGED <<rmVars, premature>>
       ELSE /\ tids' = tids \ {r}
            /\ IF idx[r] >= tmsg.bsz - 1
                  THEN Reschedule(r)
                  ELSE UNCHANGED <<rmVars, premature>>
            /\ UNCHANGED <<tmsg, tslot, tpc>>
    /\ UNCHANGED <<loopVars, fetchVars, workerVars, msgs, finishing>>

(* stop_flags[i]: a free position is skipped. *)
TokenScan ==
    /\ tmsg # Nothing /\ tids = {} /\ tpc \in {"ids", "scan"}
    /\ IF tslot >= tmsg.bsz THEN TokenDrop
       ELSE IF tslot \in stopped
            THEN tslot' = tslot + 1 /\ tpc' = "scan" /\ UNCHANGED <<tmsg, tids>>
            ELSE tpc' = "read" /\ UNCHANGED <<tmsg, tids, tslot>>
    /\ UNCHANGED <<rmVars, loopVars, fetchVars, workerVars, msgs, finishing, premature>>

TokenNext == tslot' = tslot + 1 /\ tpc' = "scan" /\ UNCHANGED <<tmsg, tids>>

(* tasks_list[i], read after stop_flags[i]: the finish pool may have freed   *)
(* the position in between.                                                  *)
TokenRead ==
    /\ tmsg # Nothing /\ tpc = "read"
    /\ LET r == tasks_list[tslot]
           token == tmsg.tok[tslot]
       IN  \/ /\ r = NoReq
              /\ TokenDrop
              /\ UNCHANGED <<rmVars, finishing, premature>>
           \/ /\ r # NoReq /\ token = "none"
              /\ IF r \in resched THEN Reschedule(r) ELSE UNCHANGED <<rmVars, premature>>
              /\ TokenNext
              /\ UNCHANGED finishing
           \/ /\ r # NoReq /\ token # "none"
              /\ output' = [output EXCEPT ![r] = @ + 1]
              /\ finishing' = IF token = "eos" THEN Append(finishing, r) ELSE finishing
              /\ TokenNext
              /\ UNCHANGED <<poolVars, reqVars, queueVars, slotVars, schedVars, premature>>
    /\ UNCHANGED <<loopVars, fetchVars, workerVars, msgs>>

-----------------------------------------------------------------------------
(* Finish pool: one thread, calls in order. *)
Finish ==
    /\ finishing # << >>
    /\ FinishRequests(Head(finishing))
    /\ finishing' = Tail(finishing)
    /\ UNCHANGED <<loopVars, fetchVars, workerVars, msgs, tokenVars, premature>>

Next ==
    \/ LoopTop \/ LoopFetch \/ LoopSchedule \/ LoopScheduleStep \/ LoopSend
    \/ FetchTake \/ FetchAdd \/ FetchEnd
    \/ WorkerPass
    \/ TokenTake \/ (\E r \in Requests : TokenLookAt(r)) \/ TokenScan \/ TokenRead
    \/ Finish

Spec == Init /\ [][Next]_vars

-----------------------------------------------------------------------------
SlotOrNone == Slots \cup {NoSlot}
ReqOrNone == Requests \cup {NoReq}
DecodeTasks == [type : {"DECODE"}, req : Requests, slot : SlotOrNone, blk : SUBSET Blocks]
PreemptTasks == [type : {"PREEMPTED"}, req : Requests, slot : SlotOrNone]
ScheduledTasks == DecodeTasks \cup PreemptTasks
    \cup [type : {"PREFILL"}, req : Requests, start : Nat, end : Nat]
SentTasks == DecodeTasks \cup PreemptTasks
    \cup [type : {"PREFILL"}, req : Requests, slot : SlotOrNone, blk : SUBSET Blocks,
          start : Nat, end : Nat, total : Nat, out : Nat]
Batches == [tasks : SUBSET SentTasks, bsz : 0 .. MaxSeqs]
SlotStates == [live : BOOLEAN, hit : BOOLEAN, step : BOOLEAN, blk : SUBSET Blocks, pos : Int, len : Int,
               plen : Nat, out : Nat, req : ReqOrNone]
PerPosition(S) == UNION {[0 .. b - 1 -> S] : b \in 0 .. MaxSeqs}
Messages == [bsz : 0 .. MaxSeqs, tok : PerPosition(Tokens), by : PerPosition(ReqOrNone)]

\* the absence of a batch is not a batch
ASSUME NothingAssumption == Nothing \notin Batches

RMTypeOK ==
    /\ waiting \in Seq(Requests) /\ running \in Seq(Requests)
    /\ requests \in SUBSET Requests /\ resched \in SUBSET Requests
    /\ status \in [Requests -> {"WAITING", "RUNNING", "PREEMPTED", "FINISHED"}]
    /\ idx \in [Requests -> SlotOrNone]
    /\ block_tables \in [Requests -> SUBSET Blocks] /\ free \in SUBSET Blocks
    /\ computed \in [Requests -> Nat] /\ need \in [Requests -> Nat]
    /\ output \in [Requests -> Nat]
    /\ tasks_list \in [Slots -> ReqOrNone]
    /\ stopped \in SUBSET Slots /\ real_bsz \in 0 .. MaxSeqs
    /\ spc \in {"idle", "run", "wait", "send"}
    /\ cursor \in Nat \ {0} /\ budget \in Int /\ preempted \in BOOLEAN
    /\ scheduled \in SUBSET ScheduledTasks

(* The types of the state.  Messages and batches never name a position that  *)
(* does not exist.                                                           *)
TypeOK ==
    /\ RMTypeOK
    /\ epc \in {"top", "chk", "go"} /\ queue \in Batches \cup {Nothing}
    /\ pending \in Seq(Requests) /\ jobs \in Nat /\ is_fetching \in BOOLEAN
    /\ fetched \in Seq(Requests) \cup {Nothing}
    /\ slot \in [Slots -> SlotStates] /\ wbsz \in 0 .. MaxSeqs
    /\ not_need_stop \in BOOLEAN /\ crashed \in BOOLEAN /\ stray \in BOOLEAN
    /\ msgs \in Seq(Messages)
    /\ tmsg \in Messages \cup {Nothing} /\ tids \in SUBSET Requests
    /\ tslot \in Nat /\ tpc \in {"ids", "scan", "read"}
    /\ finishing \in Seq(Requests) /\ premature \in BOOLEAN

(* allocate_gpu_blocks, recycle_gpu_blocks and every path that calls them:   *)
(* no block is lost, owned by two requests, or owned and free at once.       *)
BlocksConserved ==
    /\ \A r \in Requests : block_tables[r] \cap free = {}
    /\ \A q, r \in Requests : q # r => block_tables[q] \cap block_tables[r] = {}
    /\ free \cup UNION {block_tables[r] : r \in Requests} = Blocks

(* In no model step do two live positions of the worker use the same         *)
(* KV-cache block, although blocks are taken from a request, and given to    *)
(* another, before the worker hears of it.  A crashed worker takes no step.  *)
(* The property is claimed up to the first stray token: with that one a      *)
(* request may be finished while another, or it itself, is being computed.   *)
LiveSlotsDisjoint ==
    crashed \/ premature \/ stray \/ LET w == StepInput IN
        \A s, t \in Slots : s # t /\ w[s].live /\ w[t].live => w[s].blk \cap w[t].blk = {}

(* A token in flight will be credited to the request that generated it: the  *)
(* token processor finds that request, by position, in tasks_list.  Claimed  *)
(* up to the first stray token; what one does is EndsOnlyItsOwn.             *)
TokensReachTheirRequest ==
    premature \/ stray \/ \A i \in 1 .. Len(msgs) : \A s \in Slots :
        s < msgs[i].bsz /\ msgs[i].tok[s] # "none" => tasks_list[s] = msgs[i].by[s]

(* In no model step does a live position write past the blocks it was given, *)
(* and every live position takes part (seq_lens_this_time covers it).        *)
(* Claimed up to the first stray token.                                      *)
WorkerInBounds ==
    crashed \/ premature \/ stray \/ LET w == StepInput IN
        \A s \in Slots : w[s].live =>
            /\ w[s].pos + w[s].len <= BlockSize * Cardinality(w[s].blk)
            /\ s < NextBsz

(* A request is in at most one of running, waiting and                       *)
(* to_be_rescheduled_request_id_set, in each at most once, and a waiting one *)
(* has a status schedule() knows (with another, its loop would not end).     *)
OneQueue ==
    /\ \A i, j \in 1 .. Len(waiting) : i # j => waiting[i] # waiting[j]
    /\ \A i, j \in 1 .. Len(running) : i # j => running[i] # running[j]
    /\ Members(waiting) \cap Members(running) = {}
    /\ resched \cap (Members(waiting) \cup Members(running)) = {}
    /\ \A r \in Members(waiting) : status[r] \in {"WAITING", "PREEMPTED"}

(* token_processor.py: "No more token generated for preempted request" when  *)
(* it is put back into the waiting list.                                     *)
DrainedWhenRescheduled == ~premature

(* early_stop.md: a stop sequence ends the generation of the request that    *)
(* generated it.  A token in flight finds that request in tasks_list, or     *)
(* nobody, and never ends another one.                                       *)
EndsOnlyItsOwn ==
    \A i \in 1 .. Len(msgs) : \A s \in Slots :
        s < msgs[i].bsz /\ msgs[i].tok[s] # "none" => tasks_list[s] \in {msgs[i].by[s], NoReq}

(* sampling_params.py: max_tokens is the most a request generates; the token *)
(* processor never counts more for it.                                       *)
OutputBounded == \A r \in Requests : output[r] <= MaxTokens

-----------------------------------------------------------------------------
(* Fairness.  Every thread's loop keeps running: WF.  Three threads take the *)
(* lock that the engine loop holds during schedule(); the loop sleeps or     *)
(* waits for the worker between two calls, so a thread that asks for the     *)
(* lock gets it: SF.  The scheduler, asked again and again, hands out a      *)
(* request, and exist_prefill_task_signal is lowered again and again: SF on  *)
(* the answer that moves on.                                                 *)
EngineLoop == LoopTop \/ LoopFetch \/ LoopSchedule \/ LoopScheduleStep \/ LoopSend
TokenProcessor ==
    TokenTake \/ (\E r \in Requests : TokenLookAt(r)) \/ TokenScan \/ TokenRead
Submit == LoopFetch /\ jobs' # jobs
FetchSome == FetchTake /\ fetched' # << >>
Fairness ==
    /\ WF_vars(EngineLoop) /\ WF_vars(WorkerPass)
    /\ SF_vars(FetchAdd \/ FetchEnd) /\ SF_vars(TokenProcessor) /\ SF_vars(Finish)
    /\ SF_vars(Submit) /\ SF_vars(FetchSome)
FairSpec == Spec /\ Fairness

(* With blocks enough for every position, every request that arrives is      *)
(* served to its end token and leaves its position and blocks behind.        *)
EveryRequestFinishes ==
    \A i \in 1 .. Len(Arrivals) :
        <>[](status[Arrivals[i]] = "FINISHED" /\ Arrivals[i] \notin Members(running)
             /\ Arrivals[i] \notin requests)
=============================================================================
