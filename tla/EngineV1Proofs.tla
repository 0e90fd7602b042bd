--------------------------- MODULE EngineV1Proofs ---------------------------
(***************************************************************************)
(* EngineV1 for every number of requests, positions, blocks and messages:  *)
(* its state keeps its types, and no interleaving of schedule(), of the    *)
(* finish pool and of the token processor loses a KV-cache block or gives  *)
(* it to two requests, or puts a request into two queues.  What the worker *)
(* does late with what the manager sent it early is in order too: its      *)
(* positions share no block and stay in their blocks, and the tokens they  *)
(* yield are credited to their requests.                                   *)
(***************************************************************************)
EXTENDS EngineV1, SequenceTheorems, FiniteSetTheorems, TLAPS

(* The token processor looks at a position of its message. *)
ReadInRange == tpc = "read" /\ tmsg # Nothing => tslot < tmsg.bsz

IInv == TypeOK /\ ReadInRange /\ BlocksConserved

-----------------------------------------------------------------------------
(* allocate_gpu_blocks takes free blocks, for one request. *)
LEMMA AllocateConserves ==
    ASSUME RMTypeOK, BlocksConserved, NEW r \in Requests, NEW n, Allocate(r, n)
    PROVE  /\ block_tables' \in [Requests -> SUBSET Blocks]
           /\ free' \in SUBSET Blocks
           /\ BlocksConserved'
<1>1. PICK new \in SUBSET free :
          /\ free' = free \ new
          /\ block_tables' = [block_tables EXCEPT ![r] = @ \cup new]
  BY DEF Allocate
<1>2. block_tables \in [Requests -> SUBSET Blocks] /\ free \in SUBSET Blocks
  BY DEF RMTypeOK
<1>3. \A q \in Requests : block_tables'[q] = IF q = r THEN block_tables[r] \cup new
                                             ELSE block_tables[q]
  BY <1>1, <1>2
<1>4. block_tables' \in [Requests -> SUBSET Blocks]
  BY <1>1, <1>2
<1>5. free' \in SUBSET Blocks
  BY <1>1, <1>2
<1>6. \A q \in Requests : block_tables'[q] \cap free' = {}
  BY <1>1, <1>3 DEF BlocksConserved
<1>7. \A p, q \in Requests : p # q => block_tables'[p] \cap block_tables'[q] = {}
  BY <1>1, <1>3 DEF BlocksConserved
<1>8. free' \cup UNION {block_tables'[q] : q \in Requests} = Blocks
  <2>1. ASSUME NEW b \in Blocks
        PROVE  b \in free' \/ \E q \in Requests : b \in block_tables'[q]
    <3>1. b \in free \/ \E q \in Requests : b \in block_tables[q]
      BY <2>1 DEF BlocksConserved
    <3>2. CASE b \in free
      BY <3>2, <1>1, <1>3
    <3>3. CASE \E q \in Requests : b \in block_tables[q]
      BY <3>3, <1>3
    <3> QED BY <3>1, <3>2, <3>3
  <2>2. \A q \in Requests : block_tables'[q] \subseteq Blocks
    BY <1>4
  <2> QED BY <2>1, <2>2, <1>5
<1> QED BY <1>4, <1>5, <1>6, <1>7, <1>8 DEF BlocksConserved

(* _free_blocks gives back all the blocks of one request. *)
LEMMA FreeConserves ==
    ASSUME RMTypeOK, BlocksConserved, NEW r \in Requests, FreeBlocks(r)
    PROVE  /\ block_tables' \in [Requests -> SUBSET Blocks]
           /\ free' \in SUBSET Blocks
           /\ BlocksConserved'
<1>1. free' = free \cup block_tables[r]
  BY DEF FreeBlocks
<1>2. block_tables \in [Requests -> SUBSET Blocks] /\ free \in SUBSET Blocks
  BY DEF RMTypeOK
<1>3. \A q \in Requests : block_tables'[q] = IF q = r THEN {} ELSE block_tables[q]
  BY <1>2 DEF FreeBlocks
<1>4. block_tables' \in [Requests -> SUBSET Blocks]
  BY <1>2 DEF FreeBlocks
<1>5. free' \in SUBSET Blocks
  BY <1>1, <1>2
<1>6. \A q \in Requests : block_tables'[q] \cap free' = {}
  BY <1>1, <1>3 DEF BlocksConserved
<1>7. \A p, q \in Requests : p # q => block_tables'[p] \cap block_tables'[q] = {}
  BY <1>3 DEF BlocksConserved
<1>8. free' \cup UNION {block_tables'[q] : q \in Requests} = Blocks
  <2>1. ASSUME NEW b \in Blocks
        PROVE  b \in free' \/ \E q \in Requests : b \in block_tables'[q]
    <3>1. b \in free \/ \E q \in Requests : b \in block_tables[q]
      BY <2>1 DEF BlocksConserved
    <3> QED BY <3>1, <1>1, <1>3
  <2>2. \A q \in Requests : block_tables'[q] \subseteq Blocks
    BY <1>4
  <2> QED BY <2>1, <2>2, <1>5
<1> QED BY <1>4, <1>5, <1>6, <1>7, <1>8 DEF BlocksConserved

(* A step that leaves the pool alone. *)
LEMMA PoolUnchanged ==
    ASSUME BlocksConserved, UNCHANGED poolVars
    PROVE  BlocksConserved'
  BY DEF BlocksConserved, poolVars

-----------------------------------------------------------------------------
(* The request under the cursor, the last running one and the first waiting  *)
(* one are requests.                                                         *)
LEMMA RunningElements ==
    ASSUME RMTypeOK, InRunningLoop
    PROVE  /\ Current \in Requests
           /\ Len(running) >= 1 /\ running[Len(running)] \in Requests
           /\ SubSeq(running, 1, Len(running) - 1) \in Seq(Requests)
<1>1. running \in Seq(Requests) /\ cursor \in Nat \ {0} /\ Len(running) \in Nat
  BY LenProperties DEF RMTypeOK
<1>2. cursor \in 1 .. Len(running) /\ Len(running) \in 1 .. Len(running)
  BY <1>1 DEF InRunningLoop
<1>3. Current \in Requests /\ running[Len(running)] \in Requests
  BY <1>1, <1>2, ElementOfSeq DEF Current
<1>4. SubSeq(running, 1, Len(running) - 1) \in Seq(Requests)
  <2>1. \A i \in 1 .. Len(running) - 1 : running[i] \in Requests
    BY <1>1, ElementOfSeq
  <2> QED BY <1>1, <2>1, SubSeqProperties
<1> QED BY <1>2, <1>3, <1>4

(* While the second loop goes on, the head of the waiting list is a request  *)
(* and the rest a list of requests.                                          *)
LEMMA WaitingHead ==
    ASSUME RMTypeOK, InWaitingLoop
    PROVE  Head(waiting) \in Requests /\ Tail(waiting) \in Seq(Requests)
<1>1. waiting \in Seq(Requests) /\ waiting # << >>
  BY DEF RMTypeOK, InWaitingLoop
<1>2. Head(waiting) \in Requests /\ Tail(waiting) \in Seq(Requests)
  BY <1>1, HeadTailProperties
<1> QED BY <1>2

(* A chunk is a number, and no chunk makes num_computed_tokens negative. *)
LEMMA NewTokensType ==
    ASSUME RMTypeOK, budget > 0, NEW r \in Requests, NEW needed \in Nat
    PROVE  /\ NewTokens(r, needed) \in Int
           /\ computed[r] + NewTokens(r, needed) \in Nat
<1>1. computed[r] \in Nat /\ budget \in Int
  BY DEF RMTypeOK
<1> QED BY <1>1 DEF NewTokens

(* Token counts are natural numbers. *)
LEMMA TokenCounts ==
    ASSUME RMTypeOK, NEW r \in Requests
    PROVE  /\ TotalTokens(r) \in Nat
           /\ DecodeComputed(r) \in Nat
           /\ need[r] \in Nat /\ computed[r] \in Nat /\ idx[r] \in SlotOrNone
           /\ block_tables[r] \in SUBSET Blocks
<1>1. Prompt[r] \in Nat \ {0} /\ output[r] \in Nat /\ need[r] \in Nat /\ computed[r] \in Nat
  BY RequestAssumption DEF RMTypeOK
<1>2. idx[r] \in SlotOrNone /\ block_tables[r] \in SUBSET Blocks
  BY DEF RMTypeOK
<1>3. TotalTokens(r) \in Nat \ {0}
  BY <1>1 DEF TotalTokens
<1> QED BY <1>1, <1>2, <1>3 DEF DecodeComputed

(* The tasks schedule() prepares have their types. *)
LEMMA TaskTypes ==
    ASSUME RMTypeOK, NEW r \in Requests
    PROVE  /\ \A blk \in SUBSET Blocks : DecodeTask(r, blk) \in ScheduledTasks
           /\ PreemptTask(r) \in ScheduledTasks
           /\ \A start, end \in Nat : PrefillTask(r, start, end) \in ScheduledTasks
<1>1. idx[r] \in SlotOrNone
  BY TokenCounts
<1>2. \A blk \in SUBSET Blocks : DecodeTask(r, blk) \in ScheduledTasks
  BY <1>1 DEF DecodeTask, ScheduledTasks, DecodeTasks
<1>3. PreemptTask(r) \in ScheduledTasks
  BY <1>1 DEF PreemptTask, ScheduledTasks, PreemptTasks
<1>4. \A start, end \in Nat : PrefillTask(r, start, end) \in ScheduledTasks
  BY DEF PrefillTask, ScheduledTasks
<1> QED BY <1>2, <1>3, <1>4

-----------------------------------------------------------------------------
(* schedule(), one lemma per step. *)
LEMMA ScheduleBeginStep ==
    ASSUME RMTypeOK, BlocksConserved, ScheduleBegin
    PROVE  RMTypeOK' /\ BlocksConserved'
<1>1. Budget \in Int
  BY PoolAssumption
<1>2. BlocksConserved'
  BY PoolUnchanged DEF ScheduleBegin
<1>3. cursor' \in Nat \ {0} /\ budget' \in Int /\ spc' \in {"idle", "run", "wait", "send"}
  BY <1>1 DEF ScheduleBegin
<1>4. preempted' \in BOOLEAN
  BY Zenon DEF ScheduleBegin
<1>5. scheduled' \in SUBSET ScheduledTasks
  BY DEF ScheduleBegin
<1>6. RMTypeOK'
  BY <1>3, <1>4, <1>5 DEF ScheduleBegin, RMTypeOK, poolVars, reqVars, queueVars, slotVars
<1> QED BY <1>2, <1>6

(* A decoding request with room in its blocks changes no block. *)
LEMMA DecodeGoesOnStep ==
    ASSUME RMTypeOK, BlocksConserved, DecodeGoesOn
    PROVE  RMTypeOK' /\ BlocksConserved'
<1>1. Current \in Requests
  BY RunningElements DEF DecodeGoesOn
<1>2. DecodeComputed(Current) \in Nat
  BY <1>1, TokenCounts
<1>3. BlocksConserved'
  BY PoolUnchanged DEF DecodeGoesOn
<1>4. computed' \in [Requests -> Nat]
  BY <1>2 DEF DecodeGoesOn, RMTypeOK
<1>5. cursor' \in Nat \ {0}
  BY DEF DecodeGoesOn, RMTypeOK
<1>6. RMTypeOK'
  BY <1>4, <1>5 DEF DecodeGoesOn, RMTypeOK, poolVars, queueVars, slotVars
<1> QED BY <1>3, <1>6

(* Giving a decoding request its next blocks preserves the manager's invariant. *)
LEMMA DecodeGetsBlocksStep ==
    ASSUME RMTypeOK, BlocksConserved, DecodeGetsBlocks
    PROVE  RMTypeOK' /\ BlocksConserved'
<1>1. Current \in Requests
  BY RunningElements DEF DecodeGetsBlocks
<1>2. /\ block_tables' \in [Requests -> SUBSET Blocks]
      /\ free' \in SUBSET Blocks
      /\ BlocksConserved'
  BY <1>1, AllocateConserves DEF DecodeGetsBlocks
<1>3. computed' \in [Requests -> Nat]
  BY <1>1, TokenCounts DEF DecodeGetsBlocks, RMTypeOK
<1>4. scheduled' \in SUBSET ScheduledTasks
  <2>1. block_tables'[Current] \in SUBSET Blocks
    BY <1>1, <1>2
  <2>2. DecodeTask(Current, block_tables'[Current]) \in ScheduledTasks
    BY <1>1, <2>1, TaskTypes
  <2> QED BY <2>2 DEF DecodeGetsBlocks, RMTypeOK
<1>5. cursor' \in Nat \ {0} /\ budget' \in Int
  BY DEF DecodeGetsBlocks, RMTypeOK
<1>6. RMTypeOK'
  BY <1>2, <1>3, <1>4, <1>5 DEF DecodeGetsBlocks, RMTypeOK, queueVars, slotVars
<1> QED BY <1>2, <1>6

(* Giving a running request the blocks of its next chunk preserves it. *)
LEMMA PrefillChunkStep ==
    ASSUME RMTypeOK, BlocksConserved, PrefillChunk
    PROVE  RMTypeOK' /\ BlocksConserved'
<1> DEFINE n == NewTokens(Current, need[Current])
<1>1. Current \in Requests /\ budget > 0
  BY RunningElements DEF PrefillChunk, InRunningLoop
<1>2. n \in Int /\ computed[Current] + n \in Nat /\ computed[Current] \in Nat
  BY <1>1, TokenCounts, NewTokensType
<1>3. /\ Allocate(Current, NewBlocks(Current, n))
      /\ scheduled' = scheduled \cup
            {PrefillTask(Current, computed[Current], computed[Current] + n)}
      /\ computed' = [computed EXCEPT ![Current] = @ + n]
      /\ budget' = budget - n
  BY DEF PrefillChunk
<1>4. /\ block_tables' \in [Requests -> SUBSET Blocks]
      /\ free' \in SUBSET Blocks
      /\ BlocksConserved'
  BY <1>1, <1>3, AllocateConserves
<1> HIDE DEF n
<1>5. computed' \in [Requests -> Nat]
  BY <1>1, <1>2, <1>3 DEF RMTypeOK
<1>6. scheduled' \in SUBSET ScheduledTasks
  <2>1. PrefillTask(Current, computed[Current], computed[Current] + n) \in ScheduledTasks
    BY <1>1, <1>2, TaskTypes
  <2> QED BY <1>3, <2>1 DEF RMTypeOK
<1>7. cursor' \in Nat \ {0} /\ budget' \in Int
  BY <1>2, <1>3 DEF PrefillChunk, RMTypeOK
<1>8. RMTypeOK'
  BY <1>4, <1>5, <1>6, <1>7 DEF PrefillChunk, RMTypeOK, queueVars, slotVars
<1> QED BY <1>4, <1>8

(* Preempting the last running request preserves it: its blocks all become free. *)
LEMMA TriggerPreemptStep ==
    ASSUME RMTypeOK, BlocksConserved, TriggerPreempt
    PROVE  RMTypeOK' /\ BlocksConserved'
<1> DEFINE victim == running[Len(running)]
<1>1. victim \in Requests /\ SubSeq(running, 1, Len(running) - 1) \in Seq(Requests)
  BY RunningElements DEF TriggerPreempt
<1>2. /\ running' = SubSeq(running, 1, Len(running) - 1)
      /\ status' = [status EXCEPT ![victim] = "PREEMPTED"]
      /\ computed' = [computed EXCEPT ![victim] = 0]
      /\ FreeBlocks(victim)
      /\ resched' = resched \cup {victim}
      /\ scheduled' = scheduled \cup {PreemptTask(victim)}
      /\ spc' \in {spc, "send"}
  BY DEF TriggerPreempt
<1> HIDE DEF victim
<1>3. /\ block_tables' \in [Requests -> SUBSET Blocks]
      /\ free' \in SUBSET Blocks
      /\ BlocksConserved'
  BY <1>1, <1>2, FreeConserves
<1>4. status' \in [Requests -> {"WAITING", "RUNNING", "PREEMPTED", "FINISHED"}]
  BY <1>2 DEF RMTypeOK
<1>5. computed' \in [Requests -> Nat]
  BY <1>2 DEF RMTypeOK
<1>6. resched' \in SUBSET Requests
  BY <1>1, <1>2 DEF RMTypeOK
<1>7. scheduled' \in SUBSET ScheduledTasks
  BY <1>1, <1>2, TaskTypes DEF RMTypeOK
<1>8. spc' \in {"idle", "run", "wait", "send"} /\ running' \in Seq(Requests)
  BY <1>1, <1>2 DEF RMTypeOK
<1>9. RMTypeOK'
  BY <1>3, <1>4, <1>5, <1>6, <1>7, <1>8 DEF TriggerPreempt, RMTypeOK, slotVars
<1> QED BY <1>3, <1>9

(* The ends of the two loops preserve it. *)
LEMMA LoopEndSteps ==
    ASSUME RMTypeOK, BlocksConserved, RunningLoopEnds \/ WaitingLoopEnds
    PROVE  RMTypeOK' /\ BlocksConserved'
<1>1. CASE RunningLoopEnds
  <2>1. BlocksConserved'
    BY <1>1, PoolUnchanged DEF RunningLoopEnds
  <2>2. RMTypeOK'
    BY <1>1 DEF RunningLoopEnds, RMTypeOK, poolVars, reqVars, queueVars, slotVars
  <2> QED BY <2>1, <2>2
<1>2. CASE WaitingLoopEnds
  <2>1. BlocksConserved'
    BY <1>2, PoolUnchanged DEF WaitingLoopEnds
  <2>2. need' \in [Requests -> Nat]
    <3>1. CASE UNCHANGED need
      BY <3>1 DEF RMTypeOK
    <3>2. CASE /\ InWaitingLoop
               /\ need' = [need EXCEPT ![Head(waiting)] =
                     IF status[Head(waiting)] = "PREEMPTED"
                     THEN TotalTokens(Head(waiting)) ELSE need[Head(waiting)]]
      <4>1. Head(waiting) \in Requests
        BY <3>2, WaitingHead
      <4>2. TotalTokens(Head(waiting)) \in Nat /\ need[Head(waiting)] \in Nat
        BY <4>1, TokenCounts
      <4> QED BY <3>2, <4>2 DEF RMTypeOK
    <3> QED BY <1>2, <3>1, <3>2 DEF WaitingLoopEnds
  <2>3. RMTypeOK'
    BY <1>2, <2>2 DEF WaitingLoopEnds, RMTypeOK, poolVars, queueVars, slotVars
  <2> QED BY <2>1, <2>3
<1> QED BY <1>1, <1>2

(* What the two ways to start running have in common. *)
LEMMA StartRunningTypes ==
    ASSUME RMTypeOK, BlocksConserved, InWaitingLoop, NEW needed \in Nat,
           StartRunning(Head(waiting), needed)
    PROVE  /\ block_tables' \in [Requests -> SUBSET Blocks]
           /\ free' \in SUBSET Blocks
           /\ BlocksConserved'
           /\ waiting' \in Seq(Requests) /\ running' \in Seq(Requests)
           /\ scheduled' \in SUBSET ScheduledTasks
           /\ budget' \in Int
           /\ computed' \in [Requests -> Nat]
           /\ status' \in [Requests -> {"WAITING", "RUNNING", "PREEMPTED", "FINISHED"}]
<1> DEFINE r == Head(waiting)
           n == NewTokens(r, needed)
<1>1. r \in Requests /\ Tail(waiting) \in Seq(Requests) /\ budget > 0
  BY WaitingHead DEF InWaitingLoop
<1>2. n \in Int /\ computed[r] + n \in Nat /\ computed[r] \in Nat
  BY <1>1, TokenCounts, NewTokensType
<1>3. /\ Allocate(r, NewBlocks(r, n))
      /\ waiting' = Tail(waiting)
      /\ running' = Append(running, r)
      /\ scheduled' = scheduled \cup {PrefillTask(r, computed[r], computed[r] + n)}
      /\ budget' = budget - n
      /\ computed' = [computed EXCEPT ![r] = @ + n]
      /\ status' = [status EXCEPT ![r] = "RUNNING"]
  BY DEF StartRunning
<1> HIDE DEF n, r
<1>4. /\ block_tables' \in [Requests -> SUBSET Blocks]
      /\ free' \in SUBSET Blocks
      /\ BlocksConserved'
  BY <1>1, <1>3, AllocateConserves
<1>5. waiting' \in Seq(Requests)
  BY <1>1, <1>3
<1>6. running' \in Seq(Requests)
  BY <1>1, <1>3, AppendProperties DEF RMTypeOK
<1>7. scheduled' \in SUBSET ScheduledTasks
  <2>1. PrefillTask(r, computed[r], computed[r] + n) \in ScheduledTasks
    BY <1>1, <1>2, TaskTypes
  <2> QED BY <1>3, <2>1 DEF RMTypeOK
<1>8. budget' \in Int
  BY <1>2, <1>3 DEF RMTypeOK
<1>9. computed' \in [Requests -> Nat]
  BY <1>2, <1>3 DEF RMTypeOK
<1>10. status' \in [Requests -> {"WAITING", "RUNNING", "PREEMPTED", "FINISHED"}]
  BY <1>3 DEF RMTypeOK
<1> QED BY <1>4, <1>5, <1>6, <1>7, <1>8, <1>9, <1>10

(* Admitting a waiting request preserves it. *)
LEMMA AdmitWaitingStep ==
    ASSUME RMTypeOK, BlocksConserved, AdmitWaiting
    PROVE  RMTypeOK' /\ BlocksConserved'
<1> DEFINE r == Head(waiting)
<1>1. InWaitingLoop /\ StartRunning(r, need[r])
  BY DEF AdmitWaiting
<1>2. r \in Requests
  BY <1>1, WaitingHead
<1>3. need[r] \in Nat
  BY <1>2, TokenCounts
<1>4. /\ block_tables' \in [Requests -> SUBSET Blocks]
      /\ free' \in SUBSET Blocks
      /\ BlocksConserved'
      /\ waiting' \in Seq(Requests) /\ running' \in Seq(Requests)
      /\ scheduled' \in SUBSET ScheduledTasks
      /\ budget' \in Int
      /\ computed' \in [Requests -> Nat]
      /\ status' \in [Requests -> {"WAITING", "RUNNING", "PREEMPTED", "FINISHED"}]
  BY <1>1, <1>3, StartRunningTypes
<1>5. PICK pos \in stopped :
          /\ idx' = [idx EXCEPT ![r] = pos]
          /\ tasks_list' = [tasks_list EXCEPT ![pos] = r]
          /\ stopped' = stopped \ {pos}
  BY DEF AdmitWaiting
<1>6. idx' \in [Requests -> SlotOrNone]
  BY <1>5 DEF RMTypeOK, SlotOrNone
<1>7. tasks_list' \in [Slots -> ReqOrNone]
  BY <1>2, <1>5 DEF RMTypeOK, ReqOrNone
<1>8. stopped' \in SUBSET Slots
  BY <1>5 DEF RMTypeOK
<1>9. RMTypeOK'
  BY <1>4, <1>6, <1>7, <1>8 DEF AdmitWaiting, RMTypeOK
<1> QED BY <1>4, <1>9

(* The exception of get_available_position, with the request's blocks        *)
(* already allocated, preserves it.                                          *)
LEMMA AdmitRaisesStep ==
    ASSUME RMTypeOK, BlocksConserved, AdmitRaises
    PROVE  RMTypeOK' /\ BlocksConserved'
<1> DEFINE r == Head(waiting)
           n == NewTokens(r, need[r])
<1>1. r \in Requests /\ Tail(waiting) \in Seq(Requests) /\ budget > 0
  BY WaitingHead DEF AdmitRaises, InWaitingLoop
<1>2. n \in Int /\ computed[r] + n \in Nat
  BY <1>1, TokenCounts, NewTokensType
<1>3. /\ Allocate(r, NewBlocks(r, n))
      /\ waiting' = Tail(waiting)
      /\ running' = Append(running, r)
      /\ computed' = [computed EXCEPT ![r] = @ + n]
      /\ status' = [status EXCEPT ![r] = "RUNNING"]
      /\ budget' = budget - n
      /\ spc' = "send" /\ scheduled' = {}
  BY DEF AdmitRaises
<1> HIDE DEF n, r
<1>4. /\ block_tables' \in [Requests -> SUBSET Blocks]
      /\ free' \in SUBSET Blocks
      /\ BlocksConserved'
  BY <1>1, <1>3, AllocateConserves
<1>5. waiting' \in Seq(Requests)
  BY <1>1, <1>3
<1>6. running' \in Seq(Requests)
  BY <1>1, <1>3, AppendProperties DEF RMTypeOK
<1>7. computed' \in [Requests -> Nat]
  BY <1>2, <1>3 DEF RMTypeOK
<1>8. status' \in [Requests -> {"WAITING", "RUNNING", "PREEMPTED", "FINISHED"}]
  BY <1>3 DEF RMTypeOK
<1>9. budget' \in Int /\ scheduled' \in SUBSET ScheduledTasks
  BY <1>2, <1>3 DEF RMTypeOK
<1>10. RMTypeOK'
  BY <1>3, <1>4, <1>5, <1>6, <1>7, <1>8, <1>9 DEF AdmitRaises, RMTypeOK, slotVars
<1> QED BY <1>4, <1>10

(* Resuming a preempted request preserves it. *)
LEMMA ResumePreemptedStep ==
    ASSUME RMTypeOK, BlocksConserved, ResumePreempted
    PROVE  RMTypeOK' /\ BlocksConserved'
<1> DEFINE r == Head(waiting)
<1>1. /\ InWaitingLoop /\ StartRunning(r, TotalTokens(r))
      /\ need' = [need EXCEPT ![r] = TotalTokens(r)]
  BY DEF ResumePreempted
<1>2. r \in Requests
  BY <1>1, WaitingHead
<1>3. TotalTokens(r) \in Nat
  BY <1>2, TokenCounts
<1>4. /\ block_tables' \in [Requests -> SUBSET Blocks]
      /\ free' \in SUBSET Blocks
      /\ BlocksConserved'
      /\ waiting' \in Seq(Requests) /\ running' \in Seq(Requests)
      /\ scheduled' \in SUBSET ScheduledTasks
      /\ budget' \in Int
      /\ computed' \in [Requests -> Nat]
      /\ status' \in [Requests -> {"WAITING", "RUNNING", "PREEMPTED", "FINISHED"}]
  BY <1>1, <1>3, StartRunningTypes
<1>5. need' \in [Requests -> Nat]
  BY <1>1, <1>3 DEF RMTypeOK
<1>6. RMTypeOK'
  BY <1>4, <1>5 DEF ResumePreempted, RMTypeOK, slotVars
<1> QED BY <1>4, <1>6

(* Every step of schedule() preserves the manager's invariant. *)
LEMMA ScheduleSteps ==
    ASSUME RMTypeOK, BlocksConserved, ScheduleStep
    PROVE  RMTypeOK' /\ BlocksConserved'
  BY DecodeGoesOnStep, DecodeGetsBlocksStep, PrefillChunkStep, TriggerPreemptStep,
     LoopEndSteps, AdmitWaitingStep, AdmitRaisesStep, ResumePreemptedStep DEF ScheduleStep

-----------------------------------------------------------------------------
(* The operations of the other threads. *)
LEMMA AddRequestStep ==
    ASSUME RMTypeOK, BlocksConserved, NEW r \in Requests, AddRequest(r)
    PROVE  RMTypeOK' /\ BlocksConserved'
<1>1. BlocksConserved'
  BY PoolUnchanged DEF AddRequest
<1>2. waiting' \in Seq(Requests)
  BY AppendProperties DEF AddRequest, RMTypeOK
<1>3. requests' \in SUBSET Requests
  BY DEF AddRequest, RMTypeOK
<1>4. RMTypeOK'
  BY <1>2, <1>3 DEF AddRequest, RMTypeOK, poolVars, reqVars, slotVars, schedVars
<1> QED BY <1>1, <1>4

(* reschedule_preempt_task preserves it. *)
LEMMA RescheduleStep ==
    ASSUME RMTypeOK, BlocksConserved, NEW r \in Requests, ReschedulePreemptTask(r)
    PROVE  RMTypeOK' /\ BlocksConserved'
<1>1. BlocksConserved'
  BY PoolUnchanged DEF ReschedulePreemptTask
<1>2. waiting' \in Seq(Requests)
  <2>1. <<r>> \in Seq(Requests) /\ waiting \in Seq(Requests)
    BY DEF RMTypeOK
  <2>2. <<r>> \o waiting \in Seq(Requests)
    BY <2>1, ConcatProperties
  <2> QED BY <2>1, <2>2 DEF ReschedulePreemptTask
<1>3. resched' \in SUBSET Requests
  BY DEF ReschedulePreemptTask, RMTypeOK
<1>4. RMTypeOK'
  BY <1>2, <1>3 DEF ReschedulePreemptTask, RMTypeOK, poolVars, reqVars, slotVars, schedVars
<1> QED BY <1>1, <1>4

(* finish_requests preserves it, whether it ends or raises. *)
LEMMA FinishRequestsStep ==
    ASSUME RMTypeOK, BlocksConserved, NEW r \in Requests, FinishRequests(r)
    PROVE  RMTypeOK' /\ BlocksConserved'
<1>1. CASE r \notin requests
  <2>1. BlocksConserved'
    BY <1>1, PoolUnchanged DEF FinishRequests
  <2>2. RMTypeOK'
    BY <1>1 DEF FinishRequests, RMTypeOK, poolVars, reqVars, slotVars, schedVars
  <2> QED BY <2>1, <2>2
<1>2. CASE r \in requests
  <2>1. /\ block_tables' \in [Requests -> SUBSET Blocks]
        /\ free' \in SUBSET Blocks
        /\ BlocksConserved'
    <3>1. CASE r \in Members(running)
      BY <1>2, <3>1, FreeConserves DEF FinishRequests
    <3>2. CASE r \notin Members(running)
      <4>1. UNCHANGED poolVars
        BY <1>2, <3>2 DEF FinishRequests
      <4> QED BY <4>1, PoolUnchanged DEF poolVars, RMTypeOK
    <3> QED BY <3>1, <3>2
  <2>2. running' \in Seq(Requests)
    <3>1. running \in Seq(Requests)
      BY DEF RMTypeOK
    <3>2. \A i \in 1 .. Len(running) :
              /\ SubSeq(running, 1, i - 1) \in Seq(Requests)
              /\ SubSeq(running, i + 1, Len(running)) \in Seq(Requests)
      <4> TAKE i \in 1 .. Len(running)
      <4>1. Len(running) \in Nat /\ \A j \in 1 .. Len(running) : running[j] \in Requests
        BY <3>1, LenProperties, ElementOfSeq
      <4>2. SubSeq(running, 1, i - 1) \in Seq(Requests)
        BY <4>1, SubSeqProperties
      <4>3. SubSeq(running, i + 1, Len(running)) \in Seq(Requests)
        BY <4>1, SubSeqProperties
      <4> QED BY <4>2, <4>3
    <3>3. CASE RemoveRunning(r)
      BY <3>2, <3>3, ConcatProperties DEF RemoveRunning
    <3> QED BY <1>2, <3>1, <3>3 DEF FinishRequests
  <2>3. status' \in [Requests -> {"WAITING", "RUNNING", "PREEMPTED", "FINISHED"}]
    BY <1>2 DEF FinishRequests, RMTypeOK
  <2>4. resched' \in SUBSET Requests
    BY <1>2 DEF FinishRequests, RMTypeOK
  <2>5. requests' \in SUBSET Requests
    BY <1>2 DEF FinishRequests, RMTypeOK, slotVars
  <2>6. tasks_list' \in [Slots -> ReqOrNone]
    BY <1>2 DEF FinishRequests, RMTypeOK, ReqOrNone, slotVars
  <2>7. stopped' \in SUBSET Slots
    BY <1>2 DEF FinishRequests, RMTypeOK, SlotOrNone, slotVars
  <2>8. UNCHANGED <<waiting, schedVars, output, idx, computed, need, real_bsz>>
    BY <1>2 DEF FinishRequests, slotVars
  <2>9. RMTypeOK'
    BY <2>1, <2>2, <2>3, <2>4, <2>5, <2>6, <2>7, <2>8 DEF RMTypeOK, schedVars
  <2> QED BY <2>1, <2>9
<1> QED BY <1>1, <1>2

-----------------------------------------------------------------------------
(* The engine loop and the fetching thread. *)
LEMMA LoopSteps ==
    ASSUME IInv, LoopTop \/ LoopFetch
    PROVE  IInv'
<1>1. UNCHANGED <<rmVars, queue, pending, is_fetching, fetched, workerVars, msgs, tokenVars,
                  finishing, premature>>
  BY DEF LoopTop, LoopFetch, fetchVars
<1>2. BlocksConserved'
  BY <1>1, PoolUnchanged DEF IInv, rmVars
<1>3. RMTypeOK'
  BY <1>1 DEF IInv, TypeOK, RMTypeOK, rmVars, poolVars, reqVars, queueVars, slotVars, schedVars
<1>4. epc' \in {"top", "chk", "go"} /\ jobs' \in Nat
  BY DEF LoopTop, LoopFetch, fetchVars, IInv, TypeOK
<1>5. ReadInRange'
  BY <1>1 DEF IInv, ReadInRange, tokenVars
<1>6. TypeOK'
  BY <1>1, <1>3, <1>4 DEF IInv, TypeOK, workerVars, tokenVars
<1> QED BY <1>2, <1>5, <1>6 DEF IInv

(* A step that changes nothing outside the resource manager. *)
LEMMA OnlyManager ==
    ASSUME IInv, RMTypeOK', BlocksConserved',
           UNCHANGED <<loopVars, fetchVars, workerVars, msgs, tokenVars, finishing, premature>>
    PROVE  IInv'
<1>1. TypeOK'
  BY DEF IInv, TypeOK, loopVars, fetchVars, workerVars, tokenVars
<1>2. ReadInRange'
  BY DEF IInv, ReadInRange, tokenVars
<1> QED BY <1>1, <1>2 DEF IInv

(* The engine loop's calls of schedule() preserve the invariant. *)
LEMMA LoopScheduleSteps ==
    ASSUME IInv, LoopSchedule \/ LoopScheduleStep
    PROVE  IInv'
<1>1. RMTypeOK /\ BlocksConserved
  BY DEF IInv, TypeOK
<1>2. RMTypeOK' /\ BlocksConserved'
  BY <1>1, ScheduleBeginStep, ScheduleSteps DEF LoopSchedule, LoopScheduleStep
<1> QED BY <1>2, OnlyManager DEF LoopSchedule, LoopScheduleStep

(* A task as put_tasks serialises it has its type. *)
LEMMA SerialisedType ==
    ASSUME RMTypeOK, NEW t \in ScheduledTasks
    PROVE  Serialised(t) \in SentTasks
<1>1. CASE t \in DecodeTasks
  BY <1>1 DEF DecodeTasks, Serialised, SentTasks
<1>2. CASE t \in PreemptTasks
  BY <1>2 DEF PreemptTasks, Serialised, SentTasks
<1>3. CASE t \in [type : {"PREFILL"}, req : Requests, start : Nat, end : Nat]
  <2>1. t.type = "PREFILL" /\ t.req \in Requests /\ t.start \in Nat /\ t.end \in Nat
    BY <1>3
  <2>2. /\ idx[t.req] \in SlotOrNone /\ block_tables[t.req] \in SUBSET Blocks
        /\ TotalTokens(t.req) \in Nat
    BY <2>1, TokenCounts
  <2>3. output[t.req] \in Nat
    BY <2>1 DEF RMTypeOK
  <2> QED BY <2>1, <2>2, <2>3 DEF Serialised, SentTasks
<1> QED BY <1>1, <1>2, <1>3 DEF ScheduledTasks

(* Sending the scheduled tasks preserves the invariant. *)
LEMMA LoopSendStep ==
    ASSUME IInv, LoopSend
    PROVE  IInv'
<1>1. RMTypeOK /\ scheduled \in SUBSET ScheduledTasks
  BY DEF IInv, TypeOK, RMTypeOK
<1>2. BlocksConserved'
  BY PoolUnchanged DEF IInv, LoopSend
<1>3. queue' \in Batches \cup {Nothing} /\ real_bsz' \in 0 .. MaxSeqs
  <2>1. CASE scheduled = {}
    BY <2>1 DEF LoopSend, IInv, TypeOK, RMTypeOK
  <2>2. CASE scheduled # {}
    <3>1. PICK b \in 0 .. MaxSeqs :
              /\ real_bsz' = b
              /\ queue' = [tasks |-> {Serialised(t) : t \in scheduled}, bsz |-> b]
      BY <2>2 DEF LoopSend
    <3>2. {Serialised(t) : t \in scheduled} \in SUBSET SentTasks
      BY <1>1, SerialisedType
    <3> QED BY <3>1, <3>2 DEF Batches
  <2> QED BY <2>1, <2>2
<1>4. scheduled' \in SUBSET ScheduledTasks /\ cursor' \in Nat \ {0} /\ budget' \in Int
  BY DEF LoopSend
<1>5. preempted' \in BOOLEAN
  BY Zenon DEF LoopSend
<1>6. spc' \in {"idle", "run", "wait", "send"} /\ epc' \in {"top", "chk", "go"}
  BY DEF LoopSend
<1>7. UNCHANGED <<poolVars, reqVars, queueVars, tasks_list, stopped, output>>
  BY DEF LoopSend
<1>8. RMTypeOK'
  BY <1>1, <1>3, <1>4, <1>5, <1>6, <1>7 DEF RMTypeOK, poolVars, reqVars, queueVars
<1>9. UNCHANGED <<fetchVars, workerVars, msgs, tokenVars, finishing, premature>>
  BY DEF LoopSend
<1>10. TypeOK'
  BY <1>3, <1>6, <1>8, <1>9 DEF IInv, TypeOK, fetchVars, workerVars, tokenVars
<1>11. ReadInRange'
  BY <1>9 DEF IInv, ReadInRange, tokenVars
<1> QED BY <1>2, <1>10, <1>11 DEF IInv

(* A step that leaves all but the fetching thread and, maybe, the resource   *)
(* manager alone.                                                            *)
LEMMA FetchSteps ==
    ASSUME IInv, FetchTake \/ FetchAdd \/ FetchEnd
    PROVE  IInv'
<1>1. UNCHANGED <<loopVars, workerVars, msgs, tokenVars, finishing, premature>>
  BY DEF FetchTake, FetchAdd, FetchEnd
<1>2. RMTypeOK' /\ BlocksConserved'
  <2>1. CASE UNCHANGED rmVars
    <3>1. BlocksConserved'
      BY <2>1, PoolUnchanged DEF IInv, rmVars
    <3>2. RMTypeOK'
      BY <2>1 DEF IInv, TypeOK, RMTypeOK, rmVars, poolVars, reqVars, queueVars, slotVars,
                  schedVars
    <3> QED BY <3>1, <3>2
  <2>2. CASE FetchAdd
    <3>1. fetched \in Seq(Requests) /\ fetched # << >>
      BY <2>2 DEF FetchAdd, IInv, TypeOK
    <3>2. Head(fetched) \in Requests
      BY <3>1, HeadTailProperties
    <3> QED BY <2>2, <3>2, AddRequestStep DEF FetchAdd, IInv, TypeOK
  <2> QED BY <2>1, <2>2 DEF FetchTake, FetchEnd
<1>3. /\ pending' \in Seq(Requests) /\ jobs' \in Nat /\ is_fetching' \in BOOLEAN
      /\ fetched' \in Seq(Requests) \cup {Nothing}
  <2>1. CASE FetchTake
    <3>1. PICK k \in 0 .. Len(pending) :
              /\ fetched' = SubSeq(pending, 1, k)
              /\ pending' = SubSeq(pending, k + 1, Len(pending))
      BY <2>1 DEF FetchTake
    <3>2. Len(pending) \in Nat /\ \A j \in 1 .. Len(pending) : pending[j] \in Requests
      BY LenProperties, ElementOfSeq DEF IInv, TypeOK
    <3>3. SubSeq(pending, 1, k) \in Seq(Requests)
      BY <3>2, SubSeqProperties
    <3>4. SubSeq(pending, k + 1, Len(pending)) \in Seq(Requests)
      BY <3>2, SubSeqProperties
    <3>5. jobs' \in Nat
      BY <2>1 DEF FetchTake, IInv, TypeOK
    <3>6. is_fetching' \in BOOLEAN
      BY <2>1, Zenon DEF FetchTake
    <3> QED BY <3>1, <3>3, <3>4, <3>5, <3>6
  <2>2. CASE FetchAdd
    <3>1. fetched \in Seq(Requests) /\ fetched # << >>
      BY <2>2 DEF FetchAdd, IInv, TypeOK
    <3>2. Tail(fetched) \in Seq(Requests)
      BY <3>1, HeadTailProperties
    <3> QED BY <2>2, <3>2 DEF FetchAdd, IInv, TypeOK
  <2>3. CASE FetchEnd
    <3>1. is_fetching' \in BOOLEAN
      BY <2>3, Zenon DEF FetchEnd
    <3> QED BY <2>3, <3>1 DEF FetchEnd, IInv, TypeOK
  <2> QED BY <2>1, <2>2, <2>3
<1>4. TypeOK'
  BY <1>1, <1>2, <1>3 DEF IInv, TypeOK, loopVars, workerVars, tokenVars
<1>5. ReadInRange'
  BY <1>1 DEF IInv, ReadInRange, tokenVars
<1> QED BY <1>2, <1>4, <1>5 DEF IInv

-----------------------------------------------------------------------------
(* The worker's positions keep their types. *)
LEMMA InsertedType ==
    ASSUME slot \in [Slots -> SlotStates], NEW tasks \in SUBSET SentTasks, NEW s \in Slots
    PROVE  Inserted(s, tasks) \in SlotStates
<1>1. slot[s] \in SlotStates
  OBVIOUS
<1>2. CASE \E t \in tasks : t.slot = s
  <2> DEFINE t == CHOOSE t \in tasks : t.slot = s
  <2>1. t \in SentTasks
    BY <1>2
  <2>2. Inserted(s, tasks) =
            CASE t.type = "PREFILL" ->
                    [live |-> TRUE, hit |-> FALSE, step |-> FALSE, blk |-> t.blk, pos |-> t.start,
                     len |-> t.end - t.start, plen |-> t.total,
                     out |-> IF t.end >= t.total THEN t.out ELSE 0, req |-> t.req]
              [] t.type = "DECODE" -> [slot[s] EXCEPT !.blk = t.blk]
              [] t.type = "PREEMPTED" ->
                    [slot[s] EXCEPT !.blk = {}, !.live = FALSE, !.len = 0,
                                    !.pos = 0, !.step = FALSE]
    BY <1>2 DEF Inserted
  <2> HIDE DEF t
  <2>3. CASE t \in DecodeTasks
    <3>1. Inserted(s, tasks) = [slot[s] EXCEPT !.blk = t.blk] /\ t.blk \in SUBSET Blocks
      BY <2>2, <2>3 DEF DecodeTasks
    <3> QED BY <1>1, <3>1 DEF SlotStates
  <2>4. CASE t \in PreemptTasks
    <3>1. Inserted(s, tasks) = [slot[s] EXCEPT !.blk = {}, !.live = FALSE, !.len = 0,
                                               !.pos = 0, !.step = FALSE]
      BY <2>2, <2>4 DEF PreemptTasks
    <3>2. Inserted(s, tasks) =
            [live |-> FALSE, hit |-> slot[s].hit, step |-> FALSE, blk |-> {}, pos |-> 0, len |-> 0,
             plen |-> slot[s].plen, out |-> slot[s].out, req |-> slot[s].req]
      BY <1>1, <3>1 DEF SlotStates
    <3> QED BY <1>1, <3>2 DEF SlotStates
  <2>5. CASE t \in [type : {"PREFILL"}, req : Requests, slot : SlotOrNone,
                    blk : SUBSET Blocks, start : Nat, end : Nat, total : Nat, out : Nat]
    <3>1. /\ Inserted(s, tasks) =
                [live |-> TRUE, hit |-> FALSE, step |-> FALSE, blk |-> t.blk, pos |-> t.start,
                 len |-> t.end - t.start, plen |-> t.total,
                 out |-> IF t.end >= t.total THEN t.out ELSE 0, req |-> t.req]
      BY <2>2, <2>5
    <3>2. /\ t.blk \in SUBSET Blocks /\ t.start \in Int /\ t.end - t.start \in Int
          /\ t.total \in Nat /\ (IF t.end >= t.total THEN t.out ELSE 0) \in Nat
          /\ t.req \in ReqOrNone
      BY <2>5 DEF ReqOrNone
    <3> QED BY <3>1, <3>2 DEF SlotStates
  <2> QED BY <2>1, <2>3, <2>4, <2>5 DEF SentTasks
<1>3. CASE ~\E t \in tasks : t.slot = s
  BY <1>1, <1>3 DEF Inserted
<1> QED BY <1>2, <1>3

(* recover_decode_task keeps the type of a position. *)
LEMMA RecoveredType ==
    ASSUME NEW w \in SlotStates
    PROVE  Recovered(w) \in SlotStates
<1>1. CASE Recovered(w) = w
  BY <1>1
<1>2. CASE Recovered(w) = [w EXCEPT !.step = FALSE, !.len = 1, !.live = TRUE]
  <2>1. Recovered(w) =
          [live |-> TRUE, hit |-> w.hit, step |-> FALSE, blk |-> w.blk, pos |-> w.pos, len |-> 1,
           plen |-> w.plen, out |-> w.out, req |-> w.req]
    BY <1>2 DEF SlotStates
  <2> QED BY <2>1 DEF SlotStates
<1> QED BY <1>1, <1>2 DEF Recovered

(* update_inputs_v1 keeps the type of a position. *)
LEMMA AdvancedType ==
    ASSUME NEW w \in SlotStates, NEW outcome
    PROVE  Advanced(w, outcome) \in SlotStates
<1> DEFINE p == w.pos + w.len
<1>1. p \in Int /\ w.out + 1 \in Nat
  BY DEF SlotStates
<1>2. Stopped(w, outcome) \in SlotStates
  <2> DEFINE pos == IF w.step THEN w.pos ELSE 0
             out == IF w.live THEN w.out + 1 ELSE w.out
             hit == outcome = "hit"
  <2>1. pos \in Int /\ out \in Nat /\ hit \in BOOLEAN
    BY DEF SlotStates
  <2>2. Stopped(w, outcome) =
          [w EXCEPT !.live = FALSE, !.hit = hit, !.len = 0, !.pos = pos, !.out = out]
    BY DEF Stopped, SlotStates
  <2> HIDE DEF pos, out, hit
  <2>3. Stopped(w, outcome) =
          [live |-> FALSE, hit |-> hit, step |-> w.step, blk |-> w.blk, pos |-> pos, len |-> 0,
           plen |-> w.plen, out |-> out, req |-> w.req]
    BY <2>2 DEF SlotStates
  <2> QED BY <2>1, <2>3 DEF SlotStates
<1> HIDE DEF p
<1>3. OutOfBlocks(w, p) \in SlotStates
  <2>o. OutOfBlocks(w, p) =
          [w EXCEPT !.pos = p, !.out = w.out + 1, !.live = FALSE, !.step = TRUE, !.len = 0]
    BY DEF OutOfBlocks, SlotStates
  <2>1. OutOfBlocks(w, p) =
          [live |-> FALSE, hit |-> w.hit, step |-> TRUE, blk |-> w.blk, pos |-> p, len |-> 0,
           plen |-> w.plen, out |-> w.out + 1, req |-> w.req]
    BY <2>o DEF SlotStates
  <2> QED BY <1>1, <2>1 DEF SlotStates
<1>4. DecodingOn(w, p) \in SlotStates
  <2>o. DecodingOn(w, p) =
          [w EXCEPT !.pos = p, !.out = w.out + 1, !.live = TRUE, !.step = FALSE, !.len = 1]
    BY DEF DecodingOn, SlotStates
  <2>1. DecodingOn(w, p) =
          [live |-> TRUE, hit |-> w.hit, step |-> FALSE, blk |-> w.blk, pos |-> p, len |-> 1,
           plen |-> w.plen, out |-> w.out + 1, req |-> w.req]
    BY <2>o DEF SlotStates
  <2> QED BY <1>1, <2>1 DEF SlotStates
<1> QED BY <1>2, <1>3, <1>4 DEF Advanced, p

(* A pass of the worker preserves the invariant. *)
LEMMA WorkerPassStep ==
    ASSUME IInv, WorkerPass
    PROVE  IInv'
<1> DEFINE tasks == NextTasks
           bsz == NextBsz
           part == 0 .. bsz - 1
           w1 == StepInput
<1>1. /\ queue' = Nothing /\ wbsz' = bsz
      /\ UNCHANGED <<rmVars, epc, fetchVars, tokenVars, finishing, premature>>
  BY DEF WorkerPass
<1>2. \/ crashed' = TRUE /\ UNCHANGED <<slot, not_need_stop, stray, msgs>>
      \/ crashed' = crashed /\ slot' = w1 /\ UNCHANGED <<not_need_stop, stray, msgs>>
      \/ /\ crashed' = crashed
         /\ \E outcome \in [part -> Outcomes] :
              /\ slot' = [s \in Slots |-> IF s \in part THEN Advanced(w1[s], outcome[s])
                                                        ELSE w1[s]]
              /\ not_need_stop' = \E s \in part : slot'[s].live
              /\ stray' = (stray \/ \E s \in part : IsStray(w1[s], outcome[s]))
              /\ msgs' = Append(msgs, [bsz |-> bsz, tok |-> [s \in part |-> Emitted(outcome[s])],
                                       by |-> [s \in part |-> w1[s].req]])
  BY Zenon DEF WorkerPass
<1>3. tasks \in SUBSET SentTasks /\ bsz \in 0 .. MaxSeqs
  BY DEF IInv, TypeOK, Batches, NextTasks, NextBsz
<1>4. slot \in [Slots -> SlotStates] /\ msgs \in Seq(Messages)
  BY DEF IInv, TypeOK
<1> HIDE DEF tasks, bsz
<1>5. w1 \in [Slots -> SlotStates]
  <2>1. \A s \in Slots : Inserted(s, tasks) \in SlotStates
    BY <1>3, <1>4, InsertedType
  <2>2. \A s \in Slots : Recovered(Inserted(s, tasks)) \in SlotStates
    BY <2>1, RecoveredType
  <2> QED BY <2>1, <2>2 DEF StepInput, tasks
<1>6. part \subseteq Slots
  BY <1>3, PoolAssumption DEF Slots
<1> HIDE DEF w1
<1>7. slot' \in [Slots -> SlotStates] /\ msgs' \in Seq(Messages)
  <2>1. CASE slot' \in {slot, w1} /\ msgs' = msgs
    BY <1>4, <1>5, <2>1
  <2>2. ASSUME NEW outcome \in [part -> Outcomes],
               slot' = [s \in Slots |-> IF s \in part THEN Advanced(w1[s], outcome[s])
                                                        ELSE w1[s]],
               msgs' = Append(msgs, [bsz |-> bsz, tok |-> [s \in part |-> Emitted(outcome[s])],
                                     by |-> [s \in part |-> w1[s].req]])
        PROVE  slot' \in [Slots -> SlotStates] /\ msgs' \in Seq(Messages)
    <3>1. \A s \in part : Advanced(w1[s], outcome[s]) \in SlotStates
      BY <1>5, <1>6, AdvancedType
    <3>2. slot' \in [Slots -> SlotStates]
      BY <1>5, <2>2, <3>1
    <3>3. \A s \in part : w1[s].req \in ReqOrNone
      BY <1>5, <1>6 DEF SlotStates
    <3>4. [s \in part |-> w1[s].req] \in [0 .. bsz - 1 -> ReqOrNone]
      BY <3>3
    <3>5. [s \in part |-> w1[s].req] \in PerPosition(ReqOrNone)
      BY <1>3, <3>4 DEF PerPosition
    <3> DEFINE token == [s \in part |-> Emitted(outcome[s])]
    <3>e. \A s \in part : Emitted(outcome[s]) \in Tokens
      BY <2>2 DEF Emitted, Outcomes, Tokens
    <3>f. token \in [0 .. bsz - 1 -> Tokens]
      BY <3>e
    <3>6. token \in PerPosition(Tokens)
      BY <1>3, <3>f DEF PerPosition
    <3>7. [bsz |-> bsz, tok |-> token, by |-> [s \in part |-> w1[s].req]] \in Messages
      BY <1>3, <3>5, <3>6 DEF Messages
    <3>8. msgs' \in Seq(Messages)
      BY <1>4, <2>2, <3>7, AppendProperties
    <3> QED BY <3>2, <3>8
  <2> QED BY <1>2, <2>1, <2>2
<1>8. not_need_stop' \in BOOLEAN /\ crashed' \in BOOLEAN /\ stray' \in BOOLEAN
  <2>1. not_need_stop \in BOOLEAN /\ crashed \in BOOLEAN /\ stray \in BOOLEAN
    BY DEF IInv, TypeOK
  <2>2. \A P : (\E s \in part : P[s].live) \in BOOLEAN
    OBVIOUS
  <2> QED BY <1>2, <2>1, Zenon
<1>9. BlocksConserved'
  BY <1>1, PoolUnchanged DEF IInv, rmVars
<1>10. RMTypeOK'
  BY <1>1 DEF IInv, TypeOK, RMTypeOK, rmVars, poolVars, reqVars, queueVars, slotVars, schedVars
<1>11. TypeOK'
  BY <1>1, <1>3, <1>7, <1>8, <1>10 DEF IInv, TypeOK, fetchVars, tokenVars
<1>12. ReadInRange'
  BY <1>1 DEF IInv, ReadInRange, tokenVars
<1> QED BY <1>9, <1>11, <1>12 DEF IInv

-----------------------------------------------------------------------------
(* The token processor and the finish pool. *)
LEMMA ManagerUnchanged ==
    ASSUME RMTypeOK, BlocksConserved, UNCHANGED rmVars
    PROVE  RMTypeOK' /\ BlocksConserved'
<1>1. BlocksConserved'
  BY PoolUnchanged DEF rmVars
<1>2. RMTypeOK'
  BY DEF RMTypeOK, rmVars, poolVars, reqVars, queueVars, slotVars, schedVars
<1> QED BY <1>1, <1>2

(* A reschedule keeps premature a Boolean. *)
LEMMA PrematureBoolean ==
    ASSUME NEW r \in Requests, Reschedule(r), premature \in BOOLEAN
    PROVE  premature' \in BOOLEAN
<1>1. premature' = (premature \/ (r \in resched /\ r \in requests /\ NotDrained(r)))
  BY DEF Reschedule
<1> QED BY <1>1, Zenon

(* What a step of the token processor has to keep. *)
LEMMA TokenStepTypes ==
    ASSUME IInv, RMTypeOK', BlocksConserved',
           UNCHANGED <<loopVars, fetchVars, workerVars>>,
           msgs' \in Seq(Messages), tmsg' \in Messages \cup {Nothing},
           tids' \in SUBSET Requests, tslot' \in Nat, tpc' \in {"ids", "scan", "read"},
           finishing' \in Seq(Requests), premature' \in BOOLEAN, ReadInRange'
    PROVE  IInv'
<1>1. TypeOK'
  BY DEF IInv, TypeOK, loopVars, fetchVars, workerVars
<1> QED BY <1>1 DEF IInv

(* Taking a message preserves the invariant. *)
LEMMA TokenTakeStep ==
    ASSUME IInv, TokenTake
    PROVE  IInv'
<1>1. RMTypeOK' /\ BlocksConserved'
  BY ManagerUnchanged DEF IInv, TypeOK, TokenTake
<1>2. msgs \in Seq(Messages) /\ msgs # << >>
  BY DEF IInv, TypeOK, TokenTake
<1>3. tmsg' \in Messages /\ msgs' \in Seq(Messages)
  BY <1>2, HeadTailProperties DEF TokenTake
<1>4. tids' \in SUBSET Requests /\ tslot' \in Nat /\ tpc' \in {"ids", "scan", "read"}
  BY DEF IInv, TypeOK, RMTypeOK, TokenTake
<1>5. ReadInRange'
  BY DEF TokenTake, ReadInRange
<1>6. finishing' \in Seq(Requests) /\ premature' \in BOOLEAN
  BY DEF IInv, TypeOK, TokenTake
<1>7. UNCHANGED <<loopVars, fetchVars, workerVars>>
  BY DEF TokenTake
<1> QED BY <1>1, <1>3, <1>4, <1>5, <1>6, <1>7, TokenStepTypes

(* Looking at a copied id preserves the invariant. *)
LEMMA TokenLookAtStep ==
    ASSUME IInv, NEW r \in Requests, TokenLookAt(r)
    PROVE  IInv'
<1>1. RMTypeOK /\ BlocksConserved /\ premature \in BOOLEAN
  BY DEF IInv, TypeOK
<1>2. RMTypeOK' /\ BlocksConserved' /\ premature' \in BOOLEAN
  <2>1. CASE UNCHANGED <<rmVars, premature>>
    BY <1>1, <2>1, ManagerUnchanged
  <2>2. CASE Reschedule(r)
    BY <1>1, <2>2, RescheduleStep, PrematureBoolean DEF Reschedule
  <2> QED BY <2>1, <2>2 DEF TokenLookAt
<1>3. /\ tmsg' \in Messages \cup {Nothing} /\ tids' \in SUBSET Requests /\ tslot' \in Nat
      /\ tpc' \in {"ids", "scan", "read"} /\ tpc' # "read"
  BY DEF TokenLookAt, TokenDrop, IInv, TypeOK
<1>4. ReadInRange'
  BY <1>3 DEF ReadInRange
<1>5. msgs' \in Seq(Messages) /\ finishing' \in Seq(Requests)
  BY DEF TokenLookAt, IInv, TypeOK
<1>6. UNCHANGED <<loopVars, fetchVars, workerVars>>
  BY DEF TokenLookAt
<1> QED BY <1>2, <1>3, <1>4, <1>5, <1>6, TokenStepTypes

(* The test of stop_flags preserves the invariant. *)
LEMMA TokenScanStep ==
    ASSUME IInv, TokenScan
    PROVE  IInv'
<1>1. RMTypeOK' /\ BlocksConserved'
  BY ManagerUnchanged DEF IInv, TypeOK, TokenScan
<1>2. tmsg' \in Messages \cup {Nothing} /\ tids' \in SUBSET Requests
  BY DEF TokenScan, TokenDrop, IInv, TypeOK
<1>3. tslot' \in Nat /\ tpc' \in {"ids", "scan", "read"}
  BY DEF TokenScan, TokenDrop, IInv, TypeOK
<1>4. ReadInRange'
  <2>1. tslot \in Nat /\ tmsg \in Messages
    BY DEF TokenScan, IInv, TypeOK
  <2>2. tmsg.bsz \in Int
    BY <2>1 DEF Messages
  <2>3. CASE tslot >= tmsg.bsz
    BY <2>3 DEF TokenScan, TokenDrop, ReadInRange
  <2>4. CASE ~(tslot >= tmsg.bsz) /\ tslot \in stopped
    BY <2>4 DEF TokenScan, ReadInRange
  <2>5. CASE ~(tslot >= tmsg.bsz) /\ tslot \notin stopped
    BY <2>1, <2>2, <2>5 DEF TokenScan, ReadInRange
  <2> QED BY <2>3, <2>4, <2>5
<1>5. msgs' \in Seq(Messages) /\ finishing' \in Seq(Requests) /\ premature' \in BOOLEAN
  BY DEF TokenScan, IInv, TypeOK
<1>6. UNCHANGED <<loopVars, fetchVars, workerVars>>
  BY DEF TokenScan
<1> QED BY <1>1, <1>2, <1>3, <1>4, <1>5, <1>6, TokenStepTypes

(* Here the range of the position matters: tasks_list has it. *)
LEMMA TokenReadStep ==
    ASSUME IInv, TokenRead
    PROVE  IInv'
<1> DEFINE r == tasks_list[tslot]
           token == tmsg.tok[tslot]
<1>1. RMTypeOK /\ BlocksConserved /\ premature \in BOOLEAN /\ finishing \in Seq(Requests)
  BY DEF IInv, TypeOK
<1>2. tmsg \in Messages /\ tslot \in Nat /\ tslot < tmsg.bsz
  BY DEF IInv, TypeOK, TokenRead, ReadInRange
<1>3. tslot \in Slots
  BY <1>2, PoolAssumption DEF Messages, Slots
<1>4. r \in ReqOrNone
  BY <1>1, <1>3 DEF RMTypeOK
<1>5. /\ UNCHANGED <<loopVars, fetchVars, workerVars, msgs>>
      /\ \/ r = NoReq /\ TokenDrop /\ UNCHANGED <<rmVars, finishing, premature>>
         \/ /\ r # NoReq /\ (Reschedule(r) \/ UNCHANGED <<rmVars, premature>>)
            /\ TokenNext /\ UNCHANGED finishing
         \/ /\ r # NoReq
            /\ output' = [output EXCEPT ![r] = @ + 1]
            /\ finishing' \in {Append(finishing, r), finishing}
            /\ TokenNext
            /\ UNCHANGED <<poolVars, reqVars, queueVars, slotVars, schedVars, premature>>
  BY DEF TokenRead
<1> HIDE DEF r
<1>6. RMTypeOK' /\ BlocksConserved' /\ premature' \in BOOLEAN
  <2>1. CASE UNCHANGED <<rmVars, premature>>
    BY <1>1, <2>1, ManagerUnchanged
  <2>2. CASE r # NoReq /\ Reschedule(r)
    BY <1>1, <1>4, <2>2, RescheduleStep, PrematureBoolean DEF Reschedule, ReqOrNone
  <2>3. CASE /\ r # NoReq /\ output' = [output EXCEPT ![r] = @ + 1]
             /\ UNCHANGED <<poolVars, reqVars, queueVars, slotVars, schedVars, premature>>
    <3>1. BlocksConserved'
      BY <1>1, <2>3, PoolUnchanged
    <3>2. output' \in [Requests -> Nat]
      BY <1>1, <1>4, <2>3 DEF RMTypeOK, ReqOrNone
    <3>3. RMTypeOK'
      BY <1>1, <2>3, <3>2 DEF RMTypeOK, poolVars, reqVars, queueVars, slotVars, schedVars
    <3> QED BY <1>1, <2>3, <3>1, <3>3
  <2> QED BY <1>5, <2>1, <2>2, <2>3
<1>7. finishing' \in Seq(Requests)
  <2>1. CASE UNCHANGED finishing
    BY <1>1, <2>1
  <2>2. CASE r # NoReq /\ finishing' = Append(finishing, r)
    BY <1>1, <1>4, <2>2, AppendProperties DEF ReqOrNone
  <2> QED BY <1>5, <2>1, <2>2
<1>8. /\ tmsg' \in Messages \cup {Nothing} /\ tids' \in SUBSET Requests /\ tslot' \in Nat
      /\ tpc' \in {"ids", "scan", "read"} /\ tpc' # "read"
  <2>1. CASE TokenDrop
    BY <2>1 DEF TokenDrop
  <2>2. CASE TokenNext
    BY <2>2 DEF TokenNext, IInv, TypeOK
  <2> QED BY <1>5, <2>1, <2>2
<1>9. ReadInRange'
  BY <1>8 DEF ReadInRange
<1>10. msgs' \in Seq(Messages)
  BY <1>5 DEF IInv, TypeOK
<1> QED BY <1>5, <1>6, <1>7, <1>8, <1>9, <1>10, TokenStepTypes

(* A call of the finish pool preserves the invariant. *)
LEMMA FinishStep ==
    ASSUME IInv, Finish
    PROVE  IInv'
<1>1. finishing \in Seq(Requests) /\ finishing # << >>
  BY DEF IInv, TypeOK, Finish
<1>2. Head(finishing) \in Requests /\ Tail(finishing) \in Seq(Requests)
  BY <1>1, HeadTailProperties
<1>3. RMTypeOK' /\ BlocksConserved'
  BY <1>2, FinishRequestsStep DEF IInv, TypeOK, Finish
<1>4. finishing' \in Seq(Requests)
  BY <1>2 DEF Finish
<1>5. UNCHANGED <<loopVars, fetchVars, workerVars, msgs, tokenVars, premature>>
  BY DEF Finish
<1>6. TypeOK'
  BY <1>3, <1>4, <1>5 DEF IInv, TypeOK, loopVars, fetchVars, workerVars, tokenVars
<1>7. ReadInRange'
  BY <1>5 DEF IInv, ReadInRange, tokenVars
<1> QED BY <1>3, <1>6, <1>7 DEF IInv

-----------------------------------------------------------------------------
(* The initial state satisfies the invariant. *)
LEMMA InitEstablishes == Init => IInv
<1> SUFFICES ASSUME Init PROVE IInv
  OBVIOUS
<1>1. BlocksConserved
  <2>1. free = Blocks /\ \A r \in Requests : block_tables[r] = {}
    BY DEF Init, RMInit
  <2> QED BY <2>1 DEF BlocksConserved
<1>2. need \in [Requests -> Nat] /\ 0 \in 0 .. MaxSeqs
  BY RequestAssumption, PoolAssumption DEF Init, RMInit
<1>3. preempted \in BOOLEAN /\ is_fetching \in BOOLEAN /\ not_need_stop \in BOOLEAN
      /\ crashed \in BOOLEAN /\ premature \in BOOLEAN /\ stray \in BOOLEAN
  BY Zenon DEF Init, RMInit
<1>4. scheduled \in SUBSET ScheduledTasks
  BY DEF Init, RMInit
<1>5. /\ waiting \in Seq(Requests) /\ running \in Seq(Requests)
      /\ requests \in SUBSET Requests /\ resched \in SUBSET Requests
  BY DEF Init, RMInit
<1>6. /\ status \in [Requests -> {"WAITING", "RUNNING", "PREEMPTED", "FINISHED"}]
      /\ idx \in [Requests -> SlotOrNone]
      /\ block_tables \in [Requests -> SUBSET Blocks] /\ free \in SUBSET Blocks
      /\ computed \in [Requests -> Nat] /\ output \in [Requests -> Nat]
      /\ tasks_list \in [Slots -> ReqOrNone] /\ stopped \in SUBSET Slots
  BY DEF Init, RMInit, SlotOrNone, ReqOrNone
<1>7. real_bsz \in 0 .. MaxSeqs /\ spc = "idle" /\ cursor \in Nat \ {0} /\ budget \in Int
  BY <1>2 DEF Init, RMInit
<1>8. RMTypeOK
  BY <1>2, <1>3, <1>4, <1>5, <1>6, <1>7 DEF RMTypeOK
<1>9. slot \in [Slots -> SlotStates]
  <2>1. EmptySlot \in SlotStates
    BY DEF EmptySlot, SlotStates, ReqOrNone
  <2> QED BY <2>1 DEF Init
<1>10. /\ epc \in {"top", "chk", "go"} /\ queue \in Batches \cup {Nothing}
       /\ jobs \in Nat /\ fetched \in Seq(Requests) \cup {Nothing} /\ wbsz \in 0 .. MaxSeqs
       /\ tmsg \in Messages \cup {Nothing} /\ tids \in SUBSET Requests
       /\ tslot \in Nat /\ tpc \in {"ids", "scan", "read"}
  BY <1>2 DEF Init
<1>11. msgs \in Seq(Messages) /\ finishing \in Seq(Requests)
  BY DEF Init
<1>12. pending \in Seq(Requests)
  BY ArrivalsAssumption DEF Init
<1>13. TypeOK
  BY <1>3, <1>8, <1>9, <1>10, <1>11, <1>12 DEF TypeOK
<1>14. ReadInRange
  BY DEF Init, ReadInRange
<1> QED BY <1>1, <1>13, <1>14 DEF IInv

(* Every step preserves the invariant. *)
LEMMA NextPreserves == IInv /\ [Next]_vars => IInv'
<1> SUFFICES ASSUME IInv, [Next]_vars PROVE IInv'
  OBVIOUS
<1>1. CASE LoopTop \/ LoopFetch
  BY <1>1, LoopSteps
<1>2. CASE LoopSchedule \/ LoopScheduleStep
  BY <1>2, LoopScheduleSteps
<1>3. CASE LoopSend
  BY <1>3, LoopSendStep
<1>4. CASE FetchTake \/ FetchAdd \/ FetchEnd
  BY <1>4, FetchSteps
<1>5. CASE WorkerPass
  BY <1>5, WorkerPassStep
<1>6. CASE TokenTake \/ TokenScan \/ TokenRead
  BY <1>6, TokenTakeStep, TokenScanStep, TokenReadStep
<1>7. CASE \E r \in Requests : TokenLookAt(r)
  BY <1>7, TokenLookAtStep
<1>8. CASE Finish
  BY <1>8, FinishStep
<1>9. CASE UNCHANGED vars
  <2>1. UNCHANGED <<rmVars, loopVars, fetchVars, workerVars, msgs, tokenVars, finishing, premature>>
    BY <1>9 DEF vars
  <2>2. RMTypeOK' /\ BlocksConserved'
    BY <2>1, ManagerUnchanged DEF IInv, TypeOK
  <2> QED BY <2>1, <2>2, OnlyManager
<1> QED BY <1>1, <1>2, <1>3, <1>4, <1>5, <1>6, <1>7, <1>8, <1>9 DEF Next

(* The inductive invariant holds in every reachable state. *)
THEOREM Invariance == Spec => []IInv
  BY InitEstablishes, NextPreserves, PTL DEF Spec

(* Every variable of the engine, of the resource manager and of the worker   *)
(* keeps its type; messages and batches only name positions that exist.      *)
THEOREM TypeCorrect == Spec => []TypeOK
<1>1. IInv => TypeOK
  BY DEF IInv
<1> QED BY <1>1, Invariance, PTL

(* schedule(), preemption, finish_requests and the exception of              *)
(* get_available_position conserve the pool of KV-cache blocks, in every     *)
(* interleaving and also after a premature reschedule.                       *)
THEOREM BlocksAreConserved == Spec => []BlocksConserved
<1>1. IInv => BlocksConserved
  BY DEF IInv
<1> QED BY <1>1, Invariance, PTL

-----------------------------------------------------------------------------
(* Lists of requests without repetitions. *)
Once(q) == \A i, j \in 1 .. Len(q) : i # j => q[i] # q[j]

LEMMA OnceAppend ==
    ASSUME NEW q \in Seq(Requests), NEW r \in Requests, Once(q), r \notin Members(q)
    PROVE  Once(Append(q, r)) /\ Members(Append(q, r)) = Members(q) \cup {r}
<1>1. /\ Len(Append(q, r)) = Len(q) + 1 /\ Len(q) \in Nat
      /\ \A i \in 1 .. Len(q) : Append(q, r)[i] = q[i]
      /\ Append(q, r)[Len(q) + 1] = r
  OBVIOUS
<1>2. Once(Append(q, r))
  BY <1>1 DEF Once, Members
<1>3. Members(Append(q, r)) = Members(q) \cup {r}
  BY <1>1 DEF Members
<1> QED BY <1>2, <1>3

LEMMA OncePrepend ==
    ASSUME NEW q \in Seq(Requests), NEW r \in Requests, Once(q), r \notin Members(q)
    PROVE  Once(<<r>> \o q) /\ Members(<<r>> \o q) = Members(q) \cup {r}
<1> DEFINE p == <<r>> \o q
<1>1. /\ Len(p) = Len(q) + 1 /\ Len(q) \in Nat
      /\ \A i \in 1 .. Len(p) : p[i] = IF i = 1 THEN r ELSE q[i - 1]
  OBVIOUS
<1>0. \A i \in 1 .. Len(q) : i + 1 \in 1 .. Len(p) /\ p[i + 1] = q[i]
  BY <1>1
<1> HIDE DEF p
<1>2. Once(p)
  BY <1>1 DEF Once, Members
<1>3. Members(p) = Members(q) \cup {r}
  BY <1>0, <1>1 DEF Members
<1> QED BY <1>2, <1>3 DEF p

LEMMA OnceTail ==
    ASSUME NEW q \in Seq(Requests), Once(q), q # << >>
    PROVE  /\ Once(Tail(q)) /\ Tail(q) \in Seq(Requests)
           /\ Head(q) \in Members(q) /\ Members(Tail(q)) = Members(q) \ {Head(q)}
<1> DEFINE p == Tail(q)
<1>1. /\ Len(q) \in Nat /\ Len(p) = Len(q) - 1 /\ Head(q) = q[1] /\ 1 \in 1 .. Len(q)
      /\ p \in Seq(Requests)
      /\ \A i \in 1 .. Len(p) : p[i] = q[i + 1]
  OBVIOUS
<1>0. \A i \in 2 .. Len(q) : i - 1 \in 1 .. Len(p) /\ p[i - 1] = q[i]
  BY <1>1
<1> HIDE DEF p
<1>2. Once(p)
  BY <1>1 DEF Once
<1>3. Members(p) \subseteq Members(q) \ {Head(q)}
  BY <1>1 DEF Members, Once
<1>4. ASSUME NEW r \in Members(q), r # Head(q) PROVE r \in Members(p)
  <2>1. PICK i \in 1 .. Len(q) : q[i] = r
    BY DEF Members
  <2>2. i \in 2 .. Len(q)
    BY <2>1, <1>1, <1>4
  <2> QED BY <2>1, <2>2, <1>0 DEF Members
<1> QED BY <1>1, <1>2, <1>3, <1>4 DEF p, Members

(* A list cut in two. *)
LEMMA OnceCut ==
    ASSUME NEW q \in Seq(Requests), Once(q), NEW k \in 0 .. Len(q)
    PROVE  /\ SubSeq(q, 1, k) \in Seq(Requests) /\ SubSeq(q, k + 1, Len(q)) \in Seq(Requests)
           /\ Once(SubSeq(q, 1, k)) /\ Once(SubSeq(q, k + 1, Len(q)))
           /\ Members(SubSeq(q, 1, k)) \cup Members(SubSeq(q, k + 1, Len(q))) = Members(q)
           /\ Members(SubSeq(q, 1, k)) \cap Members(SubSeq(q, k + 1, Len(q))) = {}
<1> DEFINE a == SubSeq(q, 1, k)
           b == SubSeq(q, k + 1, Len(q))
<1>1. /\ Len(q) \in Nat /\ Len(a) = k /\ Len(b) = Len(q) - k
      /\ a \in Seq(Requests) /\ b \in Seq(Requests)
      /\ \A i \in 1 .. k : a[i] = q[i]
      /\ \A i \in 1 .. Len(q) - k : b[i] = q[k + i]
  OBVIOUS
<1>2. \A i \in k + 1 .. Len(q) : i - k \in 1 .. Len(q) - k /\ b[i - k] = q[i]
  BY <1>1
<1> HIDE DEF a, b
<1>3. Once(a)
  BY <1>1 DEF Once
<1>7. Once(b)
  <2>1. ASSUME NEW i \in 1 .. Len(b), NEW j \in 1 .. Len(b), i # j PROVE b[i] # b[j]
    <3>1. k + i \in 1 .. Len(q) /\ k + j \in 1 .. Len(q) /\ k + i # k + j
      BY <1>1, <2>1
    <3> QED BY <3>1, <1>1 DEF Once
  <2> QED BY <2>1 DEF Once
<1>4. Members(a) \cap Members(b) = {}
  BY <1>1 DEF Once, Members
<1>5. Members(a) \cup Members(b) \subseteq Members(q)
  <2>1. \A i \in 1 .. Len(a) : i \in 1 .. Len(q) /\ a[i] = q[i]
    BY <1>1
  <2>2. \A i \in 1 .. Len(b) : k + i \in 1 .. Len(q) /\ b[i] = q[k + i]
    BY <1>1
  <2> QED BY <2>1, <2>2 DEF Members
<1>6. Members(q) \subseteq Members(a) \cup Members(b)
  BY <1>1, <1>2 DEF Members
<1> QED BY <1>1, <1>3, <1>4, <1>5, <1>6, <1>7 DEF a, b

(* A list that loses its last element. *)
LEMMA OnceFront ==
    ASSUME NEW q \in Seq(Requests), Once(q), q # << >>
    PROVE  /\ Once(SubSeq(q, 1, Len(q) - 1)) /\ q[Len(q)] \in Members(q)
           /\ Members(SubSeq(q, 1, Len(q) - 1)) = Members(q) \ {q[Len(q)]}
<1> DEFINE p == SubSeq(q, 1, Len(q) - 1)
<1>0. Len(q) \in Nat \ {0} /\ Len(q) - 1 \in 0 .. Len(q)
  OBVIOUS
<1>1. Len(p) = Len(q) - 1 /\ \A i \in 1 .. Len(q) - 1 : p[i] = q[i]
  <2>1. \A k \in 0 .. Len(q) : /\ Len(SubSeq(q, 1, k)) = k
                               /\ \A i \in 1 .. k : SubSeq(q, 1, k)[i] = q[i]
    OBVIOUS
  <2> QED BY <1>0, <2>1
<1> HIDE DEF p
<1>2. Once(p)
  BY <1>0, <1>1 DEF Once
<1>3. Members(p) \subseteq Members(q) \ {q[Len(q)]}
  BY <1>0, <1>1 DEF Members, Once
<1>4. Members(q) \ {q[Len(q)]} \subseteq Members(p)
  BY <1>0, <1>1 DEF Members
<1>5. q[Len(q)] \in Members(q)
  BY <1>0 DEF Members
<1> QED BY <1>2, <1>3, <1>4, <1>5 DEF p

(* A list that loses the element at i. *)
LEMMA OnceRemove ==
    ASSUME NEW q \in Seq(Requests), Once(q), NEW i \in 1 .. Len(q)
    PROVE  LET p == SubSeq(q, 1, i - 1) \o SubSeq(q, i + 1, Len(q))
           IN  p \in Seq(Requests) /\ Once(p) /\ Members(p) = Members(q) \ {q[i]}
<1> DEFINE a == SubSeq(q, 1, i - 1)
           b == SubSeq(q, i + 1, Len(q))
           p == a \o b
<1>0. Len(q) \in Nat /\ i \in Nat /\ i - 1 \in Nat
  OBVIOUS
<1>a. /\ a \in Seq(Requests) /\ Len(a) = i - 1
      /\ \A j \in 1 .. i - 1 : a[j] = q[j]
  BY <1>0
<1>b. /\ b \in Seq(Requests) /\ Len(b) = Len(q) - i
      /\ \A j \in 1 .. Len(q) - i : b[j] = q[i + j]
  BY <1>0
<1> HIDE DEF a, b
<1>c. /\ p \in Seq(Requests) /\ Len(p) = Len(q) - 1
      /\ \A j \in 1 .. Len(p) : p[j] = IF j <= Len(a) THEN a[j] ELSE b[j - Len(a)]
  <2>1. /\ p \in Seq(Requests) /\ Len(p) = Len(a) + Len(b)
        /\ \A j \in 1 .. Len(a) + Len(b) : p[j] = IF j <= Len(a) THEN a[j] ELSE b[j - Len(a)]
    BY <1>a, <1>b, ConcatProperties
  <2>2. Len(a) + Len(b) = Len(q) - 1
    BY <1>a, <1>b, <1>0
  <2> QED BY <2>1, <2>2
<1>1. \A j \in 1 .. Len(p) : p[j] = IF j < i THEN q[j] ELSE q[j + 1]
  <2> SUFFICES ASSUME NEW j \in 1 .. Len(p) PROVE p[j] = IF j < i THEN q[j] ELSE q[j + 1]
    OBVIOUS
  <2>1. CASE j < i
    BY <2>1, <1>a, <1>c, <1>0
  <2>2. CASE j >= i
    <3>1. j - Len(a) \in 1 .. Len(q) - i /\ i + (j - Len(a)) = j + 1
      BY <2>2, <1>a, <1>c, <1>0
    <3> QED BY <3>1, <2>2, <1>a, <1>b, <1>c, <1>0
  <2> QED BY <2>1, <2>2, <1>0
<1> HIDE DEF p
<1>2. \A j \in 1 .. Len(q) : /\ j < i => j \in 1 .. Len(p) /\ p[j] = q[j]
                             /\ j > i => j - 1 \in 1 .. Len(p) /\ p[j - 1] = q[j]
  <2> SUFFICES ASSUME NEW j \in 1 .. Len(q)
               PROVE  /\ j < i => j \in 1 .. Len(p) /\ p[j] = q[j]
                      /\ j > i => j - 1 \in 1 .. Len(p) /\ p[j - 1] = q[j]
    OBVIOUS
  <2>1. CASE j < i
    <3>1. j \in 1 .. Len(p)
      BY <2>1, <1>0, <1>c
    <3> QED BY <2>1, <3>1, <1>0, <1>1
  <2>2. CASE j > i
    <3>1. j - 1 \in 1 .. Len(p) /\ ~(j - 1 < i) /\ (j - 1) + 1 = j
      BY <2>2, <1>0, <1>c
    <3> QED BY <2>2, <3>1, <1>0, <1>1
  <2> QED BY <2>1, <2>2, <1>0
<1>3. Once(p)
  <2> SUFFICES ASSUME NEW j \in 1 .. Len(p), NEW k \in 1 .. Len(p), j # k PROVE p[j] # p[k]
    BY DEF Once
  <2> DEFINE at(n) == IF n < i THEN n ELSE n + 1
  <2>1. at(j) \in 1 .. Len(q) /\ at(k) \in 1 .. Len(q) /\ at(j) # at(k)
    BY <1>0, <1>c
  <2>2. p[j] = q[at(j)] /\ p[k] = q[at(k)]
    BY <1>1
  <2> QED BY <2>1, <2>2, <1>0 DEF Once
<1>4. Members(p) \subseteq Members(q) \ {q[i]}
  BY <1>0, <1>1, <1>c DEF Members, Once
<1>5. ASSUME NEW r \in Members(q), r # q[i] PROVE r \in Members(p)
  <2>1. PICK j \in 1 .. Len(q) : q[j] = r
    BY DEF Members
  <2>2. j < i \/ j > i
    BY <2>1, <1>5, <1>0
  <2> QED BY <2>1, <2>2, <1>2 DEF Members
<1> QED BY <1>c, <1>3, <1>4, <1>5 DEF p, a, b

-----------------------------------------------------------------------------
(* OneQueue is inductive together with what becomes of a request before and  *)
(* between its queues: one that the scheduler still holds, or that is        *)
(* fetched, is in no queue and new, and one that is to be rescheduled has    *)
(* been preempted.                                                           *)
InHand == IF fetched = Nothing THEN << >> ELSE fetched
Queued == Members(waiting) \cup Members(running) \cup resched

NotYetQueued ==
    /\ Once(pending) /\ Once(InHand)
    /\ Members(pending) \cap Members(InHand) = {}
    /\ (Members(pending) \cup Members(InHand)) \cap Queued = {}
    /\ \A r \in Members(pending) \cup Members(InHand) : status[r] = "WAITING"

QInv ==
    /\ NotYetQueued
    /\ OneQueue
    /\ \A r \in resched : status[r] = "PREEMPTED"

(* What the parts of the invariant say, in terms of sets. *)
Sets(P, F, W, R, S) ==
    /\ P \cap F = {} /\ (P \cup F) \cap (W \cup R \cup S) = {}
    /\ W \cap R = {} /\ S \cap (W \cup R) = {}
Statuses(P, F, W, S, st) ==
    /\ \A r \in P \cup F : st[r] = "WAITING"
    /\ \A r \in W : st[r] \in {"WAITING", "PREEMPTED"}
    /\ \A r \in S : st[r] = "PREEMPTED"

LEMMA QInvParts ==
    QInv <=> /\ Once(pending) /\ Once(InHand) /\ Once(waiting) /\ Once(running)
             /\ Sets(Members(pending), Members(InHand), Members(waiting), Members(running), resched)
             /\ Statuses(Members(pending), Members(InHand), Members(waiting), resched, status)
  BY DEF QInv, NotYetQueued, OneQueue, Queued, Once, Sets, Statuses

LEMMA QInvNext ==
    ASSUME Once(pending'), Once(InHand'), Once(waiting'), Once(running'),
           Sets(Members(pending'), Members(InHand'), Members(waiting'), Members(running'), resched'),
           Statuses(Members(pending'), Members(InHand'), Members(waiting'), resched', status')
    PROVE  QInv'
  BY DEF QInv, NotYetQueued, OneQueue, Queued, Once, Sets, Statuses

LEMMA QueueUnchanged ==
    ASSUME QInv, UNCHANGED <<pending, fetched, waiting, running, resched, status>>
    PROVE  QInv'
<1>1. InHand' = InHand
  BY DEF InHand
<1> QED BY <1>1, QInvParts, QInvNext

LEMMA InitQueues == Init => QInv
<1> SUFFICES ASSUME Init PROVE QInv
  OBVIOUS
<1>1. /\ pending = Arrivals /\ fetched = Nothing /\ waiting = << >> /\ running = << >>
      /\ resched = {} /\ status = [r \in Requests |-> "WAITING"]
  BY DEF Init, RMInit
<1>2. Once(pending) /\ Members(pending) \subseteq Requests
  BY <1>1, ArrivalsAssumption DEF Once, Members
<1>3. InHand = << >> /\ Members(<< >>) = {} /\ Once(<< >>)
  BY <1>1 DEF InHand, Members, Once
<1>4. Sets(Members(pending), {}, {}, {}, {})
  BY DEF Sets
<1>5. Statuses(Members(pending), {}, {}, {}, status)
  BY <1>1, <1>2 DEF Statuses
<1> QED BY <1>1, <1>2, <1>3, <1>4, <1>5, QInvParts

(* The fetching thread moves requests from the scheduler to the waiting list.*)
LEMMA FetchQueues ==
    ASSUME TypeOK, QInv, FetchTake \/ FetchAdd \/ FetchEnd
    PROVE  QInv'
<1>0. /\ pending \in Seq(Requests) /\ fetched \in Seq(Requests) \cup {Nothing}
      /\ waiting \in Seq(Requests) /\ running \in Seq(Requests)
  BY DEF TypeOK, RMTypeOK
<1>1. /\ Once(pending) /\ Once(InHand) /\ Once(waiting) /\ Once(running)
      /\ Sets(Members(pending), Members(InHand), Members(waiting), Members(running), resched)
      /\ Statuses(Members(pending), Members(InHand), Members(waiting), resched, status)
  BY QInvParts
<1>2. CASE FetchTake
  <2>1. PICK k \in 0 .. Len(pending) :
            fetched' = SubSeq(pending, 1, k) /\ pending' = SubSeq(pending, k + 1, Len(pending))
    BY <1>2 DEF FetchTake
  <2>2. waiting' = waiting /\ running' = running /\ resched' = resched /\ status' = status
    BY <1>2 DEF FetchTake, rmVars, queueVars, reqVars
  <2>3. Once(pending') /\ Once(fetched') /\ Members(pending') \cap Members(fetched') = {}
        /\ Members(pending') \cup Members(fetched') = Members(pending)
    BY <2>1, <1>0, <1>1, OnceCut
  <2>4. Once(InHand') /\ Members(InHand') \subseteq Members(fetched')
    BY <2>3 DEF InHand, Once, Members
  <2>5. Sets(Members(pending'), Members(InHand'), Members(waiting'), Members(running'), resched')
    BY <1>1, <2>2, <2>3, <2>4 DEF Sets
  <2>6. Statuses(Members(pending'), Members(InHand'), Members(waiting'), resched', status')
    BY <1>1, <2>2, <2>3, <2>4 DEF Statuses
  <2> QED BY <1>1, <2>2, <2>3, <2>4, <2>5, <2>6, QInvNext
<1>3. CASE FetchAdd
  <2>1. /\ fetched # Nothing /\ fetched # << >> /\ fetched' = Tail(fetched) /\ pending' = pending
        /\ waiting' = Append(waiting, Head(fetched)) /\ running' = running /\ resched' = resched
        /\ status' = status
    BY <1>3 DEF FetchAdd, AddRequest, reqVars
  <2>2. InHand = fetched /\ fetched \in Seq(Requests) /\ Head(fetched) \in Requests
    BY <2>1, <1>0 DEF InHand
  <2>3. /\ Once(fetched') /\ Head(fetched) \in Members(InHand)
        /\ Members(fetched') = Members(InHand) \ {Head(fetched)}
    BY <2>1, <2>2, <1>1, OnceTail
  <2>4. Once(InHand') /\ Members(InHand') \subseteq Members(fetched')
    BY <2>3 DEF InHand, Once, Members
  <2>5. Head(fetched) \notin Members(waiting)
    BY <2>3, <1>1 DEF Sets
  <2>6. Once(waiting') /\ Members(waiting') = Members(waiting) \cup {Head(fetched)}
    BY <2>1, <2>2, <2>5, <1>0, <1>1, OnceAppend
  <2>7. Sets(Members(pending), Members(InHand'), Members(waiting'), Members(running), resched)
    BY <1>1, <2>3, <2>4, <2>6 DEF Sets
  <2>8. Statuses(Members(pending), Members(InHand'), Members(waiting'), resched, status)
    BY <1>1, <2>3, <2>4, <2>6 DEF Statuses
  <2> QED BY <1>1, <2>1, <2>4, <2>6, <2>7, <2>8, QInvNext
<1>4. CASE FetchEnd
  <2>1. fetched = << >> /\ fetched' = Nothing /\ pending' = pending /\ waiting' = waiting
        /\ running' = running /\ resched' = resched /\ status' = status
    BY <1>4 DEF FetchEnd, rmVars, queueVars, reqVars
  <2>2. InHand = << >> /\ InHand' = << >>
    BY <2>1 DEF InHand
  <2> QED BY <1>1, <2>1, <2>2, QInvNext
<1> QED BY <1>2, <1>3, <1>4

(* schedule(): a waiting request becomes running. *)
LEMMA StartQueues ==
    ASSUME TypeOK, QInv, waiting # << >>, waiting' = Tail(waiting),
           running' = Append(running, Head(waiting)),
           status' = [status EXCEPT ![Head(waiting)] = "RUNNING"],
           resched' = resched, pending' = pending, fetched' = fetched
    PROVE  QInv'
<1> DEFINE r == Head(waiting)
<1>0. /\ waiting \in Seq(Requests) /\ running \in Seq(Requests) /\ r \in Requests
      /\ status \in [Requests -> {"WAITING", "RUNNING", "PREEMPTED", "FINISHED"}]
      /\ pending \in Seq(Requests) /\ resched \subseteq Requests
  BY SMTT(20) DEF TypeOK, RMTypeOK
<1>1. /\ Once(pending) /\ Once(InHand) /\ Once(waiting) /\ Once(running)
      /\ Sets(Members(pending), Members(InHand), Members(waiting), Members(running), resched)
      /\ Statuses(Members(pending), Members(InHand), Members(waiting), resched, status)
  BY QInvParts
<1>2. InHand' = InHand
  BY DEF InHand
<1>3. r \in Members(waiting) /\ Once(waiting') /\ Members(waiting') = Members(waiting) \ {r}
  BY <1>0, <1>1, OnceTail
<1>4. Once(running') /\ Members(running') = Members(running) \cup {r}
  BY <1>0, <1>1, <1>3, OnceAppend DEF Sets
<1>5. Sets(Members(pending), Members(InHand), Members(waiting'), Members(running'), resched)
  BY <1>1, <1>3, <1>4 DEF Sets
<1>6. \A q : q # r /\ q \in Requests => status'[q] = status[q]
  BY <1>0
<1>7. Members(waiting) \subseteq Requests /\ Members(pending) \subseteq Requests
      /\ Members(InHand) \subseteq Requests
  BY <1>0 DEF Members, InHand, TypeOK
<1>8. Statuses(Members(pending), Members(InHand), Members(waiting'), resched, status')
  <2>1. r \notin Members(pending) \cup Members(InHand) \cup Members(waiting') \cup resched
    BY <1>1, <1>3 DEF Sets
  <2> QED BY <2>1, <1>0, <1>1, <1>3, <1>6, <1>7 DEF Statuses
<1> QED BY <1>1, <1>2, <1>3, <1>4, <1>5, <1>8, QInvNext

(* schedule(): the last running request is preempted. *)
LEMMA PreemptQueues ==
    ASSUME TypeOK, QInv, TriggerPreempt, pending' = pending, fetched' = fetched
    PROVE  QInv'
<1> DEFINE v == running[Len(running)]
<1>0. /\ waiting \in Seq(Requests) /\ running \in Seq(Requests)
      /\ status \in [Requests -> {"WAITING", "RUNNING", "PREEMPTED", "FINISHED"}]
      /\ pending \in Seq(Requests) /\ resched \subseteq Requests
      /\ Len(running) \in Nat /\ cursor \in Nat \ {0}
  BY DEF TypeOK, RMTypeOK
<1>1. /\ Once(pending) /\ Once(InHand) /\ Once(waiting) /\ Once(running)
      /\ Sets(Members(pending), Members(InHand), Members(waiting), Members(running), resched)
      /\ Statuses(Members(pending), Members(InHand), Members(waiting), resched, status)
  BY QInvParts
<1>2. InHand' = InHand
  BY DEF InHand
<1>3. /\ cursor <= Len(running) /\ running' = SubSeq(running, 1, Len(running) - 1)
      /\ status' = [status EXCEPT ![v] = "PREEMPTED"] /\ resched' = resched \cup {v}
      /\ waiting' = waiting
  BY DEF TriggerPreempt, InRunningLoop
<1>4. Len(running) - 1 \in 0 .. Len(running) /\ Len(running) \in 1 .. Len(running)
  BY <1>0, <1>3
<1>5. /\ Once(running') /\ v \in Members(running) /\ v \in Requests
      /\ Members(running') = Members(running) \ {v}
  <2>1. running # << >>
    BY <1>0, <1>4
  <2>3. /\ Once(SubSeq(running, 1, Len(running) - 1)) /\ v \in Members(running)
        /\ Members(SubSeq(running, 1, Len(running) - 1)) = Members(running) \ {v}
    BY <1>0, <1>1, <2>1, OnceFront
  <2>4. v \in Requests
    BY <1>0, <1>4
  <2> QED BY <2>3, <2>4, <1>3
<1>6. Sets(Members(pending), Members(InHand), Members(waiting), Members(running'), resched')
  BY <1>1, <1>3, <1>5 DEF Sets
<1>7. Members(waiting) \subseteq Requests /\ Members(pending) \subseteq Requests
      /\ Members(InHand) \subseteq Requests
  BY <1>0 DEF Members, InHand, TypeOK
<1>8. \A q \in Requests : status'[q] = IF q = v THEN "PREEMPTED" ELSE status[q]
  BY <1>0, <1>3
<1>9. Statuses(Members(pending), Members(InHand), Members(waiting), resched', status')
  <2>1. v \notin Members(pending) \cup Members(InHand) \cup Members(waiting)
    BY <1>1, <1>5 DEF Sets
  <2> QED BY <2>1, <1>0, <1>1, <1>3, <1>5, <1>7, <1>8 DEF Statuses
<1> QED BY <1>1, <1>2, <1>3, <1>5, <1>6, <1>9, QInvNext

(* The token processor puts a preempted request back. *)
LEMMA RescheduleQueues ==
    ASSUME TypeOK, QInv, NEW r \in Requests, ReschedulePreemptTask(r),
           pending' = pending, fetched' = fetched
    PROVE  QInv'
<1>0. waiting \in Seq(Requests)
  BY DEF TypeOK, RMTypeOK
<1>1. /\ Once(pending) /\ Once(InHand) /\ Once(waiting) /\ Once(running)
      /\ Sets(Members(pending), Members(InHand), Members(waiting), Members(running), resched)
      /\ Statuses(Members(pending), Members(InHand), Members(waiting), resched, status)
  BY QInvParts
<1>2. InHand' = InHand
  BY DEF InHand
<1>3. running' = running /\ status' = status
  BY DEF ReschedulePreemptTask, reqVars
<1>4. CASE r \in resched /\ r \in requests
  <2>1. waiting' = <<r>> \o waiting /\ resched' = resched \ {r}
    BY <1>4 DEF ReschedulePreemptTask
  <2>2. Once(waiting') /\ Members(waiting') = Members(waiting) \cup {r}
    BY <1>0, <1>1, <1>4, <2>1, OncePrepend DEF Sets
  <2>3. Sets(Members(pending), Members(InHand), Members(waiting'), Members(running), resched')
    BY <1>1, <1>4, <2>1, <2>2 DEF Sets
  <2>4. Statuses(Members(pending), Members(InHand), Members(waiting'), resched', status)
    BY <1>1, <1>4, <2>1, <2>2 DEF Statuses
  <2> QED BY <1>1, <1>2, <1>3, <2>2, <2>3, <2>4, QInvNext
<1>5. CASE ~(r \in resched /\ r \in requests)
  <2>1. waiting' = waiting /\ resched' = resched
    BY <1>5 DEF ReschedulePreemptTask
  <2> QED BY <2>1, <1>3, QueueUnchanged
<1> QED BY <1>4, <1>5

(* finish_requests takes a request out of running, or out of the set. *)
LEMMA FinishQueues ==
    ASSUME TypeOK, QInv, NEW r \in Requests, FinishRequests(r),
           pending' = pending, fetched' = fetched
    PROVE  QInv'
<1>0. /\ waiting \in Seq(Requests) /\ running \in Seq(Requests)
      /\ status \in [Requests -> {"WAITING", "RUNNING", "PREEMPTED", "FINISHED"}]
      /\ pending \in Seq(Requests) /\ resched \subseteq Requests
  BY DEF TypeOK, RMTypeOK
<1>1. /\ Once(pending) /\ Once(InHand) /\ Once(waiting) /\ Once(running)
      /\ Sets(Members(pending), Members(InHand), Members(waiting), Members(running), resched)
      /\ Statuses(Members(pending), Members(InHand), Members(waiting), resched, status)
  BY QInvParts
<1>2. InHand' = InHand /\ waiting' = waiting
  BY DEF InHand, FinishRequests
<1>3. CASE r \notin requests
  BY <1>2, <1>3, QueueUnchanged DEF FinishRequests, reqVars
<1>4. CASE r \in requests /\ r \notin Members(running)
  <2>1. running' = running /\ status' = status /\ resched' = resched \ {r}
    BY <1>4 DEF FinishRequests
  <2>2. Sets(Members(pending), Members(InHand), Members(waiting), Members(running), resched')
    BY <1>1, <2>1 DEF Sets
  <2>3. Statuses(Members(pending), Members(InHand), Members(waiting), resched', status)
    BY <1>1, <2>1 DEF Statuses
  <2> QED BY <1>1, <1>2, <2>1, <2>2, <2>3, QInvNext
<1>5. CASE r \in requests /\ r \in Members(running)
  <2>1. /\ RemoveRunning(r) /\ status' = [status EXCEPT ![r] = "FINISHED"]
        /\ resched' = resched \ {r}
    BY <1>5 DEF FinishRequests
  <2>2. PICK i \in 1 .. Len(running) :
            /\ running[i] = r
            /\ running' = SubSeq(running, 1, i - 1) \o SubSeq(running, i + 1, Len(running))
    BY <2>1 DEF RemoveRunning
  <2>3. Once(running') /\ Members(running') = Members(running) \ {r}
    BY <2>2, <1>0, <1>1, OnceRemove
  <2>4. Sets(Members(pending), Members(InHand), Members(waiting), Members(running'), resched')
    BY <1>1, <2>1, <2>3 DEF Sets
  <2>5. \A q \in Requests : q # r => status'[q] = status[q]
    BY <2>1, <1>0
  <2>6. Members(waiting) \subseteq Requests /\ Members(pending) \subseteq Requests
        /\ Members(InHand) \subseteq Requests
    BY <1>0 DEF Members, InHand, TypeOK
  <2>7. r \notin Members(pending) \cup Members(InHand) \cup Members(waiting) \cup resched'
    BY <1>1, <1>5, <2>1 DEF Sets
  <2>8. Statuses(Members(pending), Members(InHand), Members(waiting), resched', status')
    BY <1>0, <1>1, <2>1, <2>5, <2>6, <2>7 DEF Statuses
  <2> QED BY <1>1, <1>2, <2>1, <2>3, <2>4, <2>8, QInvNext
<1> QED BY <1>3, <1>4, <1>5

(* Every step preserves the invariant. *)
LEMMA QueuesPreserved ==
    ASSUME TypeOK, QInv, [Next]_vars
    PROVE  QInv'
<1>1. CASE LoopTop \/ LoopFetch
  BY <1>1, QueueUnchanged DEF LoopTop, LoopFetch, rmVars, reqVars, queueVars, fetchVars
<1>2. CASE LoopSchedule
  BY <1>2, QueueUnchanged DEF LoopSchedule, ScheduleBegin, reqVars, queueVars, fetchVars
<1>3. CASE LoopScheduleStep
  <2>0. pending' = pending /\ fetched' = fetched
    BY <1>3 DEF LoopScheduleStep, fetchVars
  <2>1. CASE DecodeGoesOn \/ DecodeGetsBlocks \/ PrefillChunk \/ RunningLoopEnds \/ WaitingLoopEnds
    <3>1. UNCHANGED <<waiting, running, resched, status>>
      BY <2>1 DEF DecodeGoesOn, DecodeGetsBlocks, PrefillChunk, RunningLoopEnds,
                  WaitingLoopEnds, queueVars, reqVars
    <3> QED BY <3>1, <2>0, QueueUnchanged
  <2>2. CASE TriggerPreempt
    BY <2>0, <2>2, PreemptQueues
  <2>3. CASE AdmitWaiting \/ AdmitRaises \/ ResumePreempted
    <3>1. /\ waiting # << >> /\ waiting' = Tail(waiting)
          /\ running' = Append(running, Head(waiting))
          /\ status' = [status EXCEPT ![Head(waiting)] = "RUNNING"] /\ resched' = resched
      BY <2>3 DEF AdmitWaiting, AdmitRaises, ResumePreempted, InWaitingLoop, StartRunning
    <3> QED BY <3>1, <2>0, StartQueues
  <2> QED BY <1>3, <2>1, <2>2, <2>3 DEF LoopScheduleStep, ScheduleStep
<1>4. CASE LoopSend \/ WorkerPass \/ TokenTake \/ TokenScan
  BY <1>4, QueueUnchanged
    DEF LoopSend, WorkerPass, TokenTake, TokenScan, rmVars, reqVars, queueVars, fetchVars
<1>5. CASE FetchTake \/ FetchAdd \/ FetchEnd
  BY <1>5, FetchQueues
<1>6. ASSUME NEW r \in Requests, TokenLookAt(r) PROVE QInv'
  <2>0. pending' = pending /\ fetched' = fetched
    BY <1>6 DEF TokenLookAt, fetchVars
  <2>1. UNCHANGED rmVars \/ ReschedulePreemptTask(r)
    BY <1>6 DEF TokenLookAt, Reschedule
  <2>2. CASE UNCHANGED rmVars
    BY <2>0, <2>2, QueueUnchanged DEF rmVars, reqVars, queueVars
  <2> QED BY <2>0, <2>1, <2>2, RescheduleQueues
<1>7. CASE TokenRead
  <2>0. pending' = pending /\ fetched' = fetched
    BY <1>7 DEF TokenRead, fetchVars
  <2> DEFINE r == tasks_list[tslot]
  <2>1. \/ UNCHANGED rmVars
        \/ r \in resched /\ ReschedulePreemptTask(r)
        \/ UNCHANGED <<reqVars, queueVars>>
    BY <1>7 DEF TokenRead, Reschedule
  <2>2. CASE UNCHANGED rmVars \/ UNCHANGED <<reqVars, queueVars>>
    BY <2>0, <2>2, QueueUnchanged DEF rmVars, reqVars, queueVars
  <2>3. CASE r \in resched /\ ReschedulePreemptTask(r)
    <3>1. r \in Requests
      BY <2>3 DEF TypeOK, RMTypeOK
    <3> QED BY <2>0, <2>3, <3>1, RescheduleQueues
  <2> QED BY <2>1, <2>2, <2>3
<1>8. CASE Finish
  <2>0. pending' = pending /\ fetched' = fetched /\ FinishRequests(Head(finishing))
    BY <1>8 DEF Finish, fetchVars
  <2>1. Head(finishing) \in Requests
    BY <1>8 DEF Finish, TypeOK
  <2> QED BY <2>0, <2>1, FinishQueues
<1>9. CASE UNCHANGED vars
  BY <1>9, QueueUnchanged DEF vars, rmVars, reqVars, queueVars, fetchVars
<1> QED BY <1>1, <1>2, <1>3, <1>4, <1>5, <1>6, <1>7, <1>8, <1>9 DEF Next

(* A request is in at most one of running, waiting and the set of requests   *)
(* to be rescheduled, and only once, in every interleaving of the threads    *)
(* and also after a premature reschedule; and schedule() finds no waiting    *)
(* request whose status would make its loop turn forever.                    *)
THEOREM RequestsInOneQueue == Spec => []OneQueue
<1>1. QInv => OneQueue
  BY DEF QInv
<1>2. TypeOK /\ QInv /\ [Next]_vars => QInv'
  BY QueuesPreserved
<1> QED BY <1>1, <1>2, InitQueues, TypeCorrect, PTL DEF Spec

-----------------------------------------------------------------------------
(* Positions.  tasks_list and request.idx are inverse to each other as long  *)
(* as the request is in a queue; only a running request has blocks; a        *)
(* request that has not been admitted is as it arrived.                      *)
PositionsAgree ==
    /\ \A s \in Slots : s \in stopped <=> tasks_list[s] = NoReq
    /\ \A s \in Slots : tasks_list[s] # NoReq =>
          idx[tasks_list[s]] = s /\ tasks_list[s] \in Queued
    /\ \A r \in Queued : idx[r] # NoSlot => tasks_list[idx[r]] = r
    /\ \A r \in requests : idx[r] # NoSlot => r \in Queued
BlocksWhileRunning == \A r \in Requests : block_tables[r] # {} => r \in Members(running)
NewRequests ==
    /\ \A r \in Requests : status[r] = "WAITING" =>
          idx[r] = NoSlot /\ need[r] = Prompt[r] /\ output[r] = 0
    /\ \A r \in Members(finishing) : status[r] # "WAITING"
PosInv == PositionsAgree /\ BlocksWhileRunning /\ NewRequests

(* The types the proofs below use. *)
LEMMA ManagerTypes ==
    ASSUME TypeOK
    PROVE  /\ waiting \in Seq(Requests) /\ running \in Seq(Requests)
           /\ resched \subseteq Requests /\ requests \subseteq Requests
           /\ Members(waiting) \subseteq Requests /\ Members(running) \subseteq Requests
           /\ Queued \subseteq Requests /\ Members(finishing) \subseteq Requests
           /\ status \in [Requests -> {"WAITING", "RUNNING", "PREEMPTED", "FINISHED"}]
           /\ idx \in [Requests -> SlotOrNone]
           /\ tasks_list \in [Slots -> ReqOrNone] /\ stopped \subseteq Slots
           /\ block_tables \in [Requests -> SUBSET Blocks] /\ free \subseteq Blocks
           /\ computed \in [Requests -> Nat] /\ need \in [Requests -> Nat]
           /\ output \in [Requests -> Nat]
           /\ scheduled \subseteq ScheduledTasks /\ cursor \in Nat \ {0}
           /\ budget \in Int /\ Len(running) \in Nat
<1>1. waiting \in Seq(Requests) /\ running \in Seq(Requests)
  BY DEF TypeOK, RMTypeOK
<1>2. Members(waiting) \subseteq Requests /\ Members(running) \subseteq Requests
  BY <1>1 DEF Members
<1>3. resched \subseteq Requests /\ requests \subseteq Requests
  BY DEF TypeOK, RMTypeOK
<1>5. Members(finishing) \subseteq Requests
  BY DEF TypeOK, Members
<1>4. Queued \subseteq Requests
  BY <1>2, <1>3 DEF Queued
<1> QED BY <1>1, <1>2, <1>3, <1>4, <1>5 DEF TypeOK, RMTypeOK

LEMMA PosUnchanged ==
    ASSUME PosInv, UNCHANGED <<stopped, tasks_list, idx, requests, block_tables, status, need,
                               output, finishing>>,
           Queued' = Queued, Members(running)' = Members(running)
    PROVE  PosInv'
<1>1. PositionsAgree'
  BY DEF PosInv, PositionsAgree
<1>2. BlocksWhileRunning'
  BY DEF PosInv, BlocksWhileRunning
<1>3. NewRequests'
  <2>1. Members(finishing') = Members(finishing)
    BY DEF Members
  <2> QED BY <2>1 DEF PosInv, NewRequests
<1> QED BY <1>1, <1>2, <1>3 DEF PosInv

LEMMA InitPositions == Init => PosInv
<1> SUFFICES ASSUME Init PROVE PosInv
  OBVIOUS
<1>1. /\ waiting = << >> /\ running = << >> /\ requests = {} /\ resched = {}
      /\ idx = [r \in Requests |-> NoSlot] /\ block_tables = [r \in Requests |-> {}]
      /\ need = Prompt /\ output = [r \in Requests |-> 0]
      /\ tasks_list = [s \in Slots |-> NoReq] /\ stopped = Slots /\ finishing = << >>
  BY DEF Init, RMInit
<1>2. Members(<< >>) = {}
  BY DEF Members
<1>3. Queued = {}
  BY <1>1, <1>2 DEF Queued
<1> QED BY <1>1, <1>2, <1>3, RequestAssumption
        DEF PosInv, PositionsAgree, BlocksWhileRunning, NewRequests

(* The queues as sets, in the steps that move a request. *)
LEMMA QueueMoves ==
    ASSUME TypeOK, QInv
    PROVE  /\ InWaitingLoop /\ waiting' = Tail(waiting) /\ running' = Append(running, Head(waiting))
                /\ resched' = resched
              => /\ Head(waiting) \in Members(waiting) /\ Head(waiting) \notin Members(running)
                 /\ Members(waiting') = Members(waiting) \ {Head(waiting)}
                 /\ Members(running') = Members(running) \cup {Head(waiting)}
                 /\ Queued' = Queued
           /\ TriggerPreempt
              => LET v == running[Len(running)]
                 IN  /\ v \in Members(running) /\ v \in Requests
                     /\ Members(running') = Members(running) \ {v}
                     /\ Members(waiting') = Members(waiting)
                     /\ resched' = resched \cup {v} /\ Queued' = Queued
<1>0. waiting \in Seq(Requests) /\ running \in Seq(Requests) /\ cursor \in Nat \ {0}
  BY ManagerTypes
<1>q. /\ Once(waiting) /\ Once(running) /\ Members(waiting) \cap Members(running) = {}
  BY DEF QInv, OneQueue, Once
<1>1. ASSUME InWaitingLoop, waiting' = Tail(waiting), running' = Append(running, Head(waiting)),
             resched' = resched
      PROVE  /\ Head(waiting) \in Members(waiting) /\ Head(waiting) \notin Members(running)
             /\ Members(waiting') = Members(waiting) \ {Head(waiting)}
             /\ Members(running') = Members(running) \cup {Head(waiting)}
             /\ Queued' = Queued
  <2>1. waiting # << >>
    BY <1>1 DEF InWaitingLoop
  <2>2. /\ Head(waiting) \in Members(waiting)
        /\ Members(Tail(waiting)) = Members(waiting) \ {Head(waiting)}
    BY <2>1, <1>0, <1>q, OnceTail
  <2>3. Head(waiting) \in Requests /\ Head(waiting) \notin Members(running)
    BY <2>2, <1>0, <1>q DEF Members
  <2>4. Members(Append(running, Head(waiting))) = Members(running) \cup {Head(waiting)}
    BY <2>3, <1>0, <1>q, OnceAppend
  <2>5. Queued' = Queued
    BY <2>2, <2>3, <2>4, <1>1 DEF Queued
  <2> QED BY <2>2, <2>3, <2>4, <2>5, <1>1
<1>2. ASSUME TriggerPreempt
      PROVE  LET v == running[Len(running)]
             IN  /\ v \in Members(running) /\ v \in Requests
                 /\ Members(running') = Members(running) \ {v}
                 /\ Members(waiting') = Members(waiting)
                 /\ resched' = resched \cup {v} /\ Queued' = Queued
  <2> DEFINE v == running[Len(running)]
  <2>1. /\ cursor <= Len(running) /\ running' = SubSeq(running, 1, Len(running) - 1)
        /\ resched' = resched \cup {v} /\ waiting' = waiting
    BY <1>2 DEF TriggerPreempt, InRunningLoop
  <2>2. running # << >>
    BY <2>1, <1>0
  <2>3. /\ v \in Members(running)
        /\ Members(SubSeq(running, 1, Len(running) - 1)) = Members(running) \ {v}
    BY <2>2, <1>0, <1>q, OnceFront
  <2>4. v \in Requests
    BY <2>3, <1>0 DEF Members
  <2>5. Queued' = Queued
    BY <2>1, <2>3 DEF Queued
  <2> QED BY <2>1, <2>3, <2>4, <2>5
<1> QED BY <1>1, <1>2

(* Blocks given to a request that is running, or taken from one that no      *)
(* longer is.                                                                *)
LEMMA GivenBlocks ==
    ASSUME TypeOK, NEW r \in Requests, NEW n, Allocate(r, n)
    PROVE  \A q \in Requests : q # r => block_tables'[q] = block_tables[q]
  BY ManagerTypes DEF Allocate

LEMMA BlocksFollow ==
    ASSUME TypeOK, BlocksWhileRunning, NEW r \in Requests,
           \A q \in Requests : q # r => block_tables'[q] = block_tables[q],
           \A q \in Members(running) : q # r => q \in Members(running'),
           r \in Members(running') \/ block_tables'[r] = {}
    PROVE  BlocksWhileRunning'
  BY ManagerTypes DEF BlocksWhileRunning

(* schedule() keeps the positions in order. *)
LEMMA PositionsSchedule ==
    ASSUME TypeOK, QInv, PosInv, ScheduleStep, finishing' = finishing
    PROVE  PosInv'
<1>0. PositionsAgree /\ BlocksWhileRunning /\ NewRequests
  BY DEF PosInv
<1>t. /\ Queued \subseteq Requests /\ Members(running) \subseteq Requests
      /\ Members(finishing) \subseteq Requests
      /\ status \in [Requests -> {"WAITING", "RUNNING", "PREEMPTED", "FINISHED"}]
      /\ idx \in [Requests -> SlotOrNone] /\ tasks_list \in [Slots -> ReqOrNone]
      /\ stopped \subseteq Slots /\ need \in [Requests -> Nat]
      /\ block_tables \in [Requests -> SUBSET Blocks]
  BY ManagerTypes
<1>f. Members(finishing') = Members(finishing)
  BY DEF Members
<1>1. CASE DecodeGoesOn \/ RunningLoopEnds
  <2>1. UNCHANGED <<stopped, tasks_list, idx, requests, block_tables, status, need, output,
                    waiting, running, resched>>
    BY <1>1 DEF DecodeGoesOn, RunningLoopEnds, poolVars, queueVars, slotVars, reqVars
  <2>2. Queued' = Queued /\ Members(running)' = Members(running)
    BY <2>1 DEF Queued, Members
  <2> QED BY <2>1, <2>2, PosUnchanged
<1>2. CASE WaitingLoopEnds
  <2>1. UNCHANGED <<stopped, tasks_list, idx, requests, block_tables, status, output,
                    waiting, running, resched>>
    BY <1>2 DEF WaitingLoopEnds, poolVars, queueVars, slotVars
  <2>2. Queued' = Queued /\ Members(running)' = Members(running)
    BY <2>1 DEF Queued, Members
  <2>3. \A r \in Requests : status[r] = "WAITING" => need'[r] = need[r]
    <3>1. CASE need' = need
      BY <3>1
    <3>2. CASE \E q : need' = [need EXCEPT ![q] = IF status[q] = "PREEMPTED"
                                                 THEN TotalTokens(q) ELSE need[q]]
      BY <3>2, <1>t
    <3> QED BY <1>2, <3>1, <3>2 DEF WaitingLoopEnds
  <2>4. PositionsAgree' /\ BlocksWhileRunning'
    BY <1>0, <2>1, <2>2 DEF PositionsAgree, BlocksWhileRunning
  <2>5. NewRequests'
    BY <1>0, <1>f, <2>1, <2>3 DEF NewRequests
  <2> QED BY <2>4, <2>5 DEF PosInv
<1>3. CASE DecodeGetsBlocks \/ PrefillChunk
  <2>1. /\ UNCHANGED <<stopped, tasks_list, idx, requests, status, need, output,
                       waiting, running, resched>>
        /\ InRunningLoop /\ \E n : Allocate(Current, n)
    BY <1>3 DEF DecodeGetsBlocks, PrefillChunk, queueVars, slotVars
  <2>2. Queued' = Queued /\ Members(running)' = Members(running)
    BY <2>1 DEF Queued, Members
  <2>3. Current \in Requests /\ Current \in Members(running)
    <3>1. RMTypeOK /\ Len(running) \in Nat /\ cursor \in Nat \ {0} /\ cursor <= Len(running)
      BY <2>1, ManagerTypes DEF TypeOK, InRunningLoop
    <3> QED BY <2>1, <3>1, RunningElements DEF Current, Members
  <2>4. \A q \in Requests : q # Current => block_tables'[q] = block_tables[q]
    BY <2>1, <2>3, GivenBlocks
  <2>5. BlocksWhileRunning'
    BY <1>0, <2>1, <2>2, <2>3, <2>4, BlocksFollow
  <2>6. PositionsAgree'
    BY <1>0, <2>1, <2>2 DEF PositionsAgree
  <2>7. NewRequests'
    BY <1>0, <1>f, <2>1 DEF NewRequests
  <2> QED BY <2>5, <2>6, <2>7 DEF PosInv
<1>4. CASE TriggerPreempt
  <2> DEFINE v == running[Len(running)]
  <2>1. /\ UNCHANGED <<stopped, tasks_list, idx, requests, need, output>>
        /\ status' = [status EXCEPT ![v] = "PREEMPTED"] /\ FreeBlocks(v)
    BY <1>4 DEF TriggerPreempt, slotVars
  <2>2. v \in Requests /\ Members(running') = Members(running) \ {v} /\ Queued' = Queued
    BY <1>4, QueueMoves
  <2> HIDE DEF v
  <2>3. \A q \in Requests : block_tables'[q] = IF q = v THEN {} ELSE block_tables[q]
    BY <2>1, <1>t DEF FreeBlocks
  <2>4. BlocksWhileRunning'
    BY <1>0, <2>2, <2>3, BlocksFollow
  <2>5. PositionsAgree'
    BY <1>0, <2>1, <2>2 DEF PositionsAgree
  <2>6. NewRequests'
    <3>1. \A q \in Requests : status'[q] = "WAITING" => status[q] = "WAITING"
      BY <2>1, <2>2, <1>t
    <3>2. \A q \in Requests : status[q] # "WAITING" => status'[q] # "WAITING"
      BY <2>1, <2>2, <1>t
    <3> QED BY <1>0, <1>f, <1>t, <2>1, <3>1, <3>2 DEF NewRequests
  <2> QED BY <2>4, <2>5, <2>6 DEF PosInv
<1>5. CASE AdmitWaiting \/ AdmitRaises \/ ResumePreempted
  <2> DEFINE r == Head(waiting)
  <2>1. /\ InWaitingLoop /\ waiting' = Tail(waiting) /\ running' = Append(running, r)
        /\ resched' = resched /\ requests' = requests /\ output' = output
        /\ status' = [status EXCEPT ![r] = "RUNNING"]
        /\ \E n : Allocate(r, n)
    BY <1>5 DEF AdmitWaiting, AdmitRaises, ResumePreempted, StartRunning
  <2>2. /\ r \in Members(waiting) /\ Members(running') = Members(running) \cup {r}
        /\ Queued' = Queued
    BY <2>1, QueueMoves
  <2>3. r \in Requests /\ r \in Queued
    BY <2>2, <1>t DEF Queued
  <2>a. /\ AdmitWaiting =>
              /\ status[r] = "WAITING" /\ need' = need
              /\ \E pos \in stopped : /\ idx' = [idx EXCEPT ![r] = pos]
                                      /\ tasks_list' = [tasks_list EXCEPT ![pos] = r]
                                      /\ stopped' = stopped \ {pos}
        /\ AdmitRaises => UNCHANGED <<idx, need, tasks_list, stopped>>
        /\ ResumePreempted => /\ need' = [need EXCEPT ![r] = TotalTokens(r)]
                              /\ UNCHANGED <<idx, tasks_list, stopped>>
    BY DEF AdmitWaiting, AdmitRaises, ResumePreempted, slotVars
  <2> HIDE DEF r
  <2>4. \A q \in Requests : q # r => block_tables'[q] = block_tables[q]
    BY <2>1, <2>3, GivenBlocks
  <2>5. BlocksWhileRunning'
    BY <1>0, <2>2, <2>3, <2>4, BlocksFollow
  <2>6. PositionsAgree'
    <3>1. CASE UNCHANGED <<idx, tasks_list, stopped>>
      BY <3>1, <1>0, <2>1, <2>2 DEF PositionsAgree
    <3>2. CASE AdmitWaiting
      <4>1. PICK pos \in stopped : /\ idx' = [idx EXCEPT ![r] = pos]
                                  /\ tasks_list' = [tasks_list EXCEPT ![pos] = r]
                                  /\ stopped' = stopped \ {pos}
        BY <3>2, <2>a
      <4>2. idx[r] = NoSlot
        BY <3>2, <2>a, <2>3, <1>0 DEF NewRequests
      <4>3. /\ pos \in Slots /\ tasks_list[pos] = NoReq /\ r # NoReq /\ pos # NoSlot
            /\ NoSlot \notin Slots
        BY <1>0, <1>t, <2>3, RequestAssumption DEF PositionsAgree
      <4>4. \A s \in Slots : tasks_list'[s] = IF s = pos THEN r ELSE tasks_list[s]
        BY <4>1, <4>3, <1>t
      <4>5. \A q \in Requests : idx'[q] = IF q = r THEN pos ELSE idx[q]
        BY <4>1, <1>t
      <4>6. \A s \in Slots : s \in stopped' <=> tasks_list'[s] = NoReq
        BY <4>1, <4>3, <4>4, <1>0 DEF PositionsAgree
      <4>7. \A s \in Slots : tasks_list'[s] # NoReq =>
                idx'[tasks_list'[s]] = s /\ tasks_list'[s] \in Queued'
        <5> SUFFICES ASSUME NEW s \in Slots, tasks_list'[s] # NoReq
                     PROVE  idx'[tasks_list'[s]] = s /\ tasks_list'[s] \in Queued'
          OBVIOUS
        <5>1. CASE s = pos
          BY <5>1, <4>4, <4>5, <2>2, <2>3
        <5>2. CASE s # pos
          <6>1. /\ tasks_list'[s] = tasks_list[s] /\ idx[tasks_list[s]] = s
                /\ tasks_list[s] \in Queued
            BY <5>2, <4>4, <1>0 DEF PositionsAgree
          <6>2. tasks_list[s] \in Requests /\ tasks_list[s] # r
            BY <6>1, <4>2, <4>3, <1>t
          <6> QED BY <6>1, <6>2, <4>5, <2>2
        <5> QED BY <5>1, <5>2
      <4>8. \A q \in Queued : idx'[q] # NoSlot => tasks_list'[idx'[q]] = q
        <5> SUFFICES ASSUME NEW q \in Queued, idx'[q] # NoSlot
                     PROVE  tasks_list'[idx'[q]] = q
          OBVIOUS
        <5>1. CASE q = r
          BY <5>1, <4>3, <4>4, <4>5, <1>t
        <5>2. CASE q # r
          <6>1. idx'[q] = idx[q] /\ tasks_list[idx[q]] = q /\ idx[q] \in Slots
            BY <5>2, <4>5, <1>0, <1>t DEF PositionsAgree, SlotOrNone
          <6>2. idx[q] # pos
            BY <6>1, <4>3, <1>t, RequestAssumption
          <6> QED BY <6>1, <6>2, <4>4
        <5> QED BY <5>1, <5>2
      <4>9. \A q \in requests' : idx'[q] # NoSlot => q \in Queued'
        <5>1. \A q \in requests : q \in Requests
          BY ManagerTypes
        <5> QED BY <5>1, <4>5, <2>1, <2>2, <2>3, <1>0 DEF PositionsAgree
      <4> QED BY <4>6, <4>7, <4>8, <4>9, <2>2 DEF PositionsAgree
    <3> QED BY <1>5, <2>a, <3>1, <3>2
  <2>7. NewRequests'
    <3>1. \A q \in Requests : status'[q] = "WAITING" => status[q] = "WAITING" /\ q # r
      BY <2>1, <2>3, <1>t
    <3>2. \A q \in Requests : status[q] # "WAITING" => status'[q] # "WAITING"
      BY <2>1, <2>3, <1>t
    <3>3. \A q \in Requests : q # r => idx'[q] = idx[q] /\ need'[q] = need[q]
      BY <2>a, <1>t, <1>5
    <3> QED BY <1>0, <1>f, <1>t, <2>1, <3>1, <3>2, <3>3 DEF NewRequests
  <2> QED BY <2>5, <2>6, <2>7 DEF PosInv
<1> QED BY <1>1, <1>2, <1>3, <1>4, <1>5 DEF ScheduleStep

(* The token processor puts a preempted request back, or counts a token. *)
LEMMA PositionsReschedule ==
    ASSUME TypeOK, QInv, PosInv, NEW r \in Requests, ReschedulePreemptTask(r),
           finishing' = finishing
    PROVE  PosInv'
<1>1. UNCHANGED <<stopped, tasks_list, idx, requests, block_tables, status, need, output, running>>
  BY DEF ReschedulePreemptTask, poolVars, reqVars, slotVars
<1>2. Members(running)' = Members(running)
  BY <1>1
<1>3. Queued' = Queued
  <2>1. CASE r \in resched /\ r \in requests
    <3>1. waiting' = <<r>> \o waiting /\ resched' = resched \ {r}
      BY <2>1 DEF ReschedulePreemptTask
    <3>2. waiting \in Seq(Requests) /\ Once(waiting) /\ r \notin Members(waiting)
      BY <2>1, ManagerTypes DEF QInv, OneQueue, Once
    <3>3. Members(waiting') = Members(waiting) \cup {r}
      BY <3>1, <3>2, OncePrepend
    <3> QED BY <3>1, <3>3, <2>1, <1>2 DEF Queued
  <2>2. CASE ~(r \in resched /\ r \in requests)
    BY <2>2, <1>1 DEF ReschedulePreemptTask, Queued
  <2> QED BY <2>1, <2>2
<1> QED BY <1>1, <1>2, <1>3, PosUnchanged

LEMMA PositionsRead ==
    ASSUME TypeOK, ReadInRange, QInv, PosInv, TokenRead
    PROVE  PosInv'
<1> DEFINE r == tasks_list[tslot]
<1>1. tslot \in Slots
  <2>1. tmsg \in Messages /\ tslot \in Nat /\ tslot < tmsg.bsz
    BY DEF TypeOK, TokenRead, ReadInRange
  <2> QED BY <2>1, PoolAssumption DEF Messages, Slots
<1>2. r \in ReqOrNone
  BY <1>1, ManagerTypes
<1>3. \/ UNCHANGED <<rmVars, finishing>>
      \/ r # NoReq /\ ReschedulePreemptTask(r) /\ finishing' = finishing
      \/ /\ r # NoReq /\ output' = [output EXCEPT ![r] = @ + 1]
         /\ finishing' \in {finishing, Append(finishing, r)}
         /\ UNCHANGED <<poolVars, reqVars, queueVars, slotVars>>
  BY DEF TokenRead, Reschedule
<1> HIDE DEF r
<1>4. CASE UNCHANGED <<rmVars, finishing>>
  <2>1. UNCHANGED <<stopped, tasks_list, idx, requests, block_tables, status, need, output,
                    waiting, running, resched, finishing>>
    BY <1>4 DEF rmVars, poolVars, reqVars, queueVars, slotVars
  <2>2. Queued' = Queued /\ Members(running)' = Members(running)
    BY <2>1 DEF Queued, Members
  <2> QED BY <2>1, <2>2, PosUnchanged
<1>5. CASE r # NoReq /\ ReschedulePreemptTask(r) /\ finishing' = finishing
  BY <1>2, <1>5, PositionsReschedule DEF ReqOrNone
<1>6. CASE /\ r # NoReq /\ output' = [output EXCEPT ![r] = @ + 1]
           /\ finishing' \in {finishing, Append(finishing, r)}
           /\ UNCHANGED <<poolVars, reqVars, queueVars, slotVars>>
  <2>1. UNCHANGED <<stopped, tasks_list, idx, requests, block_tables, status, need,
                    waiting, running, resched>>
    BY <1>6 DEF poolVars, reqVars, queueVars, slotVars
  <2>2. Queued' = Queued /\ Members(running)' = Members(running)
    BY <2>1 DEF Queued, Members
  <2>3. PositionsAgree' /\ BlocksWhileRunning'
    BY <2>1, <2>2 DEF PosInv, PositionsAgree, BlocksWhileRunning
  <2>4. r \in Requests /\ idx[r] = tslot
    BY <1>1, <1>2, <1>6 DEF PosInv, PositionsAgree, ReqOrNone, r
  <2>5. status[r] # "WAITING"
    BY <1>1, <2>4, RequestAssumption DEF PosInv, NewRequests
  <2>6. \A q \in Requests : q # r => output'[q] = output[q]
    BY <1>6, ManagerTypes
  <2>7. \A q \in Members(finishing') : q \in Members(finishing) \/ q = r
    <3>1. finishing \in Seq(Requests)
      BY DEF TypeOK
    <3> QED BY <3>1, <2>4, <1>6 DEF Members
  <2>8. NewRequests'
    BY <2>1, <2>5, <2>6, <2>7 DEF PosInv, NewRequests
  <2> QED BY <2>3, <2>8 DEF PosInv
<1> QED BY <1>3, <1>4, <1>5, <1>6

(* finish_requests frees the position of the request it takes out of its     *)
(* queue.                                                                    *)
LEMMA PositionsFinish ==
    ASSUME TypeOK, QInv, PosInv, NEW r \in Requests, FinishRequests(r),
           Members(finishing') \subseteq Members(finishing)
    PROVE  PosInv'
<1>0. PositionsAgree /\ BlocksWhileRunning /\ NewRequests
  BY DEF PosInv
<1>t. /\ Queued \subseteq Requests /\ Members(running) \subseteq Requests
      /\ Members(finishing) \subseteq Requests
      /\ status \in [Requests -> {"WAITING", "RUNNING", "PREEMPTED", "FINISHED"}]
      /\ idx \in [Requests -> SlotOrNone] /\ tasks_list \in [Slots -> ReqOrNone]
      /\ stopped \subseteq Slots /\ running \in Seq(Requests)
      /\ block_tables \in [Requests -> SUBSET Blocks] /\ requests \subseteq Requests
  BY ManagerTypes
<1>q. /\ Once(waiting) /\ Once(running) /\ Members(waiting) \cap Members(running) = {}
      /\ resched \cap (Members(waiting) \cup Members(running)) = {}
  BY DEF QInv, OneQueue, Once
<1>1. CASE r \notin requests
  <2>1. UNCHANGED <<stopped, tasks_list, idx, requests, block_tables, status, need, output,
                    waiting, running, resched>>
    BY <1>1 DEF FinishRequests, poolVars, reqVars, slotVars
  <2>2. Queued' = Queued /\ Members(running)' = Members(running)
    BY <2>1 DEF Queued, Members
  <2>3. PositionsAgree' /\ BlocksWhileRunning'
    BY <2>1, <2>2, <1>0 DEF PositionsAgree, BlocksWhileRunning
  <2>4. NewRequests'
    BY <2>1, <1>0 DEF NewRequests
  <2> QED BY <2>3, <2>4 DEF PosInv
<1>2. CASE r \in requests
  <2>0. /\ IF r \in Members(running)
              THEN /\ RemoveRunning(r)
                   /\ status' = [status EXCEPT ![r] = "FINISHED"]
                   /\ FreeBlocks(r)
              ELSE UNCHANGED <<running, status, free, block_tables>>
        /\ resched' = resched \ {r} /\ waiting' = waiting
        /\ IF r \in Members(waiting) \/ idx[r] = NoSlot
              THEN UNCHANGED <<requests, tasks_list, stopped>>
              ELSE /\ tasks_list' = [tasks_list EXCEPT ![idx[r]] = NoReq]
                   /\ stopped' = stopped \cup {idx[r]}
                   /\ requests' = requests \ {r}
        /\ UNCHANGED <<idx, need, output>>
    BY <1>2 DEF FinishRequests, poolVars, slotVars
  <2>1. Members(running') = Members(running) \ {r}
    <3>1. CASE r \in Members(running)
      <4>1. PICK i \in 1 .. Len(running) :
                /\ running[i] = r
                /\ running' = SubSeq(running, 1, i - 1) \o SubSeq(running, i + 1, Len(running))
        BY <3>1, <2>0 DEF RemoveRunning
      <4> QED BY <4>1, <1>t, <1>q, OnceRemove
    <3>2. CASE r \notin Members(running)
      BY <3>2, <2>0
    <3> QED BY <3>1, <3>2
  <2>2. BlocksWhileRunning'
    <3>1. \A q \in Requests : q # r => block_tables'[q] = block_tables[q]
      BY <2>0, <1>t DEF FreeBlocks
    <3>2. block_tables'[r] = {}
      BY <2>0, <1>t, <1>0 DEF FreeBlocks, BlocksWhileRunning
    <3> QED BY <3>1, <3>2, <2>1, <1>0, BlocksFollow
  <2>3. NewRequests'
    <3>1. \A q \in Requests : status'[q] = "WAITING" => status[q] = "WAITING"
      BY <2>0, <1>t
    <3>2. \A q \in Requests : status[q] # "WAITING" => status'[q] # "WAITING"
      BY <2>0, <1>t
    <3> QED BY <3>1, <3>2, <2>0, <1>0, <1>t DEF NewRequests
  <2>4. Queued \ {r} \subseteq Queued' /\ Queued' \subseteq Queued
    BY <2>0, <2>1 DEF Queued
  <2>5. CASE r \in Members(waiting) \/ idx[r] = NoSlot
    <3>1. Queued' = Queued \/ idx[r] = NoSlot
      BY <2>5, <2>4, <2>0 DEF Queued
    <3>2. \A s \in Slots : tasks_list[s] # NoReq => tasks_list[s] \in Queued'
      BY <3>1, <2>4, <1>0, <1>t, RequestAssumption DEF PositionsAgree
    <3>3. PositionsAgree'
      BY <3>1, <3>2, <2>0, <2>4, <2>5, <1>0, RequestAssumption DEF PositionsAgree
    <3> QED BY <2>2, <2>3, <3>3 DEF PosInv
  <2>6. CASE ~(r \in Members(waiting) \/ idx[r] = NoSlot)
    <3>1. r \in Queued /\ tasks_list[idx[r]] = r /\ idx[r] \in Slots
      BY <1>2, <2>6, <1>0, <1>t DEF PositionsAgree, SlotOrNone
    <3>2. r \notin Queued'
      BY <2>0, <2>1, <2>6 DEF Queued
    <3>3. \A s \in Slots : tasks_list'[s] = IF s = idx[r] THEN NoReq ELSE tasks_list[s]
      BY <2>0, <2>6, <1>t
    <3>4. \A s \in Slots : s \in stopped' <=> tasks_list'[s] = NoReq
      BY <3>1, <3>3, <2>0, <2>6, <1>0 DEF PositionsAgree
    <3>5. \A s \in Slots : tasks_list'[s] # NoReq =>
              idx'[tasks_list'[s]] = s /\ tasks_list'[s] \in Queued'
      BY <3>1, <3>3, <2>0, <2>4, <1>0 DEF PositionsAgree
    <3>6. \A q \in Queued' : idx'[q] # NoSlot => tasks_list'[idx'[q]] = q
      <4> SUFFICES ASSUME NEW q \in Queued', idx'[q] # NoSlot PROVE tasks_list'[idx'[q]] = q
        OBVIOUS
      <4>1. q \in Queued /\ q # r /\ tasks_list[idx[q]] = q
        BY <3>2, <2>0, <2>4, <1>0 DEF PositionsAgree
      <4>2. idx[q] \in Slots /\ idx[q] # idx[r]
        BY <4>1, <3>1, <2>0, <1>t DEF SlotOrNone
      <4> QED BY <4>1, <4>2, <3>3, <2>0
    <3>7. \A q \in requests' : idx'[q] # NoSlot => q \in Queued'
      BY <2>0, <2>4, <2>6, <1>0 DEF PositionsAgree
    <3>8. PositionsAgree'
      BY <3>4, <3>5, <3>6, <3>7 DEF PositionsAgree
    <3> QED BY <2>2, <2>3, <3>8 DEF PosInv
  <2> QED BY <2>5, <2>6
<1> QED BY <1>1, <1>2

(* Every step keeps the positions in order. *)
LEMMA PositionsPreserved ==
    ASSUME TypeOK, ReadInRange, QInv, PosInv, [Next]_vars
    PROVE  PosInv'
<1>1. CASE \/ LoopTop \/ LoopFetch \/ LoopSchedule \/ LoopSend \/ FetchTake \/ FetchEnd
           \/ WorkerPass \/ TokenTake \/ TokenScan \/ UNCHANGED vars
  <2>1. UNCHANGED <<stopped, tasks_list, idx, requests, block_tables, status, need, output,
                    waiting, running, resched, finishing>>
    BY <1>1 DEF LoopTop, LoopFetch, LoopSchedule, ScheduleBegin, LoopSend, FetchTake, FetchEnd,
                WorkerPass, TokenTake, TokenScan, vars, rmVars, poolVars, reqVars, queueVars,
                slotVars
  <2>2. Queued' = Queued /\ Members(running)' = Members(running)
    BY <2>1 DEF Queued, Members
  <2> QED BY <2>1, <2>2, PosUnchanged
<1>2. CASE LoopScheduleStep
  BY <1>2, PositionsSchedule DEF LoopScheduleStep
<1>3. CASE FetchAdd
  <2> DEFINE r == Head(fetched)
  <2>1. /\ waiting' = Append(waiting, r) /\ requests' = requests \cup {r}
        /\ UNCHANGED <<stopped, tasks_list, idx, block_tables, status, need, output,
                       running, resched, finishing>>
        /\ fetched # Nothing /\ fetched # << >>
    BY <1>3 DEF FetchAdd, AddRequest, poolVars, reqVars, slotVars
  <2>2. r \in Requests /\ r \in Members(InHand)
    <3>1. fetched \in Seq(Requests)
      BY <2>1 DEF TypeOK
    <3>2. r = fetched[1] /\ 1 \in 1 .. Len(fetched)
      BY <3>1, <2>1
    <3> QED BY <3>1, <3>2, <2>1 DEF InHand, Members
  <2>3. status[r] = "WAITING" /\ idx[r] = NoSlot /\ r \notin Members(waiting) /\ Once(waiting)
    BY <2>2 DEF QInv, NotYetQueued, PosInv, NewRequests, Queued, OneQueue, Once
  <2>4. Members(waiting') = Members(waiting) \cup {r}
    BY <2>1, <2>2, <2>3, ManagerTypes, OnceAppend
  <2>5. Queued' = Queued \cup {r} /\ Members(running') = Members(running)
    BY <2>1, <2>4 DEF Queued
  <2>6. PositionsAgree'
    BY <2>1, <2>3, <2>5 DEF PosInv, PositionsAgree
  <2>7. BlocksWhileRunning'
    BY <2>1, <2>5 DEF PosInv, BlocksWhileRunning
  <2>8. NewRequests'
    BY <2>1 DEF PosInv, NewRequests
  <2> QED BY <2>6, <2>7, <2>8 DEF PosInv
<1>4. ASSUME NEW r \in Requests, TokenLookAt(r) PROVE PosInv'
  <2>1. UNCHANGED rmVars \/ ReschedulePreemptTask(r)
    BY <1>4 DEF TokenLookAt, Reschedule
  <2>2. finishing' = finishing
    BY <1>4 DEF TokenLookAt
  <2>3. CASE UNCHANGED rmVars
    <3>1. UNCHANGED <<stopped, tasks_list, idx, requests, block_tables, status, need, output,
                      waiting, running, resched>>
      BY <2>3 DEF rmVars, poolVars, reqVars, queueVars, slotVars
    <3>2. Queued' = Queued /\ Members(running)' = Members(running)
      BY <3>1 DEF Queued, Members
    <3> QED BY <2>2, <3>1, <3>2, PosUnchanged
  <2> QED BY <2>1, <2>2, <2>3, PositionsReschedule
<1>5. CASE TokenRead
  BY <1>5, PositionsRead
<1>6. CASE Finish
  <2>1. /\ finishing \in Seq(Requests) /\ finishing # << >> /\ finishing' = Tail(finishing)
        /\ FinishRequests(Head(finishing))
    BY <1>6 DEF Finish, TypeOK
  <2>2. Head(finishing) \in Requests /\ Members(finishing') \subseteq Members(finishing)
    BY <2>1 DEF Members
  <2> QED BY <2>1, <2>2, PositionsFinish
<1> QED BY <1>1, <1>2, <1>3, <1>4, <1>5, <1>6 DEF Next

-----------------------------------------------------------------------------
(* The batch between schedule() and the worker: the tasks scheduled and not  *)
(* yet sent, or the ones in the task queue.  It is never both, because the   *)
(* engine loop calls schedule() only when the queue is empty.                *)
Batch == scheduled \cup NextTasks

SchedulePhase ==
    /\ scheduled # {} => spc # "idle"
    /\ spc # "idle" => epc = "go"
    /\ epc # "top" => queue = Nothing
    /\ spc = "wait" => ~preempted
    /\ spc = "run" => \A t \in scheduled :
          IF t.type = "PREEMPTED" THEN preempted /\ t.req \in resched
          ELSE \E j \in 1 .. Len(running) : j < cursor /\ running[j] = t.req
    /\ spc = "wait" => \A t \in scheduled :
          t.type # "PREEMPTED" /\ t.req \in Members(running)

(* Each request and each position has one task at most; the position of a    *)
(* task is still the request's, or free again; a task to preempt is about a  *)
(* request that does not run; the batch covers every taken position.         *)
BatchSlots ==
    /\ \A t \in scheduled : t.type # "PREFILL" => t.slot = idx[t.req]
    /\ \A t \in NextTasks : t.slot = idx[t.req]
    /\ \A t \in Batch : idx[t.req] # NoSlot => tasks_list[idx[t.req]] \in {t.req, NoReq}
    /\ \A t, u \in Batch :
          t.req = u.req \/ (idx[t.req] = idx[u.req] /\ idx[t.req] # NoSlot) => t = u
    /\ \A t \in Batch : t.type = "PREEMPTED" => t.req \notin Members(running)
    /\ queue # Nothing => \A s \in Slots \ stopped : s < queue.bsz
BatchInv == SchedulePhase /\ BatchSlots

LEMMA BatchTypes ==
    ASSUME TypeOK
    PROVE  /\ \A t \in Batch : t.req \in Requests /\ t.type \in {"PREFILL", "DECODE", "PREEMPTED"}
           /\ NextTasks \subseteq SentTasks /\ scheduled \subseteq ScheduledTasks
<1>1. NextTasks \subseteq SentTasks
  BY DEF TypeOK, Batches, NextTasks
<1>2. scheduled \subseteq ScheduledTasks
  BY ManagerTypes
<1>3. \A t \in SentTasks : t.req \in Requests /\ t.type \in {"PREFILL", "DECODE", "PREEMPTED"}
  BY DEF SentTasks, DecodeTasks, PreemptTasks
<1>4. \A t \in ScheduledTasks : t.req \in Requests /\ t.type \in {"PREFILL", "DECODE", "PREEMPTED"}
  BY DEF ScheduledTasks, DecodeTasks, PreemptTasks
<1> QED BY <1>1, <1>2, <1>3, <1>4 DEF Batch

(* While schedule() runs, the batch is what it has scheduled.                *)
LEMMA WhileScheduling ==
    ASSUME TypeOK, BatchInv, spc # "idle"
    PROVE  /\ queue = Nothing /\ NextTasks = {} /\ Batch = scheduled /\ epc = "go"
           /\ spc \in {"run", "wait"} => \A t \in scheduled : t.req \in Queued
<1>1. epc = "go" /\ queue = Nothing
  BY DEF BatchInv, SchedulePhase
<1>2. NextTasks = {} /\ Batch = scheduled
  BY <1>1 DEF NextTasks, Batch
<1>3. ASSUME spc \in {"run", "wait"}, NEW t \in scheduled PROVE t.req \in Queued
  <2>1. CASE spc = "run"
    <3>1. t.req \in resched \/ \E j \in 1 .. Len(running) : running[j] = t.req
      BY <2>1 DEF BatchInv, SchedulePhase
    <3> QED BY <3>1 DEF Queued, Members
  <2>2. CASE spc = "wait"
    BY <2>2 DEF BatchInv, SchedulePhase, Queued
  <2> QED BY <1>3, <2>1, <2>2
<1> QED BY <1>1, <1>2, <1>3

(* schedule() adds a task for a request that has none. *)
LEMMA BatchGrows ==
    ASSUME PosInv', queue' = Nothing, NEW new, NEW r, new.req = r,
           scheduled' \subseteq scheduled \cup {new},
           r \in Queued', new.type # "PREFILL" => new.slot = idx'[r],
           \A t \in scheduled : t.req \in Queued' /\ t.req # r /\ idx'[t.req] = idx[t.req],
           \A t \in scheduled : t.type # "PREFILL" => t.slot = idx[t.req],
           \A t, u \in scheduled : t.req = u.req => t = u,
           \A t \in scheduled' : t.type = "PREEMPTED" => t.req \notin Members(running')
    PROVE  BatchSlots'
<1>1. NextTasks' = {} /\ Batch' = scheduled'
  BY DEF NextTasks, Batch
<1>2. \A t \in Batch' : t.req \in Queued'
  BY <1>1
<1>3. \A t \in Batch' : idx'[t.req] # NoSlot => tasks_list'[idx'[t.req]] = t.req
  BY <1>2 DEF PosInv, PositionsAgree
<1>4. \A t, u \in Batch' : t.req = u.req => t = u
  BY <1>1
<1>5. \A t, u \in Batch' : t.req = u.req
              \/ (idx'[t.req] = idx'[u.req] /\ idx'[t.req] # NoSlot) => t = u
  BY <1>3, <1>4
<1>6. \A t \in scheduled' : t.type # "PREFILL" => t.slot = idx'[t.req]
  OBVIOUS
<1> QED BY <1>1, <1>3, <1>5, <1>6 DEF BatchSlots

(* A step that leaves the batch alone and only lets requests stop running,   *)
(* leave a queue or give a position back.                                    *)
LEMMA BatchStays ==
    ASSUME BatchSlots, UNCHANGED <<scheduled, queue, idx>>, Members(running') \subseteq Members(running),
           \A s \in Slots : tasks_list'[s] \in {tasks_list[s], NoReq},
           stopped \subseteq stopped', idx \in [Requests -> SlotOrNone],
           \A t \in Batch : t.req \in Requests
    PROVE  BatchSlots'
<1>1. NextTasks' = NextTasks /\ Batch' = Batch
  BY DEF NextTasks, Batch
<1>2. \A t \in Batch : idx[t.req] # NoSlot => tasks_list'[idx[t.req]] \in {t.req, NoReq}
  BY DEF BatchSlots, SlotOrNone
<1> QED BY <1>1, <1>2 DEF BatchSlots

LEMMA InitBatch == Init => BatchInv
<1> SUFFICES ASSUME Init PROVE BatchInv
  OBVIOUS
<1>1. scheduled = {} /\ queue = Nothing /\ spc = "idle" /\ epc = "top"
  BY DEF Init, RMInit
<1>2. NextTasks = {} /\ Batch = {}
  BY <1>1 DEF NextTasks, Batch
<1> QED BY <1>1, <1>2 DEF BatchInv, SchedulePhase, BatchSlots

(* schedule() keeps the batch in order. *)
LEMMA BatchSchedule ==
    ASSUME TypeOK, QInv, PosInv, PosInv', BatchInv, ScheduleStep, UNCHANGED loopVars
    PROVE  BatchInv'
<1>0. spc \in {"run", "wait"} /\ spc # "idle"
  BY DEF ScheduleStep, DecodeGoesOn, DecodeGetsBlocks, PrefillChunk, TriggerPreempt,
         RunningLoopEnds, AdmitWaiting, AdmitRaises, ResumePreempted, WaitingLoopEnds,
         InRunningLoop, InWaitingLoop
<1>1. /\ queue = Nothing /\ NextTasks = {} /\ Batch = scheduled /\ epc = "go"
      /\ \A t \in scheduled : t.req \in Queued
  BY <1>0, WhileScheduling
<1>2. queue' = Nothing /\ epc' = "go"
  BY <1>1 DEF loopVars
<1>3. SchedulePhase /\ BatchSlots
  BY DEF BatchInv
<1>t. /\ running \in Seq(Requests) /\ Len(running) \in Nat /\ cursor \in Nat \ {0}
      /\ idx \in [Requests -> SlotOrNone] /\ Queued \subseteq Requests
  BY ManagerTypes
<1>q. /\ Once(running) /\ Members(waiting) \cap Members(running) = {}
      /\ resched \cap (Members(waiting) \cup Members(running)) = {}
  BY DEF QInv, OneQueue, Once
<1>4. /\ \A t \in scheduled : t.type # "PREFILL" => t.slot = idx[t.req]
      /\ \A t, u \in scheduled : t.req = u.req => t = u
      /\ \A t \in scheduled : t.type = "PREEMPTED" => t.req \notin Members(running)
  BY <1>1, <1>3 DEF BatchSlots
<1>5. CASE DecodeGoesOn \/ RunningLoopEnds \/ WaitingLoopEnds
  <2>1. /\ UNCHANGED <<scheduled, running, idx, tasks_list, stopped, resched, preempted>>
        /\ queue' = queue
    BY <1>1, <1>2, <1>5 DEF DecodeGoesOn, RunningLoopEnds, WaitingLoopEnds, queueVars, slotVars, reqVars
  <2>2. BatchSlots'
    <3>1. NextTasks' = NextTasks /\ Batch' = Batch
      BY <2>1 DEF NextTasks, Batch
    <3>2. Members(running') = Members(running)
      BY <2>1
    <3> QED BY <1>3, <2>1, <3>1, <3>2 DEF BatchSlots
  <2>3. CASE DecodeGoesOn
    <3>1. spc = "run" /\ spc' = "run" /\ cursor' = cursor + 1
      BY <2>3 DEF DecodeGoesOn, InRunningLoop
    <3>2. \A j : j < cursor => j < cursor' \/ j \notin Nat
      BY <3>1, <1>t
    <3>3. SchedulePhase'
      BY <1>2, <1>3, <1>t, <2>1, <3>1, <3>2 DEF SchedulePhase
    <3> QED BY <2>2, <3>3 DEF BatchInv
  <2>4. CASE RunningLoopEnds
    <3>1. spc = "run" /\ spc' = IF preempted THEN "send" ELSE "wait"
      BY <2>4 DEF RunningLoopEnds
    <3>2. ~preempted => \A t \in scheduled : t.type # "PREEMPTED" /\ t.req \in Members(running)
      BY <1>3, <3>1 DEF SchedulePhase, Members
    <3>3. SchedulePhase'
      BY <1>2, <1>3, <2>1, <3>1, <3>2 DEF SchedulePhase, Members
    <3> QED BY <2>2, <3>3 DEF BatchInv
  <2>5. CASE WaitingLoopEnds
    <3>1. spc' = "send"
      BY <2>5 DEF WaitingLoopEnds
    <3>2. SchedulePhase'
      BY <1>2, <3>1 DEF SchedulePhase
    <3> QED BY <2>2, <3>2 DEF BatchInv
  <2> QED BY <1>5, <2>3, <2>4, <2>5
<1>6. CASE DecodeGetsBlocks \/ PrefillChunk
  <2>1. PICK new : /\ scheduled' = scheduled \cup {new} /\ new.req = Current
                   /\ new.type # "PREEMPTED"
                   /\ new.type # "PREFILL" => new.slot = idx[Current]
    <3>1. CASE DecodeGetsBlocks
      <4>1. scheduled' = scheduled \cup {DecodeTask(Current, block_tables'[Current])}
        BY <3>1 DEF DecodeGetsBlocks
      <4>2. \A b : /\ DecodeTask(Current, b).req = Current /\ DecodeTask(Current, b).type = "DECODE"
                   /\ DecodeTask(Current, b).slot = idx[Current]
        BY DEF DecodeTask
      <4> QED BY <4>1, <4>2
    <3>2. CASE PrefillChunk
      <4>1. \E a, b : scheduled' = scheduled \cup {PrefillTask(Current, a, b)}
        BY <3>2 DEF PrefillChunk
      <4>2. \A a, b : PrefillTask(Current, a, b).req = Current
                      /\ PrefillTask(Current, a, b).type = "PREFILL"
        BY DEF PrefillTask
      <4> QED BY <4>1, <4>2
    <3> QED BY <1>6, <3>1, <3>2
  <2>2. /\ UNCHANGED <<waiting, running, idx, tasks_list, stopped, resched, preempted>>
        /\ spc = "run" /\ spc' = "run" /\ cursor' = cursor + 1 /\ cursor <= Len(running)
    BY <1>6 DEF DecodeGetsBlocks, PrefillChunk, queueVars, slotVars, InRunningLoop
  <2>3. cursor \in 1 .. Len(running) /\ running[cursor] = Current /\ Current \in Members(running)
    BY <2>2, <1>t DEF Current, Members
  <2>4. \A t \in scheduled : t.req # Current
    <3> SUFFICES ASSUME NEW t \in scheduled, t.req = Current PROVE FALSE
      OBVIOUS
    <3>1. CASE t.type = "PREEMPTED"
      BY <3>1, <1>4, <2>3
    <3>2. CASE t.type # "PREEMPTED"
      <4>1. PICK j \in 1 .. Len(running) : j < cursor /\ running[j] = t.req
        BY <3>2, <1>3, <2>2 DEF SchedulePhase
      <4>2. j # cursor
        BY <4>1, <1>t
      <4> QED BY <4>1, <4>2, <2>3, <1>q DEF Once
    <3> QED BY <3>1, <3>2
  <2>5. Queued' = Queued /\ Members(running') = Members(running) /\ Current \in Queued'
    BY <2>2, <2>3 DEF Queued
  <2>6. \A t \in scheduled' : t.type = "PREEMPTED" => t.req \notin Members(running')
    BY <2>1, <2>5, <1>4
  <2>7. BatchSlots'
    BY <1>1, <1>2, <1>4, <2>1, <2>2, <2>4, <2>5, <2>6, BatchGrows
  <2>8. \A t \in scheduled' :
            IF t.type = "PREEMPTED" THEN preempted' /\ t.req \in resched'
            ELSE \E j \in 1 .. Len(running') : j < cursor' /\ running'[j] = t.req
    <3>1. \A t \in scheduled :
            IF t.type = "PREEMPTED" THEN preempted /\ t.req \in resched
            ELSE \E j \in 1 .. Len(running) : j < cursor /\ running[j] = t.req
      BY <1>3, <2>2 DEF SchedulePhase
    <3>2. \A j \in 1 .. Len(running) : j < cursor => j < cursor'
      BY <2>2, <1>t
    <3>3. cursor < cursor'
      BY <2>2, <1>t
    <3>4. ASSUME NEW t \in scheduled
          PROVE  IF t.type = "PREEMPTED" THEN preempted' /\ t.req \in resched'
                 ELSE \E j \in 1 .. Len(running') : j < cursor' /\ running'[j] = t.req
      BY <3>1, <3>2, <2>2
    <3>5. \E j \in 1 .. Len(running') : j < cursor' /\ running'[j] = new.req
      BY <2>1, <2>2, <2>3, <3>3
    <3> QED BY <3>4, <3>5, <2>1
  <2>9. SchedulePhase'
    BY <1>2, <2>2, <2>8 DEF SchedulePhase
  <2> QED BY <2>7, <2>9 DEF BatchInv
<1>7. CASE TriggerPreempt
  <2> DEFINE v == running[Len(running)]
  <2>1. /\ UNCHANGED <<waiting, idx, tasks_list, stopped, cursor>>
        /\ scheduled' = scheduled \cup {PreemptTask(v)} /\ preempted' = TRUE
        /\ spc = "run" /\ spc' \in {"run", "send"} /\ cursor <= Len(running)
        /\ running' = SubSeq(running, 1, Len(running) - 1)
    BY <1>7 DEF TriggerPreempt, slotVars, InRunningLoop
  <2>2. /\ v \in Members(running) /\ v \in Requests /\ Members(running') = Members(running) \ {v}
        /\ resched' = resched \cup {v} /\ Queued' = Queued
    BY <1>7, QueueMoves
  <2>3. PreemptTask(v).req = v /\ PreemptTask(v).type = "PREEMPTED" /\ PreemptTask(v).slot = idx[v]
    BY DEF PreemptTask
  <2>a. Len(running) - 1 \in 0 .. Len(running) /\ Len(running) \in 1 .. Len(running)
    BY <2>1, <1>t
  <2>b. /\ Len(running') = Len(running) - 1
        /\ \A j \in 1 .. Len(running) - 1 : running'[j] = running[j]
    <3>1. \A k \in 0 .. Len(running) : /\ Len(SubSeq(running, 1, k)) = k
                                       /\ \A i \in 1 .. k : SubSeq(running, 1, k)[i] = running[i]
      BY <1>t
    <3> QED BY <2>1, <2>a, <3>1
  <2>4. \A t \in scheduled : t.req # v
    <3> SUFFICES ASSUME NEW t \in scheduled, t.req = v PROVE FALSE
      OBVIOUS
    <3>1. CASE t.type = "PREEMPTED"
      BY <3>1, <1>4, <2>2
    <3>2. CASE t.type # "PREEMPTED"
      <4>1. PICK j \in 1 .. Len(running) : j < cursor /\ running[j] = t.req
        BY <3>2, <1>3, <2>1 DEF SchedulePhase
      <4>2. j # Len(running)
        BY <4>1, <2>1, <1>t
      <4> QED BY <4>1, <4>2, <2>a, <1>q DEF Once
    <3> QED BY <3>1, <3>2
  <2>5. \A t \in scheduled :
            IF t.type = "PREEMPTED" THEN t.req \in resched
            ELSE \E j \in 1 .. Len(running) : j < cursor /\ running[j] = t.req
    BY <1>3, <2>1 DEF SchedulePhase
  <2>6. ASSUME NEW t \in scheduled'
        PROVE  IF t.type = "PREEMPTED" THEN preempted' /\ t.req \in resched'
               ELSE \E j \in 1 .. Len(running') : j < cursor' /\ running'[j] = t.req
    <3>1. CASE t \in scheduled /\ t.type # "PREEMPTED"
      <4>1. PICK j \in 1 .. Len(running) : j < cursor /\ running[j] = t.req
        BY <3>1, <2>5
      <4>2. j \in 1 .. Len(running')
        BY <4>1, <2>1, <2>b, <1>t
      <4> QED BY <3>1, <4>1, <4>2, <2>1, <2>b
    <3>2. CASE t \in scheduled /\ t.type = "PREEMPTED"
      BY <3>2, <2>1, <2>2, <2>5
    <3>3. CASE t = PreemptTask(v)
      BY <3>3, <2>1, <2>2, <2>3
    <3> QED BY <2>1, <3>1, <3>2, <3>3
  <2>7. \A t \in scheduled' : t.type = "PREEMPTED" => t.req \notin Members(running')
    BY <2>1, <2>2, <2>3, <1>4
  <2>8. v \in Queued'
    BY <2>2 DEF Queued
  <2>9. BatchSlots'
    <3> HIDE DEF v
    <3> QED BY <1>1, <1>2, <1>4, <2>1, <2>2, <2>3, <2>4, <2>7, <2>8, BatchGrows
  <2>10. SchedulePhase'
    BY <1>2, <2>1, <2>6 DEF SchedulePhase
  <2> QED BY <2>9, <2>10 DEF BatchInv
<1>8. CASE AdmitWaiting \/ ResumePreempted \/ AdmitRaises
  <2> DEFINE r == Head(waiting)
  <2>1. /\ InWaitingLoop /\ waiting' = Tail(waiting) /\ running' = Append(running, r)
        /\ resched' = resched /\ preempted' = preempted
        /\ scheduled' = {} \/ \E a, b : scheduled' = scheduled \cup {PrefillTask(r, a, b)}
        /\ spc = "wait" /\ spc' \in {"wait", "send"}
        /\ \A q \in Requests : q # r => idx'[q] = idx[q]
    BY <1>8, <1>t
       DEF AdmitWaiting, AdmitRaises, ResumePreempted, StartRunning, InWaitingLoop
  <2>2. /\ r \in Members(waiting) /\ r \notin Members(running)
        /\ Members(running') = Members(running) \cup {r} /\ Queued' = Queued
    BY <2>1, QueueMoves
  <2>3. \A t \in scheduled : t.type # "PREEMPTED" /\ t.req \in Members(running) /\ t.req # r
                             /\ t.req \in Requests
    BY <1>1, <1>3, <1>t, <2>1, <2>2 DEF SchedulePhase
  <2>4. r \in Queued' /\ ~preempted
    BY <1>3, <2>1, <2>2 DEF SchedulePhase, Queued
  <2>5. PICK new : scheduled' \subseteq scheduled \cup {new} /\ new.type = "PREFILL" /\ new.req = r
    <3>1. \A a, b : PrefillTask(r, a, b).type = "PREFILL" /\ PrefillTask(r, a, b).req = r
      BY DEF PrefillTask
    <3> QED BY <2>1, <3>1
  <2> HIDE DEF r
  <2>6. \A t \in scheduled' : t.type # "PREEMPTED" /\ t.req \in Members(running')
    BY <2>2, <2>3, <2>5
  <2>7. BatchSlots'
    <3>1. /\ \A t \in scheduled : t.req \in Queued' /\ t.req # r /\ idx'[t.req] = idx[t.req]
          /\ \A t \in scheduled' : t.type = "PREEMPTED" => t.req \notin Members(running')
          /\ new.type # "PREFILL" => new.slot = idx'[r]
      BY <1>1, <2>1, <2>2, <2>3, <2>5, <2>6
    <3> QED BY <1>2, <1>4, <2>4, <2>5, <3>1, BatchGrows
  <2>8. SchedulePhase'
    BY <1>2, <2>1, <2>4, <2>6 DEF SchedulePhase
  <2> QED BY <2>7, <2>8 DEF BatchInv
<1> QED BY <1>5, <1>6, <1>7, <1>8 DEF ScheduleStep

(* put_tasks: the batch in the queue is the one scheduled, task by task. *)
LEMMA SendBatch ==
    ASSUME TypeOK, BatchInv, LoopSend
    PROVE  /\ scheduled' = {} /\ Batch = scheduled
           /\ NextTasks' = {Serialised(t) : t \in scheduled} /\ Batch' = NextTasks'
           /\ \A t \in scheduled :
                 /\ Serialised(t).req = t.req /\ Serialised(t).type = t.type
                 /\ Serialised(t).slot = idx[t.req]
                 /\ t.type # "PREFILL" => Serialised(t) = t
                 /\ t.type = "PREFILL" =>
                       /\ Serialised(t).blk = block_tables[t.req] /\ Serialised(t).end = t.end
                       /\ Serialised(t).start = t.start
                       /\ Serialised(t).total = TotalTokens(t.req)
           /\ queue' # Nothing => \A s \in Slots \ stopped : s < queue'.bsz
           /\ scheduled # {} => queue' # Nothing
<1>1. spc = "send" /\ scheduled' = {}
  BY DEF LoopSend
<1>2. queue = Nothing /\ Batch = scheduled
  BY <1>1, WhileScheduling
<1>3. scheduled \subseteq ScheduledTasks /\ RMTypeOK
  BY BatchTypes DEF TypeOK
<1>4. ASSUME NEW t \in scheduled
      PROVE  /\ Serialised(t).req = t.req /\ Serialised(t).type = t.type
             /\ Serialised(t).slot = idx[t.req]
             /\ t.type # "PREFILL" => Serialised(t) = t
             /\ t.type = "PREFILL" =>
                   /\ Serialised(t).blk = block_tables[t.req] /\ Serialised(t).end = t.end
                   /\ Serialised(t).start = t.start
                   /\ Serialised(t).total = TotalTokens(t.req)
  <2>1. CASE t.type = "PREFILL"
    BY <2>1 DEF Serialised
  <2>2. CASE t.type # "PREFILL"
    <3>1. Serialised(t) = t
      BY <2>2 DEF Serialised
    <3>2. t.slot = idx[t.req]
      BY <2>2 DEF BatchInv, BatchSlots
    <3> QED BY <2>2, <3>1, <3>2
  <2> QED BY <2>1, <2>2
<1>5. CASE scheduled = {}
  <2>1. queue' = Nothing
    BY <1>2, <1>5 DEF LoopSend
  <2>2. NextTasks' = {} /\ Batch' = {}
    BY <1>1, <2>1 DEF NextTasks, Batch
  <2> QED BY <1>1, <1>2, <1>5, <2>1, <2>2
<1>6. CASE scheduled # {}
  <2>1. PICK b \in 0 .. MaxSeqs :
            /\ IsRealBsz(b) /\ queue' = [tasks |-> {Serialised(t) : t \in scheduled}, bsz |-> b]
    BY <1>6 DEF LoopSend
  <2>2. {Serialised(t) : t \in scheduled} \in SUBSET SentTasks
    BY <1>3, SerialisedType
  <2>3. queue' # Nothing
    BY <2>1, <2>2, NothingAssumption DEF Batches
  <2>4. NextTasks' = {Serialised(t) : t \in scheduled}
    BY <2>1, <2>3 DEF NextTasks
  <2>5. \A s \in Slots \ stopped : s < queue'.bsz
    BY <2>1 DEF IsRealBsz
  <2> QED BY <1>1, <1>2, <1>4, <1>6, <2>3, <2>4, <2>5 DEF Batch
<1> QED BY <1>5, <1>6

(* finish_requests, as far as the batch and the worker can tell. *)
LEMMA FinishEffect ==
    ASSUME TypeOK, QInv, PosInv, NEW r \in Requests, FinishRequests(r)
    PROVE  /\ waiting' = waiting /\ UNCHANGED <<idx, computed, need, schedVars, output>>
           /\ Members(running') \subseteq Members(running)
           /\ Members(running) \ {r} \subseteq Members(running')
           /\ \A q \in Requests : q # r => block_tables'[q] = block_tables[q]
           /\ \A s \in Slots : tasks_list'[s] = tasks_list[s]
                               \/ (tasks_list'[s] = NoReq /\ tasks_list[s] = r)
           /\ stopped \subseteq stopped'
           /\ LockFree
<1>t. /\ running \in Seq(Requests) /\ idx \in [Requests -> SlotOrNone]
      /\ tasks_list \in [Slots -> ReqOrNone] /\ block_tables \in [Requests -> SUBSET Blocks]
      /\ requests \subseteq Requests
  BY ManagerTypes
<1>q. Once(running)
  BY DEF QInv, OneQueue, Once
<1>1. waiting' = waiting /\ UNCHANGED <<schedVars, output>> /\ LockFree
  BY DEF FinishRequests
<1>2. CASE r \notin requests
  <2>1. UNCHANGED <<running, idx, computed, need, block_tables, tasks_list, stopped>>
    BY <1>2 DEF FinishRequests, poolVars, reqVars, slotVars
  <2>2. Members(running') = Members(running)
    BY <2>1
  <2> QED BY <1>1, <2>1, <2>2
<1>3. CASE r \in requests
  <2>0. /\ IF r \in Members(running)
              THEN RemoveRunning(r) /\ FreeBlocks(r)
              ELSE UNCHANGED <<running, free, block_tables>>
        /\ IF r \in Members(waiting) \/ idx[r] = NoSlot
              THEN UNCHANGED <<requests, tasks_list, stopped>>
              ELSE /\ tasks_list' = [tasks_list EXCEPT ![idx[r]] = NoReq]
                   /\ stopped' = stopped \cup {idx[r]}
        /\ UNCHANGED <<idx, computed, need>>
    BY <1>3 DEF FinishRequests, poolVars, slotVars
  <2>1. Members(running') = Members(running) \ {r}
    <3>1. CASE r \in Members(running)
      <4>1. PICK i \in 1 .. Len(running) :
                /\ running[i] = r
                /\ running' = SubSeq(running, 1, i - 1) \o SubSeq(running, i + 1, Len(running))
        BY <3>1, <2>0 DEF RemoveRunning
      <4> QED BY <4>1, <1>t, <1>q, OnceRemove
    <3>2. CASE r \notin Members(running)
      BY <3>2, <2>0
    <3> QED BY <3>1, <3>2
  <2>2. \A q \in Requests : q # r => block_tables'[q] = block_tables[q]
    BY <2>0, <1>t DEF FreeBlocks
  <2>3. \A s \in Slots : tasks_list'[s] = tasks_list[s]
                         \/ (tasks_list'[s] = NoReq /\ tasks_list[s] = r)
    <3>1. CASE r \in Members(waiting) \/ idx[r] = NoSlot
      BY <3>1, <2>0
    <3>2. CASE ~(r \in Members(waiting) \/ idx[r] = NoSlot)
      <4>1. tasks_list[idx[r]] = r /\ idx[r] \in Slots
        BY <1>3, <3>2, <1>t DEF PosInv, PositionsAgree, SlotOrNone
      <4> QED BY <4>1, <3>2, <2>0, <1>t
    <3> QED BY <3>1, <3>2
  <2> QED BY <1>1, <2>0, <2>1, <2>2, <2>3
<1> QED BY <1>2, <1>3

(* Every step keeps the batch in order. *)
LEMMA BatchPreserved ==
    ASSUME TypeOK, QInv, PosInv, PosInv', BatchInv, [Next]_vars
    PROVE  BatchInv'
<1>t. /\ idx \in [Requests -> SlotOrNone] /\ \A t \in Batch : t.req \in Requests
      /\ tasks_list \in [Slots -> ReqOrNone]
  BY ManagerTypes, BatchTypes
<1>0. SchedulePhase /\ BatchSlots
  BY DEF BatchInv
<1>1. CASE LoopTop \/ LoopFetch \/ LoopSchedule
  <2>1. /\ queue' = queue /\ UNCHANGED <<idx, tasks_list, stopped, running, resched>>
        /\ scheduled' = scheduled \/ (LoopSchedule /\ scheduled' = {} /\ spc = "idle")
    BY <1>1 DEF LoopTop, LoopFetch, LoopSchedule, ScheduleBegin, loopVars, rmVars, poolVars,
                reqVars, queueVars, slotVars, schedVars
  <2>2. scheduled' = scheduled
    BY <2>1, <1>0 DEF SchedulePhase
  <2>3. Members(running') \subseteq Members(running)
    BY <2>1
  <2>4. BatchSlots'
    BY <1>0, <1>t, <2>1, <2>2, <2>3, BatchStays
  <2>5. /\ epc' # "top" => queue' = Nothing
        /\ spc' # "idle" => epc' = "go"
        /\ spc' = "idle" \/ spc' = spc \/ scheduled = {}
        /\ scheduled # {} => UNCHANGED <<spc, cursor, preempted>>
    BY <1>0, <1>1, <2>1
       DEF LoopTop, LoopFetch, LoopSchedule, ScheduleBegin, SchedulePhase, loopVars, rmVars,
           schedVars
  <2>6. spc' = "wait" => spc = "wait" /\ ~preempted'
    BY <1>0, <1>1, <2>1
       DEF LoopTop, LoopFetch, LoopSchedule, ScheduleBegin, SchedulePhase, loopVars, rmVars,
           schedVars
  <2>7. scheduled # {} => spc' # "idle"
    BY <1>0, <2>5 DEF SchedulePhase
  <2>8. SchedulePhase'
    BY <1>0, <2>1, <2>2, <2>5, <2>6, <2>7 DEF SchedulePhase
  <2> QED BY <2>4, <2>8 DEF BatchInv
<1>2. CASE LoopScheduleStep
  BY <1>2, BatchSchedule DEF LoopScheduleStep
<1>3. CASE LoopSend
  <2>1. /\ spc' = "idle" /\ epc' = "top" /\ preempted' = FALSE
        /\ UNCHANGED <<idx, tasks_list, stopped, running>>
    BY <1>3 DEF LoopSend, reqVars, queueVars
  <2>2. /\ scheduled' = {} /\ Batch = scheduled
        /\ NextTasks' = {Serialised(t) : t \in scheduled} /\ Batch' = NextTasks'
        /\ \A t \in scheduled :
              /\ Serialised(t).req = t.req /\ Serialised(t).type = t.type
              /\ Serialised(t).slot = idx[t.req]
        /\ queue' # Nothing => \A s \in Slots \ stopped : s < queue'.bsz
    BY <1>3, SendBatch
  <2>3. SchedulePhase'
    BY <2>1, <2>2 DEF SchedulePhase
  <2>4. Members(running') = Members(running)
    BY <2>1
  <2>5. \A c \in Batch' : \E t \in scheduled : c = Serialised(t) /\ c.req = t.req
                             /\ c.type = t.type /\ c.slot = idx[t.req]
    BY <2>2
  <2>6. \A c \in Batch' : idx[c.req] # NoSlot => tasks_list[idx[c.req]] \in {c.req, NoReq}
    BY <2>2, <2>5, <1>0 DEF BatchSlots
  <2>7. \A c, d \in Batch' :
            c.req = d.req \/ (idx[c.req] = idx[d.req] /\ idx[c.req] # NoSlot) => c = d
    <3> SUFFICES ASSUME NEW c \in Batch', NEW d \in Batch',
                        c.req = d.req \/ (idx[c.req] = idx[d.req] /\ idx[c.req] # NoSlot)
                 PROVE  c = d
      OBVIOUS
    <3>1. PICK t \in scheduled : c = Serialised(t) /\ c.req = t.req
      BY <2>5
    <3>2. PICK u \in scheduled : d = Serialised(u) /\ d.req = u.req
      BY <2>5
    <3>3. t = u
      BY <3>1, <3>2, <2>2, <1>0 DEF BatchSlots
    <3> QED BY <3>1, <3>2, <3>3
  <2>8. \A c \in Batch' : c.type = "PREEMPTED" => c.req \notin Members(running')
    BY <2>2, <2>4, <2>5, <1>0 DEF BatchSlots
  <2>9. BatchSlots'
    BY <2>1, <2>2, <2>5, <2>6, <2>7, <2>8 DEF BatchSlots
  <2> QED BY <2>3, <2>9 DEF BatchInv
<1>4. CASE \/ FetchTake \/ FetchAdd \/ FetchEnd \/ TokenTake \/ TokenScan \/ TokenRead \/ Finish
           \/ (\E r \in Requests : TokenLookAt(r)) \/ UNCHANGED vars
  <2>1. /\ UNCHANGED <<scheduled, queue, epc, spc, cursor, preempted, idx>>
        /\ Members(running') \subseteq Members(running)
        /\ \A s \in Slots : tasks_list'[s] \in {tasks_list[s], NoReq}
        /\ stopped \subseteq stopped'
        /\ UNCHANGED <<running, resched>> \/ LockFree
    <3>1. CASE Finish
      <4>1. /\ FinishRequests(Head(finishing)) /\ queue' = queue /\ epc' = epc
            /\ Head(finishing) \in Requests
        BY <3>1 DEF Finish, loopVars, TypeOK
      <4>2. /\ UNCHANGED <<idx, computed, need, schedVars, output>>
            /\ Members(running') \subseteq Members(running)
            /\ \A s \in Slots : tasks_list'[s] = tasks_list[s]
                                \/ (tasks_list'[s] = NoReq /\ tasks_list[s] = Head(finishing))
            /\ stopped \subseteq stopped' /\ LockFree
        BY <4>1, FinishEffect
      <4> QED BY <4>1, <4>2 DEF schedVars
    <3>2. CASE \/ FetchTake \/ FetchAdd \/ FetchEnd \/ TokenTake \/ TokenScan \/ UNCHANGED vars
      <4>1. UNCHANGED <<scheduled, queue, epc, spc, cursor, preempted, idx, running, resched,
                        tasks_list, stopped>>
        BY <3>2 DEF FetchTake, FetchAdd, FetchEnd, TokenTake, TokenScan, vars, loopVars, rmVars,
                    schedVars, queueVars, reqVars, slotVars, AddRequest
      <4> QED BY <4>1
    <3>3. CASE TokenRead \/ \E r \in Requests : TokenLookAt(r)
      <4>1. /\ queue' = queue /\ epc' = epc
            /\ \/ UNCHANGED <<reqVars, queueVars, slotVars, schedVars>>
               \/ \E r : ReschedulePreemptTask(r)
        BY <3>3 DEF TokenRead, TokenLookAt, Reschedule, loopVars, rmVars
      <4>2. /\ UNCHANGED <<scheduled, spc, cursor, preempted, idx, running, tasks_list, stopped>>
            /\ resched' = resched \/ LockFree
        BY <4>1 DEF ReschedulePreemptTask, schedVars, reqVars, slotVars, queueVars
      <4> QED BY <4>1, <4>2
    <3> QED BY <1>4, <3>1, <3>2, <3>3
  <2>2. BatchSlots'
    BY <1>0, <1>t, <2>1, BatchStays
  <2>3. SchedulePhase'
    <3>1. CASE UNCHANGED <<running, resched>>
      <4>1. Members(running') = Members(running)
        BY <3>1
      <4> QED BY <3>1, <4>1, <1>0, <2>1 DEF SchedulePhase
    <3>2. CASE LockFree
      <4>1. spc \in {"idle", "send"}
        BY <3>2 DEF LockFree
      <4> QED BY <4>1, <1>0, <2>1 DEF SchedulePhase
    <3> QED BY <2>1, <3>1, <3>2
  <2> QED BY <2>2, <2>3 DEF BatchInv
<1>5. CASE WorkerPass
  <2>1. /\ queue' = Nothing
        /\ UNCHANGED <<scheduled, epc, spc, cursor, preempted, idx, running, resched,
                       tasks_list, stopped>>
    BY <1>5 DEF WorkerPass, rmVars, schedVars, reqVars, queueVars, slotVars
  <2>2. NextTasks' = {} /\ Batch' = scheduled /\ Batch' \subseteq Batch
    BY <2>1 DEF NextTasks, Batch
  <2>3. Members(running') = Members(running)
    BY <2>1
  <2>4. SchedulePhase'
    BY <1>0, <2>1, <2>3 DEF SchedulePhase
  <2>5. BatchSlots'
    BY <1>0, <2>1, <2>2, <2>3 DEF BatchSlots
  <2> QED BY <2>4, <2>5 DEF BatchInv
<1> QED BY <1>1, <1>2, <1>3, <1>4, <1>5 DEF Next

-----------------------------------------------------------------------------
(* The worker.  A position is active while it is live or waits for a block;  *)
(* it can yield a token of use unless it is in the middle of its prompt.     *)
Active(w) == w.live \/ w.step
CanYield(w) == w.step \/ (w.live /\ w.pos + w.len >= w.plen)

(* The worker has still to hear that the position is given up; that the      *)
(* request's next chunk is coming; the request has prompt left to compute.   *)
Leaving(s) == \E t \in Batch : t.type = "PREEMPTED" /\ t.slot = s
Filling(r) == \E t \in Batch : t.type = "PREFILL" /\ t.req = r
Prefilling(r) ==
    \/ r \in Members(waiting)
    \/ r \in Members(running) /\ computed[r] < need[r]
    \/ Filling(r)

(* Tokens of r between the worker and the token processor, and the end of r. *)
Carries(m, from, r) ==
    \E s \in Slots : from <= s /\ s < m.bsz /\ m.tok[s] # "none" /\ m.by[s] = r
CarriesEos(m, from, r) ==
    \E s \in Slots : from <= s /\ s < m.bsz /\ m.tok[s] = "eos" /\ m.by[s] = r
InFlight(r) ==
    \/ \E i \in 1 .. Len(msgs) : Carries(msgs[i], 0, r)
    \/ tmsg # Nothing /\ Carries(tmsg, tslot, r)
EosInFlight(r) ==
    \/ \E i \in 1 .. Len(msgs) : CarriesEos(msgs[i], 0, r)
    \/ tmsg # Nothing /\ CarriesEos(tmsg, tslot, r)
Ending(r) == r \in Members(finishing) \/ EosInFlight(r)

(* A token finds its request in tasks_list, an end token is the last of its  *)
(* request, and a request that is to be finished has no token left.          *)
Credited(m, from) ==
    \A s \in Slots : from <= s /\ s < m.bsz /\ m.tok[s] # "none" =>
        m.by[s] \in Requests /\ tasks_list[s] = m.by[s]
TokInv ==
    /\ \A i \in 1 .. Len(msgs) : Credited(msgs[i], 0)
    /\ tmsg # Nothing => Credited(tmsg, tslot)
    /\ \A r \in Requests : \A i, j \in 1 .. Len(msgs) :
          i < j /\ CarriesEos(msgs[i], 0, r) => ~Carries(msgs[j], 0, r)
    /\ \A r \in Requests : \A j \in 1 .. Len(msgs) :
          tmsg # Nothing /\ CarriesEos(tmsg, tslot, r) => ~Carries(msgs[j], 0, r)
    /\ \A r \in Members(finishing) : ~InFlight(r)

(* An active position is the one of its request; it uses blocks of its       *)
(* request, unless it is being given up, and nobody else's.                  *)
Owner ==
    \A s \in Slots : Active(slot[s]) =>
        /\ slot[s].req \in Requests /\ tasks_list[s] = slot[s].req /\ s < wbsz
        /\ ~Leaving(s) => /\ slot[s].req \in Members(running)
                          /\ slot[s].blk \subseteq block_tables[slot[s].req]
Disjoint ==
    \A s, u \in Slots : s # u /\ Active(slot[s]) /\ Active(slot[u]) =>
        slot[s].blk \cap slot[u].blk = {}
Shape ==
    \A s \in Slots :
        /\ slot[s].live => /\ ~slot[s].step
                           /\ slot[s].pos + slot[s].len <= BlockSize * Cardinality(slot[s].blk)
        /\ slot[s].step => slot[s].pos \div BlockSize >= Cardinality(slot[s].blk)

(* What the tasks under way bring. *)
DecodeFits ==
    \A t \in Batch : t.type = "DECODE" /\ t.slot # NoSlot /\ Active(slot[t.slot]) =>
        /\ slot[t.slot].req = t.req /\ slot[t.slot].blk \subseteq t.blk
        /\ t.blk \subseteq block_tables[t.req]
PrefillFits ==
    \A t \in Batch : t.type = "PREFILL" =>
        /\ t.req \in Members(running) /\ t.end = computed[t.req]
        /\ t.end <= BlockSize * Cardinality(block_tables[t.req])
        /\ t \in NextTasks => t.total = need[t.req] /\ t.blk = block_tables[t.req]
NeedIsTotal ==
    \A r \in Members(running) : computed[r] < need[r] \/ Filling(r) => need[r] = TotalTokens(r)

(* A request with prompt left has no token under way and cannot yield one;   *)
(* a request whose end token is generated is not active any more.            *)
Drained == \A r \in Requests : Prefilling(r) => r \notin Members(finishing) /\ ~InFlight(r)
NoYield ==
    \A s \in Slots : CanYield(slot[s]) /\ Prefilling(slot[s].req) => slot[s].step /\ Leaving(s)
Ended == \A s \in Slots : Active(slot[s]) => ~Ending(slot[s].req)

WorkerInv ==
    /\ Owner /\ Disjoint /\ Shape
    /\ DecodeFits /\ PrefillFits /\ NeedIsTotal
    /\ Drained /\ NoYield /\ Ended

(* Until a request is rescheduled undrained or a stray token is sent, and,   *)
(* for the worker, until it crashes.                                         *)
FlowInv == premature \/ stray \/ (TokInv /\ (crashed \/ WorkerInv))

LEMMA WorkerTypes ==
    ASSUME TypeOK
    PROVE  /\ slot \in [Slots -> SlotStates] /\ wbsz \in 0 .. MaxSeqs
           /\ \A s \in Slots : slot[s].blk \subseteq Blocks /\ slot[s].pos \in Int
                               /\ slot[s].len \in Int /\ slot[s].plen \in Nat
                               /\ slot[s].live \in BOOLEAN /\ slot[s].step \in BOOLEAN
           /\ msgs \in Seq(Messages) /\ Len(msgs) \in Nat
           /\ \A i \in 1 .. Len(msgs) : msgs[i] \in Messages
           /\ tmsg # Nothing => tmsg \in Messages
           /\ tslot \in Nat /\ finishing \in Seq(Requests)
           /\ \A m \in Messages : m.bsz \in 0 .. MaxSeqs
<1>1. slot \in [Slots -> SlotStates] /\ msgs \in Seq(Messages) /\ finishing \in Seq(Requests)
      /\ wbsz \in 0 .. MaxSeqs /\ tslot \in Nat /\ (tmsg # Nothing => tmsg \in Messages)
  BY DEF TypeOK
<1>2. \A w \in SlotStates : /\ w.blk \subseteq Blocks /\ w.pos \in Int /\ w.len \in Int
                            /\ w.plen \in Nat /\ w.live \in BOOLEAN /\ w.step \in BOOLEAN
  BY DEF SlotStates
<1>3. \A m \in Messages : m.bsz \in 0 .. MaxSeqs
  BY DEF Messages
<1> QED BY <1>1, <1>2, <1>3

LEMMA EosIsToken ==
    /\ \A m, from, r : CarriesEos(m, from, r) => Carries(m, from, r)
    /\ \A r : EosInFlight(r) => InFlight(r)
  BY DEF CarriesEos, Carries, EosInFlight, InFlight

(* Blocks are finite sets. *)
LEMMA BlocksFinite ==
    /\ IsFiniteSet(Blocks)
    /\ \A b \in SUBSET Blocks : IsFiniteSet(b) /\ Cardinality(b) \in Nat
    /\ \A b, c \in SUBSET Blocks : b \subseteq c => Cardinality(b) <= Cardinality(c)
<1>1. IsFiniteSet(Blocks)
  <2>1. NumBlocks - 1 \in Int
    BY PoolAssumption
  <2> QED BY <2>1, FS_Interval DEF Blocks
<1>2. \A b \in SUBSET Blocks : IsFiniteSet(b)
  BY <1>1, FS_Subset
<1>3. \A b \in SUBSET Blocks : Cardinality(b) \in Nat
  BY <1>2, FS_CardinalityType
<1>4. \A b, c \in SUBSET Blocks : b \subseteq c => Cardinality(b) <= Cardinality(c)
  BY <1>2, FS_Subset
<1> QED BY <1>1, <1>2, <1>3, <1>4

(* Tokens and blocks. *)
LEMMA BlockArithmetic ==
    /\ BlockSize \in Nat \ {0}
    /\ \A p \in Int, c \in Nat : p \div BlockSize < c => p + 1 <= BlockSize * c
    /\ \A a \in Int : a <= BlockSize * ((a + BlockSize - 1) \div BlockSize)
    /\ \A c, d \in Nat : c <= d => BlockSize * c <= BlockSize * d
<1>1. BlockSize \in Nat \ {0}
  BY PoolAssumption
<1>2. \A b \in Nat \ {0}, p \in Int, c \in Nat : p \div b < c => p + 1 <= b * c
  OBVIOUS
<1>3. \A b \in Nat \ {0}, a \in Int : a <= b * ((a + b - 1) \div b)
  OBVIOUS
<1>4. \A b \in Nat \ {0}, c, d \in Nat : c <= d => b * c <= b * d
  OBVIOUS
<1> QED BY <1>1, <1>2, <1>3, <1>4

-----------------------------------------------------------------------------
(* The messages and the finish pool, in every step but the worker's.         *)
LEMMA TokShrinks ==
    ASSUME TokInv, msgs' = msgs,
           tmsg' = Nothing \/ (tmsg' = tmsg /\ tslot \in Nat /\ tslot' \in Nat /\ tslot <= tslot'),
           Members(finishing') \subseteq Members(finishing), Members(finishing) \subseteq Requests,
           \A s \in Slots : tasks_list'[s] = tasks_list[s] \/ tasks_list[s] = NoReq
                            \/ tasks_list[s] \in Members(finishing)
    PROVE  /\ TokInv'
           /\ \A r \in Requests : InFlight(r)' => InFlight(r)
           /\ \A r \in Requests : Ending(r)' => Ending(r)
<1>1. tmsg' # Nothing => tmsg' = tmsg /\ \A s \in Slots : tslot' <= s => tslot <= s
  BY DEF Slots
<1>2. ASSUME NEW r
      PROVE  tmsg' # Nothing => /\ Carries(tmsg', tslot', r) => Carries(tmsg, tslot, r)
                                /\ CarriesEos(tmsg', tslot', r) => CarriesEos(tmsg, tslot, r)
  BY <1>1 DEF Carries, CarriesEos
<1>3. \A r \in Requests : (InFlight(r)' => InFlight(r)) /\ (EosInFlight(r)' => EosInFlight(r))
  BY <1>1, <1>2 DEF InFlight, EosInFlight
<1>4. ASSUME NEW m, NEW from, Credited(m, from),
             \A r \in Requests : Carries(m, from, r) => InFlight(r)
      PROVE  Credited(m, from)'
  <2> SUFFICES ASSUME NEW s \in Slots, from <= s, s < m.bsz, m.tok[s] # "none"
               PROVE  m.by[s] \in Requests /\ tasks_list'[s] = m.by[s]
    BY DEF Credited
  <2>1. m.by[s] \in Requests /\ tasks_list[s] = m.by[s]
    BY <1>4 DEF Credited
  <2>2. InFlight(m.by[s])
    BY <1>4, <2>1 DEF Carries
  <2> QED BY <2>1, <2>2, RequestAssumption DEF TokInv
<1>5. \A i \in 1 .. Len(msgs') : Credited(msgs[i], 0)'
  BY <1>4 DEF TokInv, InFlight
<1>6. tmsg' # Nothing => Credited(tmsg, tslot)'
  <2> SUFFICES ASSUME tmsg' # Nothing PROVE Credited(tmsg, tslot)'
    OBVIOUS
  <2>1. Credited(tmsg, tslot)
    BY <1>1 DEF TokInv
  <2>2. \A s \in Slots : tslot' <= s /\ s < tmsg'.bsz /\ tmsg'.tok[s] # "none" =>
            tmsg.by[s] \in Requests /\ tasks_list[s] = tmsg.by[s] /\ InFlight(tmsg.by[s])
    BY <1>1, <2>1 DEF Credited, InFlight, Carries
  <2> QED BY <1>1, <2>2, RequestAssumption DEF Credited, TokInv
<1>7. TokInv'
  <2>1. \A r \in Requests : \A j \in 1 .. Len(msgs') :
            tmsg' # Nothing /\ CarriesEos(tmsg', tslot', r) => ~Carries(msgs'[j], 0, r)
    BY <1>1, <1>2 DEF TokInv
  <2>2. \A r \in Members(finishing') : ~InFlight(r)'
    BY <1>3 DEF TokInv
  <2> QED BY <1>5, <1>6, <2>1, <2>2 DEF TokInv
<1> QED BY <1>3, <1>7 DEF Ending

(* The token processor takes the next message. *)
LEMMA TokTake ==
    ASSUME TypeOK, TokInv, TokenTake
    PROVE  /\ TokInv'
           /\ \A r \in Requests : InFlight(r)' => InFlight(r)
           /\ \A r \in Requests : Ending(r)' => Ending(r)
<1>1. /\ msgs \in Seq(Messages) /\ msgs # << >> /\ tmsg' = Head(msgs) /\ msgs' = Tail(msgs)
      /\ tslot' = 0 /\ finishing' = finishing /\ tasks_list' = tasks_list
  BY DEF TokenTake, TypeOK, rmVars, slotVars
<1>2. /\ 1 \in 1 .. Len(msgs) /\ tmsg' = msgs[1]
      /\ \A j \in 1 .. Len(msgs') : j + 1 \in 1 .. Len(msgs) /\ msgs'[j] = msgs[j + 1] /\ 1 < j + 1
      /\ \A i, j \in 1 .. Len(msgs') : i < j => i + 1 < j + 1
  BY <1>1
<1>3. Members(finishing') = Members(finishing) /\ Members(finishing) \subseteq Requests
  BY <1>1, ManagerTypes
<1>4. ASSUME NEW r \in Requests
      PROVE  (InFlight(r)' => InFlight(r)) /\ (EosInFlight(r)' => EosInFlight(r))
  BY <1>1, <1>2 DEF InFlight, EosInFlight
<1>5. (\A i \in 1 .. Len(msgs') : Credited(msgs[i], 0)') /\ Credited(tmsg, tslot)'
  BY <1>1, <1>2 DEF TokInv, Credited
<1>6. \A r \in Requests : \A i, j \in 1 .. Len(msgs') :
          i < j /\ CarriesEos(msgs'[i], 0, r) => ~Carries(msgs'[j], 0, r)
  BY <1>2 DEF TokInv
<1>7. \A r \in Requests : \A j \in 1 .. Len(msgs') :
          CarriesEos(tmsg', tslot', r) => ~Carries(msgs'[j], 0, r)
  BY <1>1, <1>2 DEF TokInv
<1>8. TokInv'
  BY <1>3, <1>4, <1>5, <1>6, <1>7 DEF TokInv
<1> QED BY <1>3, <1>4, <1>8 DEF Ending

(* A token is counted, and an end token hands its request to the finish pool.*)
LEMMA TokRead ==
    ASSUME TypeOK, ReadInRange, PosInv, TokInv, TokenRead, output' # output
    PROVE  /\ tasks_list[tslot] \in Requests /\ InFlight(tasks_list[tslot])
           /\ \A r \in Requests : r # tasks_list[tslot] => output'[r] = output[r]
           /\ Members(finishing') \subseteq Members(finishing) \cup {tasks_list[tslot]}
           /\ TokInv'
           /\ \A r \in Requests : InFlight(r)' => InFlight(r)
           /\ \A r \in Requests : Ending(r)' => Ending(r)
<1>0. PICK q : q = tasks_list[tslot]
  OBVIOUS
<1>1. /\ tmsg # Nothing /\ tmsg.tok[tslot] # "none" /\ output' = [output EXCEPT ![q] = @ + 1]
      /\ finishing' = IF tmsg.tok[tslot] = "eos" THEN Append(finishing, q) ELSE finishing
      /\ tslot' = tslot + 1 /\ tmsg' = tmsg /\ msgs' = msgs /\ tasks_list' = tasks_list
  <2>1. ~UNCHANGED rmVars /\ ~ReschedulePreemptTask(q)
    BY <1>0 DEF rmVars, ReschedulePreemptTask
  <2>2. tmsg # Nothing /\ msgs' = msgs
    BY DEF TokenRead
  <2>3. /\ tmsg.tok[tslot] # "none" /\ output' = [output EXCEPT ![q] = @ + 1]
        /\ finishing' = IF tmsg.tok[tslot] = "eos" THEN Append(finishing, q) ELSE finishing
        /\ TokenNext /\ UNCHANGED slotVars
    BY <1>0, <2>1 DEF TokenRead, Reschedule
  <2> QED BY <2>2, <2>3 DEF TokenNext, slotVars
<1>2. tslot \in Slots /\ tslot < tmsg.bsz /\ tslot \in Nat
  <2>1. tmsg \in Messages /\ tslot \in Nat /\ tslot < tmsg.bsz
    BY <1>1 DEF TypeOK, TokenRead, ReadInRange
  <2> QED BY <2>1, PoolAssumption DEF Messages, Slots
<1>3. q \in Requests /\ tmsg.by[tslot] = q /\ Carries(tmsg, tslot, q)
      /\ (tmsg.tok[tslot] = "eos" => CarriesEos(tmsg, tslot, q))
  BY <1>0, <1>1, <1>2 DEF TokInv, Credited, Carries, CarriesEos
<1>4. InFlight(q)
  BY <1>1, <1>3 DEF InFlight
<1>5. /\ finishing \in Seq(Requests) /\ output \in [Requests -> Nat]
      /\ Members(finishing) \subseteq Requests
  BY ManagerTypes DEF TypeOK
<1>6. Members(finishing') = IF tmsg.tok[tslot] = "eos" THEN Members(finishing) \cup {q}
                                                       ELSE Members(finishing)
  <2>1. Members(Append(finishing, q)) = Members(finishing) \cup {q}
    <3>1. /\ Len(Append(finishing, q)) = Len(finishing) + 1 /\ Len(finishing) \in Nat
          /\ Append(finishing, q)[Len(finishing) + 1] = q
          /\ \A i \in 1 .. Len(finishing) : Append(finishing, q)[i] = finishing[i]
      BY <1>3, <1>5
    <3>2. 1 .. Len(finishing) + 1 = (1 .. Len(finishing)) \cup {Len(finishing) + 1}
      BY <3>1
    <3> QED BY <3>1, <3>2 DEF Members
  <2> QED BY <1>1, <2>1
<1>7. \A s \in Slots : tslot + 1 <= s => tslot <= s /\ s # tslot
  BY <1>2 DEF Slots
<1>8. \A r \in Requests : /\ Carries(tmsg', tslot', r) => Carries(tmsg, tslot, r)
                          /\ CarriesEos(tmsg', tslot', r) => CarriesEos(tmsg, tslot, r)
  BY <1>1, <1>7 DEF Carries, CarriesEos
<1>9. \A r \in Requests : (InFlight(r)' => InFlight(r)) /\ (EosInFlight(r)' => EosInFlight(r))
  BY <1>1, <1>8 DEF InFlight, EosInFlight
<1>10. \A r \in Requests : Ending(r)' => Ending(r)
  BY <1>1, <1>3, <1>6, <1>9 DEF Ending, EosInFlight
<1>11. tmsg.tok[tslot] = "eos" => ~InFlight(q)'
  <2> SUFFICES ASSUME tmsg.tok[tslot] = "eos", InFlight(q)' PROVE FALSE
    OBVIOUS
  <2>1. \A j \in 1 .. Len(msgs) : ~Carries(msgs[j], 0, q)
    BY <1>1, <1>3 DEF TokInv
  <2>2. PICK s \in Slots : tslot + 1 <= s /\ s < tmsg.bsz /\ tmsg.tok[s] # "none" /\ tmsg.by[s] = q
    BY <1>1, <2>1 DEF InFlight, Carries
  <2>3. tasks_list[s] = q /\ tasks_list[tslot] = q
    BY <1>0, <1>1, <1>7, <2>2 DEF TokInv, Credited
  <2>4. q # NoReq
    BY <1>3, RequestAssumption
  <2> QED BY <1>2, <1>7, <2>2, <2>3, <2>4 DEF PosInv, PositionsAgree
<1>12. TokInv'
  <2>1. \A i \in 1 .. Len(msgs') : Credited(msgs[i], 0)'
    BY <1>1 DEF TokInv, Credited
  <2>2. Credited(tmsg, tslot)'
    BY <1>1, <1>7 DEF TokInv, Credited
  <2>3. \A r \in Requests : \A i, j \in 1 .. Len(msgs') :
            i < j /\ CarriesEos(msgs'[i], 0, r) => ~Carries(msgs'[j], 0, r)
    BY <1>1 DEF TokInv
  <2>4. \A r \in Requests : \A j \in 1 .. Len(msgs') :
            CarriesEos(tmsg', tslot', r) => ~Carries(msgs'[j], 0, r)
    BY <1>1, <1>8 DEF TokInv
  <2>5. \A r \in Members(finishing') : ~InFlight(r)'
    BY <1>5, <1>6, <1>9, <1>11 DEF TokInv
  <2> QED BY <2>1, <2>2, <2>3, <2>4, <2>5 DEF TokInv
<1> QED BY <1>0, <1>1, <1>3, <1>4, <1>5, <1>6, <1>9, <1>10, <1>12

(* No request gets a token under way, nor comes to its end, that had none.   *)
Settles ==
    \A r \in Requests :
        /\ InFlight(r)' => InFlight(r)
        /\ Ending(r)' => Ending(r)
        /\ r \in Members(finishing') => r \in Members(finishing) \/ InFlight(r)

LEMMA TokPreserved ==
    ASSUME TypeOK, ReadInRange, QInv, PosInv, TokInv, [Next]_vars, ~WorkerPass
    PROVE  TokInv' /\ Settles
<1>t. /\ tasks_list \in [Slots -> ReqOrNone] /\ finishing \in Seq(Requests) /\ tslot \in Nat
      /\ Members(finishing) \subseteq Requests
  BY ManagerTypes DEF TypeOK
<1>1. CASE TokenTake
  <2>1. Members(finishing') = Members(finishing)
    BY <1>1 DEF TokenTake
  <2> QED BY <1>1, <2>1, TokTake DEF Settles
<1>2. CASE TokenRead /\ output' # output
  BY <1>2, TokRead DEF Settles
<1>3. CASE /\ msgs' = msgs
           /\ tmsg' = Nothing \/ (tmsg' = tmsg /\ tslot' \in {tslot, tslot + 1})
           /\ Members(finishing') \subseteq Members(finishing)
           /\ \A s \in Slots : tasks_list'[s] = tasks_list[s] \/ tasks_list[s] = NoReq
                               \/ tasks_list[s] \in Members(finishing)
  <2>1. tmsg' = Nothing \/ (tmsg' = tmsg /\ tslot' \in Nat /\ tslot <= tslot')
    BY <1>3, <1>t
  <2>2. /\ TokInv'
        /\ \A r \in Requests : InFlight(r)' => InFlight(r)
        /\ \A r \in Requests : Ending(r)' => Ending(r)
    BY <1>3, <1>t, <2>1, TokShrinks
  <2> QED BY <1>3, <2>2 DEF Settles
<1>4. CASE \/ LoopTop \/ LoopFetch \/ LoopSchedule \/ LoopSend \/ FetchTake \/ FetchAdd \/ FetchEnd
           \/ UNCHANGED vars
  <2>1. UNCHANGED <<msgs, tmsg, tslot, finishing, tasks_list>>
    BY <1>4 DEF LoopTop, LoopFetch, LoopSchedule, ScheduleBegin, LoopSend, FetchTake, FetchAdd,
                AddRequest, FetchEnd, vars, rmVars, slotVars, tokenVars
  <2>2. Members(finishing') = Members(finishing)
    BY <2>1
  <2> QED BY <2>1, <2>2, <1>3
<1>5. CASE LoopScheduleStep
  <2>1. /\ UNCHANGED <<msgs, tmsg, tslot, finishing>>
        /\ \/ tasks_list' = tasks_list
           \/ \E pos \in stopped : tasks_list' = [tasks_list EXCEPT ![pos] = Head(waiting)]
    BY <1>5 DEF LoopScheduleStep, ScheduleStep, tokenVars, DecodeGoesOn, DecodeGetsBlocks,
                PrefillChunk, TriggerPreempt, RunningLoopEnds, AdmitWaiting, AdmitRaises,
                ResumePreempted, WaitingLoopEnds, slotVars
  <2>2. Members(finishing') = Members(finishing)
    BY <2>1
  <2>3. \A pos \in stopped : tasks_list[pos] = NoReq
    BY ManagerTypes DEF PosInv, PositionsAgree
  <2>4. \A s \in Slots : tasks_list'[s] = tasks_list[s] \/ tasks_list[s] = NoReq
    BY <2>1, <2>3, <1>t
  <2> QED BY <2>1, <2>2, <2>4, <1>3
<1>6. ASSUME NEW r \in Requests, TokenLookAt(r) PROVE TokInv' /\ Settles
  <2>1. /\ UNCHANGED <<msgs, finishing>>
        /\ tmsg' = Nothing \/ (tmsg' = tmsg /\ tslot' = tslot)
        /\ UNCHANGED rmVars \/ ReschedulePreemptTask(r)
    BY <1>6 DEF TokenLookAt, TokenDrop, Reschedule
  <2>2. tasks_list' = tasks_list
    BY <2>1 DEF rmVars, slotVars, ReschedulePreemptTask
  <2>3. Members(finishing') = Members(finishing)
    BY <2>1
  <2> QED BY <2>1, <2>2, <2>3, <1>3
<1>7. CASE TokenScan
  <2>1. /\ UNCHANGED <<msgs, finishing, tasks_list>>
        /\ tmsg' = Nothing \/ (tmsg' = tmsg /\ tslot' \in {tslot, tslot + 1})
    BY <1>7 DEF TokenScan, TokenDrop, rmVars, slotVars
  <2>2. Members(finishing') = Members(finishing)
    BY <2>1
  <2> QED BY <2>1, <2>2, <1>3
<1>8. CASE TokenRead /\ output' = output
  <2>1. /\ msgs' = msgs
        /\ \/ UNCHANGED <<rmVars, finishing>>
           \/ ReschedulePreemptTask(tasks_list[tslot]) /\ finishing' = finishing
           \/ /\ tasks_list[tslot] # NoReq /\ tmsg.tok[tslot] # "none"
              /\ output' = [output EXCEPT ![tasks_list[tslot]] = @ + 1]
        /\ tmsg' = Nothing \/ (tmsg' = tmsg /\ tslot' \in {tslot, tslot + 1})
    BY <1>8 DEF TokenRead, TokenDrop, TokenNext, Reschedule
  <2>2. tslot \in Slots
    <3>1. tmsg \in Messages /\ tslot \in Nat /\ tslot < tmsg.bsz
      BY <1>8 DEF TypeOK, TokenRead, ReadInRange
    <3> QED BY <3>1, PoolAssumption DEF Messages, Slots
  <2>3. tasks_list' = tasks_list /\ finishing' = finishing
    <3>1. \A r \in Requests : output[r] + 1 # output[r]
      BY ManagerTypes
    <3>2. tasks_list[tslot] # NoReq => tasks_list[tslot] \in Requests
      BY <1>t, <2>2 DEF ReqOrNone
    <3>3. output \in [Requests -> Nat]
      BY ManagerTypes
    <3>4. \A r \in Requests : output' # [output EXCEPT ![r] = @ + 1]
      BY <3>1, <3>3, <1>8
    <3> QED BY <2>1, <3>2, <3>4 DEF rmVars, slotVars, ReschedulePreemptTask
  <2>4. Members(finishing') = Members(finishing)
    BY <2>3
  <2> QED BY <2>1, <2>3, <2>4, <1>3
<1>9. CASE Finish
  <2>1. /\ finishing # << >> /\ finishing' = Tail(finishing)
        /\ FinishRequests(Head(finishing)) /\ UNCHANGED <<msgs, tmsg, tslot>>
    BY <1>9 DEF Finish, tokenVars
  <2>2. Head(finishing) \in Members(finishing) /\ Members(finishing') \subseteq Members(finishing)
    BY <1>t, <2>1 DEF Members
  <2>3. \A s \in Slots : tasks_list'[s] = tasks_list[s] \/ tasks_list[s] = Head(finishing)
    BY <1>t, <2>1, <2>2, FinishEffect
  <2> QED BY <2>1, <2>2, <2>3, <1>3
<1> QED BY <1>1, <1>2, <1>4, <1>5, <1>6, <1>7, <1>8, <1>9 DEF Next

-----------------------------------------------------------------------------
(* The state starts in order. *)
LEMMA InitFlow == Init => FlowInv
<1> SUFFICES ASSUME Init PROVE TokInv /\ WorkerInv
  BY DEF FlowInv
<1>1. /\ msgs = << >> /\ tmsg = Nothing /\ finishing = << >> /\ scheduled = {} /\ queue = Nothing
      /\ waiting = << >> /\ running = << >> /\ slot = [s \in Slots |-> EmptySlot]
  BY DEF Init, RMInit
<1>2. Members(<< >>) = {} /\ Batch = {}
  BY <1>1 DEF Members, Batch, NextTasks
<1>3. \A r : ~Prefilling(r) /\ ~InFlight(r)
  BY <1>1, <1>2 DEF Prefilling, Filling, InFlight
<1>4. /\ EmptySlot.live = FALSE /\ EmptySlot.step = FALSE
  BY DEF EmptySlot
<1>5. \A s \in Slots : ~Active(slot[s]) /\ ~CanYield(slot[s]) /\ ~slot[s].live /\ ~slot[s].step
  BY <1>1, <1>4 DEF Active, CanYield
<1>6. TokInv
  BY <1>1, <1>2 DEF TokInv
<1>7. Owner /\ Disjoint /\ Shape /\ Ended /\ NoYield
  BY <1>5 DEF Owner, Disjoint, Shape, Ended, NoYield
<1>8. DecodeFits /\ PrefillFits /\ NeedIsTotal /\ Drained
  BY <1>1, <1>2, <1>3 DEF DecodeFits, PrefillFits, NeedIsTotal, Drained
<1> QED BY <1>6, <1>7, <1>8 DEF WorkerInv

-----------------------------------------------------------------------------
(* The steps of the other threads, as the worker's positions see them: no    *)
(* task to preempt is withdrawn, an active position that is not given up     *)
(* keeps its request running and its blocks, and a request gets prompt to    *)
(* compute only when nothing of it is left on the way.                       *)
LEMMA WorkerKeeps ==
    ASSUME WorkerInv, Settles, UNCHANGED <<slot, wbsz>>,
           \A s \in Slots : Active(slot[s]) => tasks_list'[s] = tasks_list[s],
           \A s \in Slots : Leaving(s) => Leaving(s)',
           \A s \in Slots : Active(slot[s]) /\ ~Leaving(s) /\ ~Leaving(s)' =>
               /\ slot[s].req \in Members(running')
               /\ block_tables[slot[s].req] \subseteq block_tables'[slot[s].req],
           \A r \in Requests : Prefilling(r)' => \/ Prefilling(r)
               \/ /\ r \notin Members(finishing) /\ ~InFlight(r)
                  /\ \A s \in Slots : CanYield(slot[s]) /\ slot[s].req = r =>
                        slot[s].step /\ Leaving(s),
           DecodeFits', PrefillFits', NeedIsTotal'
    PROVE  WorkerInv'
<1>0. /\ Owner /\ Disjoint /\ Shape /\ Drained /\ NoYield /\ Ended
  BY DEF WorkerInv
<1>1. Owner'
  BY <1>0 DEF Owner
<1>2. Disjoint' /\ Shape'
  BY <1>0 DEF Disjoint, Shape
<1>3. Drained'
  BY <1>0 DEF Drained, Settles
<1>4. Ended'
  BY <1>0 DEF Ended, Settles, Owner
<1>5. NoYield'
  <2> SUFFICES ASSUME NEW s \in Slots, CanYield(slot[s]), Prefilling(slot[s].req)'
               PROVE  slot[s].step /\ Leaving(s)'
    BY DEF NoYield
  <2>1. slot[s].req \in Requests
    BY <1>0 DEF Owner, Active, CanYield
  <2> QED BY <1>0, <2>1 DEF NoYield
<1> QED BY <1>1, <1>2, <1>3, <1>4, <1>5 DEF WorkerInv

(* The position of a running request is not given up. *)
LEMMA NotLeaving ==
    ASSUME PosInv, BatchInv, TypeOK, NEW r \in Members(running), idx[r] # NoSlot
    PROVE  ~Leaving(idx[r])
<1> SUFFICES ASSUME Leaving(idx[r]) PROVE FALSE
  OBVIOUS
<1>1. PICK t \in Batch : t.type = "PREEMPTED" /\ t.slot = idx[r]
  BY DEF Leaving
<1>2. t.slot = idx[t.req] /\ t.req \notin Members(running) /\ tasks_list[idx[t.req]] \in {t.req, NoReq}
  BY <1>1 DEF BatchInv, BatchSlots, Batch
<1>3. tasks_list[idx[r]] = r /\ r # NoReq
  BY ManagerTypes, RequestAssumption DEF PosInv, PositionsAgree, Queued
<1> QED BY <1>1, <1>2, <1>3

(* The request under the cursor has no task yet. *)
LEMMA CurrentHasNoTask ==
    ASSUME TypeOK, QInv, BatchInv, InRunningLoop
    PROVE  /\ queue = Nothing /\ Batch = scheduled
           /\ Current \in Members(running) /\ Current \in Requests
           /\ running[Len(running)] \in Members(running) /\ running[Len(running)] \in Requests
           /\ \A t \in Batch : t.req # Current /\ t.req # running[Len(running)]
<1>1. spc = "run" /\ cursor <= Len(running)
  BY DEF InRunningLoop
<1>2. queue = Nothing /\ Batch = scheduled
  BY <1>1, WhileScheduling
<1>t. running \in Seq(Requests) /\ Len(running) \in Nat /\ cursor \in Nat \ {0}
  BY ManagerTypes
<1>3. cursor \in 1 .. Len(running) /\ Len(running) \in 1 .. Len(running)
  BY <1>1, <1>t
<1>4. /\ Current \in Members(running) /\ Current \in Requests
      /\ running[Len(running)] \in Members(running) /\ running[Len(running)] \in Requests
  BY <1>3, <1>t DEF Current, Members
<1>5. ASSUME NEW t \in scheduled, NEW i \in 1 .. Len(running), cursor <= i
      PROVE  t.req # running[i]
  <2>1. CASE t.type = "PREEMPTED"
    BY <2>1, <1>2, <1>5 DEF BatchInv, BatchSlots, Members
  <2>2. CASE t.type # "PREEMPTED"
    <3>1. PICK j \in 1 .. Len(running) : j < cursor /\ running[j] = t.req
      BY <2>2, <1>1 DEF BatchInv, SchedulePhase
    <3>2. j # i
      BY <3>1, <1>5, <1>t
    <3> QED BY <3>1, <3>2 DEF QInv, OneQueue
  <2> QED BY <2>1, <2>2
<1>6. cursor <= cursor
  BY <1>t
<1> QED BY <1>1, <1>2, <1>3, <1>4, <1>5, <1>6 DEF Current

(* A step that leaves the manager and the worker alone, but that may count a *)
(* token.                                                                    *)
LEMMA QuietStep ==
    ASSUME TypeOK, WorkerInv, Settles,
           UNCHANGED <<slot, wbsz, tasks_list, block_tables, computed, need, running, waiting,
                       scheduled, queue>>,
           \A r \in Requests : output'[r] = output[r] \/ InFlight(r)
    PROVE  WorkerInv'
<1>1. NextTasks' = NextTasks /\ Batch' = Batch
  BY DEF NextTasks, Batch
<1>2. Members(running') = Members(running) /\ Members(waiting') = Members(waiting)
  OBVIOUS
<1>3. /\ \A s \in Slots : Leaving(s)' <=> Leaving(s)
      /\ \A r \in Requests : (Prefilling(r)' <=> Prefilling(r)) /\ (Filling(r)' <=> Filling(r))
  BY <1>1, <1>2 DEF Leaving, Filling, Prefilling
<1>4. DecodeFits'
  BY <1>1 DEF WorkerInv, DecodeFits
<1>5. PrefillFits'
  BY <1>1, <1>2 DEF WorkerInv, PrefillFits
<1>6. NeedIsTotal'
  <2> SUFFICES ASSUME NEW r \in Members(running), computed[r] < need[r] \/ Filling(r)
               PROVE  need[r] = TotalTokens(r)'
    BY <1>2, <1>3, ManagerTypes DEF NeedIsTotal
  <2>1. r \in Requests /\ Prefilling(r)
    BY ManagerTypes DEF Prefilling
  <2>2. output'[r] = output[r]
    BY <2>1 DEF WorkerInv, Drained
  <2> QED BY <2>2 DEF WorkerInv, NeedIsTotal, TotalTokens
<1>7. \A s \in Slots : Active(slot[s]) /\ ~Leaving(s) =>
          /\ slot[s].req \in Members(running')
          /\ block_tables[slot[s].req] \subseteq block_tables'[slot[s].req]
  BY <1>2 DEF WorkerInv, Owner
<1> QED BY <1>3, <1>4, <1>5, <1>6, <1>7, WorkerKeeps

(* The batch is sent: its prefill tasks take the block tables along. *)
LEMMA SendStep ==
    ASSUME TypeOK, BatchInv, WorkerInv, Settles, LoopSend
    PROVE  WorkerInv'
<1>1. UNCHANGED <<slot, wbsz, tasks_list, block_tables, computed, need, running, waiting, output>>
  BY DEF LoopSend, workerVars, poolVars, reqVars, queueVars
<1>2. /\ scheduled' = {} /\ Batch = scheduled
      /\ NextTasks' = {Serialised(t) : t \in scheduled} /\ Batch' = NextTasks'
      /\ \A t \in scheduled :
            /\ Serialised(t).req = t.req /\ Serialised(t).type = t.type
            /\ Serialised(t).slot = idx[t.req]
            /\ t.type # "PREFILL" => Serialised(t) = t
            /\ t.type = "PREFILL" =>
                  /\ Serialised(t).blk = block_tables[t.req] /\ Serialised(t).end = t.end
                  /\ Serialised(t).total = TotalTokens(t.req)
  BY SendBatch
<1>3. Members(running') = Members(running) /\ Members(waiting') = Members(waiting)
  BY <1>1
<1>4. \A t \in scheduled : t.type # "PREFILL" => t \in Batch'
  BY <1>2
<1>5. \A s \in Slots : Leaving(s) => Leaving(s)'
  BY <1>2, <1>4 DEF Leaving
<1>6. \A r \in Requests : (Prefilling(r)' => Prefilling(r)) /\ (Filling(r)' => Filling(r))
  BY <1>1, <1>2, <1>3 DEF Filling, Prefilling
<1>7. DecodeFits'
  BY <1>1, <1>2 DEF WorkerInv, DecodeFits
<1>8. PrefillFits'
  <2> SUFFICES ASSUME NEW t \in scheduled, Serialised(t).type = "PREFILL"
               PROVE  /\ t.req \in Members(running') /\ Serialised(t).end = computed'[t.req]
                      /\ Serialised(t).end <= BlockSize * Cardinality(block_tables'[t.req])
                      /\ Serialised(t).total = need'[t.req]
                      /\ Serialised(t).blk = block_tables'[t.req]
    BY <1>2 DEF PrefillFits
  <2>1. /\ t.req \in Members(running) /\ t.end = computed[t.req]
        /\ t.end <= BlockSize * Cardinality(block_tables[t.req])
    BY <1>2 DEF WorkerInv, PrefillFits
  <2>2. need[t.req] = TotalTokens(t.req)
    BY <1>2, <2>1 DEF WorkerInv, NeedIsTotal, Filling
  <2> QED BY <1>1, <1>2, <1>3, <2>1, <2>2
<1>9. NeedIsTotal'
  <2>1. \A r \in Members(running) : TotalTokens(r)' = TotalTokens(r)
    BY <1>1 DEF TotalTokens
  <2> QED BY <1>1, <1>3, <1>6, <2>1, ManagerTypes DEF WorkerInv, NeedIsTotal
<1>10. \A s \in Slots : Active(slot[s]) /\ ~Leaving(s) =>
          /\ slot[s].req \in Members(running')
          /\ block_tables[slot[s].req] \subseteq block_tables'[slot[s].req]
  BY <1>1, <1>3 DEF WorkerInv, Owner
<1> QED BY <1>1, <1>5, <1>6, <1>7, <1>8, <1>9, <1>10, WorkerKeeps

-----------------------------------------------------------------------------
(* A chunk fits the blocks that are allocated for it. *)
LEMMA ChunkFits ==
    ASSUME TypeOK, BlocksConserved, NEW r \in Requests, NEW n \in Int, computed[r] + n \in Nat,
           Allocate(r, NewBlocks(r, n))
    PROVE  /\ block_tables[r] \subseteq block_tables'[r]
           /\ computed[r] + n <= BlockSize * Cardinality(block_tables'[r])
<1>t. block_tables \in [Requests -> SUBSET Blocks] /\ free \subseteq Blocks
  BY ManagerTypes
<1>1. PICK new \in SUBSET free :
          /\ Cardinality(new) = NewBlocks(r, n)
          /\ block_tables' = [block_tables EXCEPT ![r] = @ \cup new]
  BY DEF Allocate
<1>2. block_tables'[r] = block_tables[r] \cup new /\ block_tables[r] \cap new = {}
  BY <1>1, <1>t DEF BlocksConserved
<1>3. IsFiniteSet(block_tables[r]) /\ IsFiniteSet(new) /\ Cardinality(block_tables[r]) \in Nat
  BY <1>1, <1>t, BlocksFinite
<1>4. Cardinality(block_tables'[r]) = Cardinality(block_tables[r]) + Cardinality(new)
  <2>1. Cardinality(block_tables[r] \cap new) = 0
    BY <1>2, FS_EmptySet
  <2>2. Cardinality(block_tables[r] \cup new)
            = Cardinality(block_tables[r]) + Cardinality(new) - Cardinality(block_tables[r] \cap new)
    BY <1>3, FS_Union
  <2>3. Cardinality(new) \in Nat
    BY <1>3, FS_CardinalityType
  <2> QED BY <1>2, <1>3, <2>1, <2>2, <2>3
<1>5. NewBlocks(r, n) = (computed[r] + n + BlockSize - 1) \div BlockSize
                            - Cardinality(block_tables[r])
  BY DEF NewBlocks
<1>6. (computed[r] + n + BlockSize - 1) \div BlockSize \in Int
  BY BlockArithmetic
<1>7. Cardinality(block_tables'[r]) = (computed[r] + n + BlockSize - 1) \div BlockSize
  BY <1>1, <1>3, <1>4, <1>5, <1>6
<1> QED BY <1>2, <1>7, BlockArithmetic

(* schedule() gives one request what it needs, and may tell the worker. *)
LEMMA GrantStep ==
    ASSUME TypeOK, WorkerInv, Settles, UNCHANGED <<slot, wbsz, output>>,
           queue = Nothing, queue' = Nothing, NEW r \in Requests,
           \A s \in Slots : Active(slot[s]) => tasks_list'[s] = tasks_list[s],
           \A q \in Requests : q # r =>
               /\ block_tables'[q] = block_tables[q]
               /\ computed'[q] = computed[q] /\ need'[q] = need[q],
           Members(running) \subseteq Members(running'),
           Members(running') \subseteq Members(running) \cup {r},
           Members(waiting') \subseteq Members(waiting),
           block_tables[r] \subseteq block_tables'[r],
           \A t \in scheduled : t.req # r /\ (t.type = "PREEMPTED" => t \in scheduled'),
           \A t \in scheduled' : t \in scheduled \/ t.req = r,
           \A t \in scheduled' : t.req = r /\ t.type = "DECODE" =>
               /\ t.slot = idx[r] /\ r \in Members(running) /\ t.blk = block_tables'[r],
           \A t \in scheduled' : t.req = r /\ t.type = "PREFILL" =>
               /\ r \in Members(running') /\ t.end = computed'[r]
               /\ t.end <= BlockSize * Cardinality(block_tables'[r]),
           Prefilling(r)' => Prefilling(r),
           r \in Members(running') /\ (computed'[r] < need'[r] \/ Filling(r)') =>
               need'[r] = TotalTokens(r),
           PosInv, BatchInv
    PROVE  WorkerInv'
<1>1. NextTasks = {} /\ NextTasks' = {} /\ Batch = scheduled /\ Batch' = scheduled'
  BY DEF NextTasks, Batch
<1>2. /\ Owner /\ DecodeFits /\ PrefillFits /\ NeedIsTotal
  BY DEF WorkerInv
<1>t. \A t \in Batch : t.req \in Requests
  BY BatchTypes
<1>3. \A s \in Slots : Leaving(s) => Leaving(s)'
  BY <1>1 DEF Leaving
<1>4. \A s \in Slots : Active(slot[s]) /\ ~Leaving(s) =>
          /\ slot[s].req \in Members(running')
          /\ block_tables[slot[s].req] \subseteq block_tables'[slot[s].req]
  BY <1>2 DEF Owner
<1>5. \A q \in Requests : q # r => (Filling(q)' => Filling(q))
  BY <1>1 DEF Filling
<1>6. \A q \in Requests : q # r => (Prefilling(q)' => Prefilling(q))
  BY <1>5 DEF Prefilling
<1>7. DecodeFits'
  <2> SUFFICES ASSUME NEW t \in scheduled', t.type = "DECODE", t.slot # NoSlot,
                      Active(slot[t.slot])
               PROVE  /\ slot[t.slot].req = t.req /\ slot[t.slot].blk \subseteq t.blk
                      /\ t.blk \subseteq block_tables'[t.req]
    BY <1>1 DEF DecodeFits
  <2>1. CASE t \in scheduled
    BY <2>1, <1>1, <1>2, <1>t DEF DecodeFits
  <2>2. CASE t.req = r
    <3>1. t.slot = idx[r] /\ r \in Members(running) /\ t.blk = block_tables'[r]
      BY <2>2
    <3>2. idx[r] \in Slots /\ tasks_list[idx[r]] = r
      BY <3>1, ManagerTypes DEF PosInv, PositionsAgree, Queued, SlotOrNone
    <3>3. ~Leaving(idx[r])
      BY <3>1, NotLeaving
    <3> QED BY <2>2, <3>1, <3>2, <3>3, <1>2 DEF Owner
  <2> QED BY <2>1, <2>2
<1>8. PrefillFits'
  <2> SUFFICES ASSUME NEW t \in scheduled', t.type = "PREFILL"
               PROVE  /\ t.req \in Members(running') /\ t.end = computed'[t.req]
                      /\ t.end <= BlockSize * Cardinality(block_tables'[t.req])
    BY <1>1 DEF PrefillFits
  <2>1. CASE t \in scheduled
    BY <2>1, <1>1, <1>2, <1>t DEF PrefillFits
  <2> QED BY <2>1
<1>9. NeedIsTotal'
  <2> SUFFICES ASSUME NEW q \in Members(running'), computed'[q] < need'[q] \/ Filling(q)'
               PROVE  need'[q] = TotalTokens(q)
    BY DEF NeedIsTotal, TotalTokens
  <2>1. CASE q # r
    BY <2>1, <1>2, <1>5, ManagerTypes DEF NeedIsTotal
  <2> QED BY <2>1
<1> QED BY <1>3, <1>4, <1>6, <1>7, <1>8, <1>9, WorkerKeeps

(* The first loop of schedule(). *)
LEMMA WorkerDecode ==
    ASSUME TypeOK, BlocksConserved, QInv, PosInv, BatchInv, WorkerInv, Settles,
           DecodeGoesOn \/ DecodeGetsBlocks, UNCHANGED <<loopVars, workerVars>>
    PROVE  WorkerInv'
<1>1. /\ InRunningLoop /\ Decoding(Current)
      /\ computed' = [computed EXCEPT ![Current] = DecodeComputed(Current)]
      /\ UNCHANGED <<slot, wbsz, output, tasks_list, running, waiting, need>> /\ queue' = queue
  BY DEF DecodeGoesOn, DecodeGetsBlocks, workerVars, loopVars, queueVars, slotVars
<1>2. PICK r : r = Current
  OBVIOUS
<1>3. /\ queue = Nothing /\ queue' = Nothing /\ r \in Members(running) /\ r \in Requests
      /\ \A t \in scheduled : t.req # r
  BY <1>1, <1>2, CurrentHasNoTask DEF Batch
<1>t. /\ block_tables \in [Requests -> SUBSET Blocks] /\ computed \in [Requests -> Nat]
      /\ need \in [Requests -> Nat] /\ TotalTokens(r) \in Nat
  BY <1>3, ManagerTypes, TokenCounts DEF TypeOK
<1>4. Members(running') = Members(running) /\ Members(waiting') = Members(waiting)
  BY <1>1
<1>5. /\ ~(computed'[r] < need'[r])
      /\ \A q \in Requests : q # r => computed'[q] = computed[q]
  BY <1>1, <1>2, <1>3, <1>t DEF Decoding, DecodeComputed
<1>6. PICK new : /\ scheduled' \in {scheduled, scheduled \cup {new}} /\ new.type = "DECODE"
                 /\ new.req = r /\ new.slot = idx[r] /\ new.blk = block_tables'[r]
                 /\ block_tables[r] \subseteq block_tables'[r]
                 /\ \A q \in Requests : q # r => block_tables'[q] = block_tables[q]
  <2> DEFINE d == DecodeTask(r, block_tables'[r])
  <2>1. d.type = "DECODE" /\ d.req = r /\ d.slot = idx[r] /\ d.blk = block_tables'[r]
    BY DEF DecodeTask
  <2>2. CASE DecodeGoesOn
    <3>1. scheduled' = scheduled /\ block_tables' = block_tables
      BY <2>2 DEF DecodeGoesOn, poolVars
    <3> HIDE DEF d
    <3> QED BY <2>1, <3>1
  <2>3. CASE DecodeGetsBlocks
    <3>1. scheduled' = scheduled \cup {d} /\ Allocate(r, EncDec)
      BY <1>2, <2>3 DEF DecodeGetsBlocks
    <3>2. block_tables[r] \subseteq block_tables'[r]
      BY <1>3, <1>t, <3>1 DEF Allocate
    <3>3. \A q \in Requests : q # r => block_tables'[q] = block_tables[q]
      BY <1>3, <3>1, GivenBlocks
    <3> HIDE DEF d
    <3> QED BY <2>1, <3>1, <3>2, <3>3
  <2> QED BY <2>2, <2>3
<1>7. NextTasks = {} /\ NextTasks' = {} /\ Batch = scheduled /\ Batch' = scheduled'
  BY <1>3 DEF NextTasks, Batch
<1>8. ~Filling(r)' /\ ~Prefilling(r)'
  <2>1. ~Filling(r)'
    BY <1>3, <1>6, <1>7 DEF Filling
  <2>2. r \notin Members(waiting')
    BY <1>3, <1>4 DEF QInv, OneQueue
  <2> QED BY <1>1, <1>5, <1>t, <1>3, <2>1, <2>2 DEF Prefilling, DecodeComputed
<1>9. need' = need /\ tasks_list' = tasks_list
  BY <1>1
<1> QED BY <1>1, <1>3, <1>4, <1>5, <1>6, <1>8, <1>9, GrantStep

LEMMA WorkerPrefill ==
    ASSUME TypeOK, BlocksConserved, QInv, PosInv, BatchInv, WorkerInv, Settles,
           PrefillChunk, UNCHANGED <<loopVars, workerVars>>
    PROVE  WorkerInv'
<1>1. /\ InRunningLoop /\ ~Decoding(Current) /\ budget > 0
      /\ UNCHANGED <<slot, wbsz, output, tasks_list, running, waiting, need>> /\ queue' = queue
  BY DEF PrefillChunk, workerVars, loopVars, queueVars, slotVars, InRunningLoop
<1>2. PICK r : r = Current
  OBVIOUS
<1>3. /\ queue = Nothing /\ queue' = Nothing /\ r \in Members(running) /\ r \in Requests
      /\ \A t \in scheduled : t.req # r
  BY <1>1, <1>2, CurrentHasNoTask DEF Batch
<1>t. /\ block_tables \in [Requests -> SUBSET Blocks] /\ computed \in [Requests -> Nat]
      /\ need \in [Requests -> Nat]
  BY ManagerTypes
<1>4. PICK n : /\ n = NewTokens(r, need[r]) /\ Allocate(r, NewBlocks(r, n))
               /\ scheduled' = scheduled \cup {PrefillTask(r, computed[r], computed[r] + n)}
               /\ computed' = [computed EXCEPT ![r] = @ + n]
  BY <1>2 DEF PrefillChunk
<1>5. n \in Int /\ computed[r] + n \in Nat
  BY <1>1, <1>3, <1>4, <1>t, NewTokensType DEF TypeOK
<1>6. /\ computed'[r] = computed[r] + n
      /\ \A q \in Requests : q # r => computed'[q] = computed[q]
      /\ \A q \in Requests : q # r => block_tables'[q] = block_tables[q]
  BY <1>3, <1>4, <1>t, GivenBlocks
<1>7. /\ block_tables[r] \subseteq block_tables'[r]
      /\ computed[r] + n <= BlockSize * Cardinality(block_tables'[r])
  BY <1>3, <1>4, <1>5, ChunkFits
<1>8. PICK new : /\ scheduled' = scheduled \cup {new} /\ new.type = "PREFILL" /\ new.req = r
                 /\ new.end = computed'[r]
  <2> DEFINE p == PrefillTask(r, computed[r], computed[r] + n)
  <2>1. p.type = "PREFILL" /\ p.req = r /\ p.end = computed'[r]
    BY <1>6 DEF PrefillTask
  <2>2. scheduled' = scheduled \cup {p}
    BY <1>4
  <2> HIDE DEF p
  <2> QED BY <2>1, <2>2
<1>9. computed[r] < need[r] /\ Prefilling(r)
  BY <1>1, <1>2, <1>3, <1>t DEF Decoding, Prefilling
<1>10. need[r] = TotalTokens(r)
  BY <1>3, <1>9 DEF WorkerInv, NeedIsTotal
<1>11. Members(running') = Members(running) /\ Members(waiting') = Members(waiting)
  BY <1>1
<1>12. need' = need /\ tasks_list' = tasks_list
  BY <1>1
<1> QED BY <1>1, <1>3, <1>6, <1>7, <1>8, <1>9, <1>10, <1>11, <1>12, GrantStep

(* The last running request is preempted, and the worker will hear of it. *)
LEMMA WorkerPreempt ==
    ASSUME TypeOK, QInv, PosInv, BatchInv, WorkerInv, Settles,
           TriggerPreempt, UNCHANGED <<loopVars, workerVars>>
    PROVE  WorkerInv'
<1>1. /\ InRunningLoop /\ UNCHANGED <<slot, wbsz, output, tasks_list, waiting, need>>
      /\ queue' = queue
  BY DEF TriggerPreempt, workerVars, loopVars, queueVars, slotVars
<1>2. PICK v : v = running[Len(running)]
  OBVIOUS
<1>3. /\ queue = Nothing /\ queue' = Nothing /\ v \in Members(running) /\ v \in Requests
      /\ \A t \in scheduled : t.req # v
  BY <1>1, <1>2, CurrentHasNoTask DEF Batch
<1>4. Members(running') = Members(running) \ {v} /\ Members(waiting') = Members(waiting)
  BY <1>2, QueueMoves
<1>t. /\ block_tables \in [Requests -> SUBSET Blocks] /\ computed \in [Requests -> Nat]
      /\ tasks_list \in [Slots -> ReqOrNone] /\ Members(running) \subseteq Requests
  BY ManagerTypes
<1>5. /\ scheduled' = scheduled \cup {PreemptTask(v)}
      /\ computed' = [computed EXCEPT ![v] = 0] /\ FreeBlocks(v)
  BY <1>2 DEF TriggerPreempt
<1>6. /\ \A q \in Requests : q # v => computed'[q] = computed[q]
      /\ \A q \in Requests : q # v => block_tables'[q] = block_tables[q]
  BY <1>3, <1>5, <1>t DEF FreeBlocks
<1>7. PICK new : /\ scheduled' = scheduled \cup {new} /\ new.type = "PREEMPTED" /\ new.req = v
                 /\ new.slot = idx[v]
  <2>1. /\ PreemptTask(v).type = "PREEMPTED" /\ PreemptTask(v).req = v
        /\ PreemptTask(v).slot = idx[v]
    BY DEF PreemptTask
  <2> QED BY <1>5, <2>1
<1>8. NextTasks = {} /\ NextTasks' = {} /\ Batch = scheduled /\ Batch' = scheduled'
  BY <1>3 DEF NextTasks, Batch
<1>9. /\ Owner /\ DecodeFits /\ PrefillFits /\ NeedIsTotal
  BY DEF WorkerInv
<1>10. \A s \in Slots : Leaving(s) => Leaving(s)'
  BY <1>7, <1>8 DEF Leaving
<1>11. \A s \in Slots : Active(slot[s]) /\ slot[s].req = v => Leaving(s)'
  <2> SUFFICES ASSUME NEW s \in Slots, Active(slot[s]), slot[s].req = v
               PROVE  idx[v] = s
    BY <1>7, <1>8 DEF Leaving
  <2> QED BY <1>3, <1>9, RequestAssumption DEF Owner, PosInv, PositionsAgree
<1>12. \A s \in Slots : Active(slot[s]) /\ ~Leaving(s) /\ ~Leaving(s)' =>
           /\ slot[s].req \in Members(running')
           /\ block_tables[slot[s].req] \subseteq block_tables'[slot[s].req]
  BY <1>4, <1>6, <1>9, <1>11 DEF Owner
<1>13. \A r \in Requests : Filling(r)' => Filling(r)
  BY <1>7, <1>8 DEF Filling
<1>14. \A r \in Requests : Prefilling(r)' => Prefilling(r)
  BY <1>1, <1>4, <1>6, <1>13 DEF Prefilling
<1>x. \A t \in scheduled : t.req \in Requests
  BY <1>8, BatchTypes
<1>15. DecodeFits'
  BY <1>1, <1>3, <1>6, <1>7, <1>8, <1>9, <1>x DEF DecodeFits
<1>16. PrefillFits'
  BY <1>3, <1>4, <1>6, <1>7, <1>8, <1>9, <1>x DEF PrefillFits
<1>17. NeedIsTotal'
  BY <1>1, <1>4, <1>6, <1>9, <1>13, <1>t DEF NeedIsTotal, TotalTokens
<1> QED BY <1>1, <1>10, <1>12, <1>14, <1>15, <1>16, <1>17, WorkerKeeps

(* The second loop of schedule(): a waiting request starts to run. *)
LEMMA WorkerStart ==
    ASSUME TypeOK, BlocksConserved, QInv, PosInv, BatchInv, WorkerInv, Settles,
           AdmitWaiting \/ AdmitRaises \/ ResumePreempted, UNCHANGED <<loopVars, workerVars>>
    PROVE  WorkerInv'
<1>1. PICK r : r = Head(waiting)
  OBVIOUS
<1>2. PICK n : /\ n = NewTokens(r, need'[r]) /\ Allocate(r, NewBlocks(r, n))
               /\ \/ scheduled' = scheduled \cup {PrefillTask(r, computed[r], computed[r] + n)}
                  \/ scheduled' = {} /\ AdmitRaises
               /\ computed' = [computed EXCEPT ![r] = @ + n]
               /\ InWaitingLoop /\ waiting' = Tail(waiting) /\ running' = Append(running, r)
               /\ resched' = resched
               /\ \/ need' = need /\ status[r] = "WAITING"
                  \/ need' = [need EXCEPT ![r] = TotalTokens(r)]
  <2>1. CASE AdmitWaiting
    BY <1>1, <2>1 DEF AdmitWaiting, StartRunning
  <2>2. CASE AdmitRaises
    BY <1>1, <2>2 DEF AdmitRaises
  <2>3. CASE ResumePreempted
    <3>1. /\ InWaitingLoop /\ need' = [need EXCEPT ![r] = TotalTokens(r)] /\ resched' = resched
          /\ StartRunning(r, TotalTokens(r))
      BY <1>1, <2>3 DEF ResumePreempted
    <3>2. need'[r] = TotalTokens(r)
      BY <1>1, <3>1, WaitingHead, ManagerTypes DEF TypeOK
    <3> QED BY <1>1, <3>1, <3>2 DEF StartRunning
  <2> QED BY <2>1, <2>2, <2>3
<1>3. /\ r \in Members(waiting) /\ r \notin Members(running) /\ r \in Requests
      /\ Members(waiting') = Members(waiting) \ {r}
      /\ Members(running') = Members(running) \cup {r}
  BY <1>1, <1>2, QueueMoves, WaitingHead DEF TypeOK
<1>t. /\ block_tables \in [Requests -> SUBSET Blocks] /\ computed \in [Requests -> Nat]
      /\ need \in [Requests -> Nat] /\ TotalTokens(r) \in Nat
      /\ tasks_list \in [Slots -> ReqOrNone] /\ stopped \subseteq Slots
  BY <1>3, ManagerTypes, TokenCounts DEF TypeOK
<1>4. /\ need'[r] = TotalTokens(r)
      /\ \A q \in Requests : q # r => need'[q] = need[q]
  <2>1. CASE need' = need /\ status[r] = "WAITING"
    <3>1. need[r] = Prompt[r] /\ output[r] = 0 /\ Prompt[r] \in Nat
      BY <1>3, <2>1, RequestAssumption DEF PosInv, NewRequests
    <3> QED BY <2>1, <3>1 DEF TotalTokens
  <2>2. CASE need' = [need EXCEPT ![r] = TotalTokens(r)]
    BY <2>2, <1>3, <1>t
  <2> QED BY <1>2, <2>1, <2>2
<1>5. n \in Int /\ computed[r] + n \in Nat
  BY <1>2, <1>3, <1>4, <1>t, NewTokensType DEF TypeOK, InWaitingLoop
<1>6. /\ computed'[r] = computed[r] + n
      /\ \A q \in Requests : q # r => computed'[q] = computed[q]
      /\ \A q \in Requests : q # r => block_tables'[q] = block_tables[q]
  BY <1>2, <1>3, <1>t, GivenBlocks
<1>7. /\ block_tables[r] \subseteq block_tables'[r]
      /\ computed[r] + n <= BlockSize * Cardinality(block_tables'[r])
  BY <1>2, <1>3, <1>5, ChunkFits
<1>8. /\ queue = Nothing /\ queue' = Nothing
      /\ \A t \in scheduled : t.req # r /\ t.type # "PREEMPTED"
  <2>1. spc = "wait"
    BY <1>2 DEF InWaitingLoop
  <2>2. queue = Nothing
    BY <2>1, WhileScheduling
  <2>3. \A t \in scheduled : t.type # "PREEMPTED" /\ t.req \in Members(running)
    BY <2>1 DEF BatchInv, SchedulePhase
  <2> QED BY <1>3, <2>2, <2>3 DEF loopVars
<1>9. PICK new : /\ scheduled' \subseteq scheduled \cup {new} /\ new.type = "PREFILL"
                 /\ new.req = r /\ new.end = computed'[r]
  <2> DEFINE p == PrefillTask(r, computed[r], computed[r] + n)
  <2>1. p.type = "PREFILL" /\ p.req = r /\ p.end = computed'[r]
    BY <1>6 DEF PrefillTask
  <2>2. scheduled' \subseteq scheduled \cup {p}
    BY <1>2
  <2> HIDE DEF p
  <2> QED BY <2>1, <2>2
<1>10. Prefilling(r)
  BY <1>3 DEF Prefilling
<1>11. \A s \in Slots : Active(slot[s]) => tasks_list'[s] = tasks_list[s]
  <2>1. tasks_list' = tasks_list \/ \E pos \in stopped : tasks_list' = [tasks_list EXCEPT ![pos] = r]
    BY <1>1 DEF AdmitWaiting, AdmitRaises, ResumePreempted, slotVars
  <2>2. \A pos \in stopped : tasks_list[pos] = NoReq
    BY <1>t DEF PosInv, PositionsAgree
  <2>3. \A s \in Slots : Active(slot[s]) => tasks_list[s] # NoReq
    BY RequestAssumption DEF WorkerInv, Owner
  <2> QED BY <1>t, <2>1, <2>2, <2>3
<1>12. UNCHANGED <<slot, wbsz, output>>
  BY DEF AdmitWaiting, AdmitRaises, ResumePreempted, workerVars
<1>13. /\ Members(running) \subseteq Members(running')
       /\ Members(running') \subseteq Members(running) \cup {r}
       /\ Members(waiting') \subseteq Members(waiting)
  BY <1>3
<1>14. /\ \A t \in scheduled : t.req # r /\ (t.type = "PREEMPTED" => t \in scheduled')
       /\ \A t \in scheduled' : t \in scheduled \/ t.req = r
       /\ \A t \in scheduled' : t.req = r => t.type = "PREFILL" /\ t.end = computed'[r]
  BY <1>8, <1>9
<1> QED BY <1>3, <1>4, <1>6, <1>7, <1>8, <1>10, <1>11, <1>12, <1>13, <1>14, GrantStep

(* The loops end; the second may leave need_prefill_tokens updated. *)
LEMMA WorkerLoopEnds ==
    ASSUME TypeOK, QInv, PosInv, BatchInv, WorkerInv, Settles,
           RunningLoopEnds \/ WaitingLoopEnds, UNCHANGED <<loopVars, workerVars>>
    PROVE  WorkerInv'
<1>1. UNCHANGED <<slot, wbsz, tasks_list, block_tables, computed, running, waiting,
                  scheduled, queue, output>>
  BY DEF RunningLoopEnds, WaitingLoopEnds, poolVars, reqVars, queueVars, slotVars, workerVars,
         loopVars
<1>2. CASE need' = need
  BY <1>1, <1>2, QuietStep
<1>3. CASE need' # need
  <2>1. PICK r : r = Head(waiting)
    OBVIOUS
  <2>2. PICK k : need' = [need EXCEPT ![r] = k] /\ InWaitingLoop
    BY <1>3, <2>1 DEF RunningLoopEnds, WaitingLoopEnds, reqVars
  <2>3. spc = "wait" /\ waiting # << >>
    BY <2>2 DEF InWaitingLoop
  <2>4. r \in Members(waiting) /\ r \in Requests /\ r \notin Members(running)
    <3>1. waiting \in Seq(Requests)
      BY ManagerTypes
    <3>2. r = waiting[1] /\ 1 \in 1 .. Len(waiting)
      BY <2>1, <2>3, <3>1
    <3> QED BY <3>1, <3>2 DEF Members, QInv, OneQueue
  <2>5. queue = Nothing /\ queue' = Nothing
    BY <1>1, <2>3, WhileScheduling
  <2>6. \A t \in scheduled : t.req # r
    BY <2>3, <2>4 DEF BatchInv, SchedulePhase
  <2>7. Members(running') = Members(running) /\ Members(waiting') = Members(waiting)
    BY <1>1
  <2>8. \A q \in Requests : q # r => need'[q] = need[q]
    BY <2>2, ManagerTypes
  <2>9. Prefilling(r)
    BY <2>4 DEF Prefilling
  <2>10. /\ \A q \in Requests : block_tables'[q] = block_tables[q] /\ computed'[q] = computed[q]
         /\ \A s \in Slots : tasks_list'[s] = tasks_list[s]
    BY <1>1
  <2> QED BY <1>1, <2>4, <2>5, <2>6, <2>7, <2>8, <2>9, <2>10, GrantStep
<1> QED BY <1>2, <1>3

-----------------------------------------------------------------------------
(* A request is put into the waiting list: nothing of it is on the way. *)
LEMMA WaitStep ==
    ASSUME TypeOK, WorkerInv, Settles, NEW r \in Requests,
           UNCHANGED <<slot, wbsz, tasks_list, block_tables, computed, need, running,
                       scheduled, queue, output>>,
           Members(waiting') \subseteq Members(waiting) \cup {r},
           r \notin Members(finishing), ~InFlight(r),
           \A s \in Slots : CanYield(slot[s]) /\ slot[s].req = r => slot[s].step /\ Leaving(s)
    PROVE  WorkerInv'
<1>1. NextTasks' = NextTasks /\ Batch' = Batch
  BY DEF NextTasks, Batch
<1>2. Members(running') = Members(running)
  OBVIOUS
<1>3. /\ \A s \in Slots : Leaving(s)' <=> Leaving(s)
      /\ \A q \in Requests : Filling(q)' <=> Filling(q)
  BY <1>1 DEF Leaving, Filling
<1>4. \A q \in Requests : Prefilling(q)' => Prefilling(q) \/ q = r
  BY <1>2, <1>3 DEF Prefilling
<1>5. DecodeFits' /\ PrefillFits'
  BY <1>1, <1>2 DEF WorkerInv, DecodeFits, PrefillFits
<1>6. NeedIsTotal'
  BY <1>2, <1>3, ManagerTypes DEF WorkerInv, NeedIsTotal, TotalTokens
<1>7. \A s \in Slots : Active(slot[s]) /\ ~Leaving(s) =>
          /\ slot[s].req \in Members(running')
          /\ block_tables[slot[s].req] \subseteq block_tables'[slot[s].req]
  BY <1>2 DEF WorkerInv, Owner
<1> QED BY <1>3, <1>4, <1>5, <1>6, <1>7, WorkerKeeps

(* add_request: a new request has no position. *)
LEMMA WorkerAdds ==
    ASSUME TypeOK, QInv, PosInv, TokInv, WorkerInv, Settles, FetchAdd
    PROVE  WorkerInv'
<1>1. PICK r : r = Head(fetched)
  OBVIOUS
<1>2. /\ UNCHANGED <<slot, wbsz, tasks_list, block_tables, computed, need, running,
                     scheduled, queue, output>>
      /\ waiting' = Append(waiting, r) /\ fetched # Nothing /\ fetched # << >>
  BY <1>1 DEF FetchAdd, AddRequest, poolVars, reqVars, slotVars, schedVars, loopVars, workerVars
<1>3. r \in Requests /\ r \in Members(InHand)
  <2>1. fetched \in Seq(Requests)
    BY <1>2 DEF TypeOK
  <2>2. r = fetched[1] /\ 1 \in 1 .. Len(fetched)
    BY <1>1, <1>2, <2>1
  <2> QED BY <1>2, <2>1, <2>2 DEF InHand, Members
<1>4. status[r] = "WAITING" /\ idx[r] = NoSlot /\ r \notin Members(waiting) /\ Once(waiting)
  BY <1>3 DEF QInv, NotYetQueued, PosInv, NewRequests, Queued, OneQueue, Once
<1>5. Members(waiting') = Members(waiting) \cup {r}
  BY <1>2, <1>3, <1>4, ManagerTypes, OnceAppend
<1>6. \A s \in Slots : tasks_list[s] # r
  BY <1>3, <1>4, RequestAssumption DEF PosInv, PositionsAgree
<1>7. r \notin Members(finishing)
  BY <1>4 DEF PosInv, NewRequests
<1>8. ~InFlight(r)
  BY <1>6 DEF InFlight, Carries, TokInv, Credited
<1>9. \A s \in Slots : CanYield(slot[s]) => slot[s].req # r
  BY <1>6 DEF WorkerInv, Owner, Active, CanYield
<1> QED BY <1>2, <1>3, <1>5, <1>7, <1>8, <1>9, WaitStep

(* A preempted request is put back, drained. *)
LEMMA WorkerReschedules ==
    ASSUME TypeOK, QInv, PosInv, WorkerInv, Settles, NEW r \in Requests, Reschedule(r),
           ~premature', tmsg # Nothing, UNCHANGED <<loopVars, workerVars>>
    PROVE  WorkerInv'
<1>1. /\ UNCHANGED <<slot, wbsz, tasks_list, block_tables, computed, need, running,
                     scheduled, queue, output>>
      /\ r \notin resched \/ r \notin requests => waiting' = waiting
      /\ r \in resched /\ r \in requests => waiting' = <<r>> \o waiting
  BY DEF Reschedule, ReschedulePreemptTask, poolVars, reqVars, slotVars, schedVars, loopVars,
         workerVars
<1>2. CASE r \notin resched \/ r \notin requests
  BY <1>1, <1>2, QuietStep
<1>3. CASE r \in resched /\ r \in requests
  <2>1. ~NotDrained(r)
    BY <1>3 DEF Reschedule
  <2>2. /\ r \notin Members(waiting) /\ Once(waiting) /\ waiting \in Seq(Requests)
        /\ r \notin Members(running)
    BY <1>3, ManagerTypes DEF QInv, OneQueue, Once
  <2>3. Members(waiting') = Members(waiting) \cup {r}
    BY <1>1, <1>3, <2>2, OncePrepend
  <2>4. r \notin Members(finishing)
    BY <2>1 DEF NotDrained
  <2>5. ~InFlight(r)
    BY <2>1 DEF NotDrained, InFlight, Carries
  <2>6. ASSUME NEW s \in Slots, CanYield(slot[s]), slot[s].req = r
        PROVE  slot[s].step /\ Leaving(s)
    <3>1. Active(slot[s]) /\ tasks_list[s] = r /\ (~Leaving(s) => r \in Members(running))
      BY <2>6 DEF WorkerInv, Owner, Active, CanYield
    <3>2. idx[r] = s
      BY <3>1, RequestAssumption DEF PosInv, PositionsAgree
    <3>3. ~slot[s].live
      BY <2>1, <2>6, <3>2 DEF NotDrained
    <3> QED BY <2>2, <2>6, <3>1, <3>3 DEF CanYield
  <2> QED BY <1>1, <2>3, <2>4, <2>5, <2>6, WaitStep
<1> QED BY <1>2, <1>3

(* finish_requests: the position of the request is not active any more. *)
LEMMA WorkerFinish ==
    ASSUME TypeOK, QInv, PosInv, BatchInv, WorkerInv, Settles, Finish
    PROVE  WorkerInv'
<1>1. PICK r : r = Head(finishing)
  OBVIOUS
<1>2. /\ FinishRequests(r) /\ UNCHANGED <<slot, wbsz, queue>> /\ finishing # << >>
  BY <1>1 DEF Finish, workerVars, loopVars
<1>3. r \in Requests /\ r \in Members(finishing)
  <2>1. finishing \in Seq(Requests)
    BY DEF TypeOK
  <2>2. r = finishing[1] /\ 1 \in 1 .. Len(finishing)
    BY <1>1, <1>2, <2>1
  <2> QED BY <2>1, <2>2 DEF Members
<1>4. /\ waiting' = waiting /\ UNCHANGED <<computed, need, output, schedVars>>
      /\ Members(running') \subseteq Members(running)
      /\ Members(running) \ {r} \subseteq Members(running')
      /\ \A q \in Requests : q # r => block_tables'[q] = block_tables[q]
      /\ \A s \in Slots : tasks_list'[s] = tasks_list[s]
                          \/ (tasks_list'[s] = NoReq /\ tasks_list[s] = r)
  BY <1>2, <1>3, FinishEffect
<1>5. NextTasks' = NextTasks /\ Batch' = Batch /\ \A t \in Batch : t.req \in Requests
  BY <1>2, <1>4, BatchTypes DEF NextTasks, Batch, schedVars
<1>6. /\ Owner /\ DecodeFits /\ PrefillFits /\ NeedIsTotal /\ Ended /\ Drained
  BY DEF WorkerInv
<1>7. \A s \in Slots : Active(slot[s]) => slot[s].req # r /\ tasks_list[s] # r
  BY <1>3, <1>6 DEF Ended, Ending, Owner
<1>8. ~Prefilling(r) /\ ~Filling(r)
  BY <1>3, <1>6 DEF Drained, Prefilling
<1>9. /\ \A s \in Slots : Leaving(s)' <=> Leaving(s)
      /\ \A q \in Requests : Filling(q)' <=> Filling(q)
  BY <1>5 DEF Leaving, Filling
<1>10. Members(waiting') = Members(waiting)
  BY <1>4
<1>11. \A q \in Requests : Prefilling(q)' => Prefilling(q)
  BY <1>4, <1>9, <1>10 DEF Prefilling
<1>12. DecodeFits'
  <2> SUFFICES ASSUME NEW t \in Batch, t.type = "DECODE", t.slot # NoSlot, Active(slot[t.slot])
               PROVE  /\ slot[t.slot].req = t.req /\ slot[t.slot].blk \subseteq t.blk
                      /\ t.blk \subseteq block_tables'[t.req]
    BY <1>2, <1>5 DEF DecodeFits
  <2>1. t.slot \in Slots
    <3>1. t.slot = idx[t.req] /\ t.req \in Requests
      BY <1>5 DEF BatchInv, BatchSlots, Batch
    <3> QED BY <3>1, ManagerTypes DEF SlotOrNone
  <2>2. t.req # r
    BY <2>1, <1>6, <1>7 DEF DecodeFits
  <2> QED BY <2>2, <1>4, <1>5, <1>6 DEF DecodeFits
<1>13. PrefillFits'
  <2> SUFFICES ASSUME NEW t \in Batch, t.type = "PREFILL"
               PROVE  /\ t.req \in Members(running') /\ t.end = computed[t.req]
                      /\ t.end <= BlockSize * Cardinality(block_tables'[t.req])
                      /\ t \in NextTasks => t.total = need[t.req] /\ t.blk = block_tables'[t.req]
    BY <1>4, <1>5 DEF PrefillFits
  <2>1. t.req # r
    BY <1>8 DEF Filling
  <2> QED BY <2>1, <1>4, <1>5, <1>6 DEF PrefillFits
<1>14. NeedIsTotal'
  BY <1>4, <1>6, <1>9, ManagerTypes DEF NeedIsTotal, TotalTokens
<1>15. \A s \in Slots : Active(slot[s]) /\ ~Leaving(s) =>
          /\ slot[s].req \in Members(running')
          /\ block_tables[slot[s].req] \subseteq block_tables'[slot[s].req]
  BY <1>4, <1>6, <1>7 DEF Owner
<1>16. \A s \in Slots : Active(slot[s]) => tasks_list'[s] = tasks_list[s]
  BY <1>4, <1>7
<1> QED BY <1>2, <1>9, <1>11, <1>12, <1>13, <1>14, <1>15, <1>16, WorkerKeeps

(* Every step but the worker's. *)
LEMMA WorkerPreserved ==
    ASSUME TypeOK, ReadInRange, BlocksConserved, QInv, PosInv, BatchInv, TokInv, WorkerInv,
           [Next]_vars, ~WorkerPass, ~premature'
    PROVE  WorkerInv'
<1>0. Settles
  BY TokPreserved
<1>1. CASE \/ LoopTop \/ LoopFetch \/ LoopSchedule \/ FetchTake \/ FetchEnd \/ TokenTake
           \/ TokenScan \/ UNCHANGED vars
  <2>1. UNCHANGED <<slot, wbsz, tasks_list, block_tables, computed, need, running, waiting,
                    queue, output>>
    BY <1>1 DEF LoopTop, LoopFetch, LoopSchedule, ScheduleBegin, FetchTake, FetchEnd, TokenTake,
                TokenScan, vars, rmVars, poolVars, reqVars, queueVars, slotVars, workerVars,
                loopVars
  <2>2. scheduled' = scheduled
    <3>1. CASE LoopSchedule
      BY <3>1 DEF LoopSchedule, ScheduleBegin, BatchInv, SchedulePhase
    <3>2. CASE ~LoopSchedule
      BY <1>1, <3>2 DEF LoopTop, LoopFetch, FetchTake, FetchEnd, TokenTake, TokenScan, vars,
                        rmVars, schedVars
    <3> QED BY <3>1, <3>2
  <2> QED BY <1>0, <2>1, <2>2, QuietStep
<1>2. CASE LoopScheduleStep
  <2>1. ScheduleStep /\ UNCHANGED <<loopVars, workerVars>>
    BY <1>2 DEF LoopScheduleStep
  <2> QED BY <1>0, <2>1, WorkerDecode, WorkerPrefill, WorkerPreempt, WorkerStart, WorkerLoopEnds
          DEF ScheduleStep
<1>3. CASE LoopSend
  BY <1>0, <1>3, SendStep
<1>4. CASE FetchAdd
  BY <1>0, <1>4, WorkerAdds
<1>5. ASSUME NEW r \in Requests, TokenLookAt(r) PROVE WorkerInv'
  <2>1. UNCHANGED <<loopVars, workerVars>> /\ tmsg # Nothing /\ (UNCHANGED rmVars \/ Reschedule(r))
    BY <1>5 DEF TokenLookAt
  <2>2. CASE UNCHANGED rmVars
    <3>1. UNCHANGED <<slot, wbsz, tasks_list, block_tables, computed, need, running, waiting,
                      scheduled, queue, output>>
      BY <2>1, <2>2 DEF rmVars, poolVars, reqVars, queueVars, slotVars, schedVars, workerVars,
                        loopVars
    <3> QED BY <1>0, <3>1, QuietStep
  <2> QED BY <1>0, <2>1, <2>2, WorkerReschedules
<1>6. CASE TokenRead
  <2>1. PICK r : r = tasks_list[tslot]
    OBVIOUS
  <2>2. /\ UNCHANGED <<loopVars, workerVars>> /\ tmsg # Nothing
        /\ \/ UNCHANGED rmVars
           \/ r # NoReq /\ Reschedule(r)
           \/ UNCHANGED <<poolVars, reqVars, queueVars, slotVars, schedVars>>
    BY <1>6, <2>1 DEF TokenRead
  <2>3. CASE r # NoReq /\ Reschedule(r)
    <3>1. tslot \in Slots
      <4>1. tmsg \in Messages /\ tslot \in Nat /\ tslot < tmsg.bsz
        BY <1>6, <2>2 DEF TypeOK, TokenRead, ReadInRange
      <4> QED BY <4>1, PoolAssumption DEF Messages, Slots
    <3>2. r \in Requests
      BY <2>1, <2>3, <3>1, ManagerTypes DEF ReqOrNone
    <3> QED BY <1>0, <2>2, <2>3, <3>2, WorkerReschedules
  <2>4. CASE UNCHANGED rmVars \/ UNCHANGED <<poolVars, reqVars, queueVars, slotVars, schedVars>>
    <3>1. UNCHANGED <<slot, wbsz, tasks_list, block_tables, computed, need, running, waiting,
                      scheduled, queue>>
      BY <2>2, <2>4 DEF rmVars, poolVars, reqVars, queueVars, slotVars, schedVars, workerVars,
                        loopVars
    <3>2. \A q \in Requests : output'[q] = output[q] \/ InFlight(q)
      BY <1>6, TokRead
    <3> QED BY <1>0, <3>1, <3>2, QuietStep
  <2> QED BY <2>2, <2>3, <2>4
<1>7. CASE Finish
  BY <1>0, <1>7, WorkerFinish
<1> QED BY <1>1, <1>2, <1>3, <1>4, <1>5, <1>6, <1>7 DEF Next

-----------------------------------------------------------------------------
(* A pass of the worker.  Once it has taken the batch from the task queue,   *)
(* what is left of the tasks is what schedule() is preparing.                *)
StillLeaving(s) == \E t \in scheduled : t.type = "PREEMPTED" /\ t.slot = s
StillPrefilling(r) ==
    \/ r \in Members(waiting)
    \/ r \in Members(running) /\ computed[r] < need[r]
    \/ \E t \in scheduled : t.type = "PREFILL" /\ t.req = r

(* A position in order for the next model step. *)
InPlace(s, w) ==
    Active(w) => /\ w.req \in Requests /\ tasks_list[s] = w.req /\ s < NextBsz /\ ~Ending(w.req)
                 /\ ~StillLeaving(s) => /\ w.req \in Members(running)
                                        /\ w.blk \subseteq block_tables[w.req]
InBlocks(w) == w.live => ~w.step /\ w.pos + w.len <= BlockSize * Cardinality(w.blk)
Yields(s, w) == CanYield(w) /\ StillPrefilling(w.req) => w.step /\ StillLeaving(s)

LEMMA StillTypes ==
    ASSUME TypeOK, BatchInv
    PROVE  /\ queue # Nothing => scheduled = {} /\ Batch = NextTasks
           /\ queue = Nothing => NextTasks = {} /\ Batch = scheduled
           /\ \A s : StillLeaving(s) => Leaving(s)
           /\ \A r : StillPrefilling(r) => Prefilling(r)
<1>1. queue # Nothing => scheduled = {}
  BY DEF BatchInv, SchedulePhase
<1>2. queue = Nothing => NextTasks = {}
  BY DEF NextTasks
<1> QED BY <1>1, <1>2 DEF Batch, StillLeaving, StillPrefilling, Leaving, Prefilling, Filling

(* No task for the position. *)
LEMMA NoTaskTaken ==
    ASSUME TypeOK, PosInv, BatchInv, WorkerInv, NEW s \in Slots,
           ~ \E t \in NextTasks : t.slot = s
    PROVE  /\ Inserted(s, NextTasks) = slot[s]
           /\ InPlace(s, slot[s]) /\ InBlocks(slot[s]) /\ Yields(s, slot[s])
           /\ slot[s].step => slot[s].pos \div BlockSize >= Cardinality(slot[s].blk)
<1>1. Inserted(s, NextTasks) = slot[s]
  BY DEF Inserted
<1>2. Leaving(s) <=> StillLeaving(s)
  BY DEF Leaving, StillLeaving, Batch
<1>3. Active(slot[s]) => s < NextBsz
  <2> SUFFICES ASSUME Active(slot[s]) PROVE s < NextBsz
    OBVIOUS
  <2>1. s < wbsz /\ tasks_list[s] # NoReq
    BY RequestAssumption DEF WorkerInv, Owner
  <2>2. s \in Slots \ stopped
    BY <2>1 DEF PosInv, PositionsAgree
  <2> QED BY <2>1, <2>2 DEF NextBsz, BatchInv, BatchSlots
<1>4. InPlace(s, slot[s])
  BY <1>2, <1>3 DEF InPlace, WorkerInv, Owner, Ended
<1>5. InBlocks(slot[s]) /\ (slot[s].step => slot[s].pos \div BlockSize >= Cardinality(slot[s].blk))
  BY DEF InBlocks, WorkerInv, Shape
<1>6. Yields(s, slot[s])
  BY <1>2, StillTypes DEF Yields, WorkerInv, NoYield
<1> QED BY <1>1, <1>4, <1>5, <1>6

(* insert_tasks_v1 on a position with a task. *)
LEMMA TaskTaken ==
    ASSUME TypeOK, QInv, PosInv, BatchInv, WorkerInv, NEW s \in Slots,
           \E t \in NextTasks : t.slot = s
    PROVE  LET w == Inserted(s, NextTasks)
           IN  /\ InPlace(s, w) /\ InBlocks(w) /\ Yields(s, w)
               /\ w.step => ModelRuns \/ w.pos \div BlockSize >= Cardinality(w.blk)
<1> DEFINE c == CHOOSE t \in NextTasks : t.slot = s
<1>0. PICK t : t = c
  OBVIOUS
<1>1. t \in NextTasks /\ t.slot = s
  BY <1>0
<1>2. Inserted(s, NextTasks) =
        CASE t.type = "PREFILL" ->
                [live |-> TRUE, hit |-> FALSE, step |-> FALSE, blk |-> t.blk, pos |-> t.start,
                 len |-> t.end - t.start, plen |-> t.total,
                 out |-> IF t.end >= t.total THEN t.out ELSE 0, req |-> t.req]
          [] t.type = "DECODE" -> [slot[s] EXCEPT !.blk = t.blk]
          [] t.type = "PREEMPTED" ->
                [slot[s] EXCEPT !.blk = {}, !.live = FALSE, !.len = 0,
                                !.pos = 0, !.step = FALSE]
  BY <1>0 DEF Inserted
<1> HIDE DEF c
<1>3. /\ NextTasks # {} /\ queue # Nothing /\ scheduled = {} /\ Batch = NextTasks
      /\ \A q : ~StillLeaving(q)
  BY <1>1, StillTypes DEF NextTasks, StillLeaving
<1>4. /\ idx[t.req] = s /\ t.req \in Requests /\ s # NoSlot
      /\ \A u \in NextTasks : u.slot = s => u = t
  BY <1>1, <1>3, BatchTypes, RequestAssumption DEF BatchInv, BatchSlots
<1>5. t.req \in Members(running) => tasks_list[s] = t.req
  BY <1>4 DEF PosInv, PositionsAgree, Queued
<1>6. tasks_list[s] # NoReq => s < NextBsz
  BY <1>3 DEF PosInv, PositionsAgree, BatchInv, BatchSlots, NextBsz
<1>7. slot[s] \in SlotStates /\ t \in SentTasks
  BY <1>1, WorkerTypes, BatchTypes
<1>8. CASE t.type = "PREFILL"
  <2>1. PICK w : w = Inserted(s, NextTasks)
    OBVIOUS
  <2>2. /\ w.live = TRUE /\ w.step = FALSE /\ w.blk = t.blk /\ w.pos = t.start
        /\ w.len = t.end - t.start /\ w.plen = t.total /\ w.req = t.req
    BY <1>2, <1>8, <2>1
  <2>3. /\ t.req \in Members(running) /\ t.end = computed[t.req]
        /\ t.end <= BlockSize * Cardinality(block_tables[t.req])
        /\ t.total = need[t.req] /\ t.blk = block_tables[t.req]
    BY <1>1, <1>3, <1>8 DEF WorkerInv, PrefillFits
  <2>4. t.start \in Nat /\ t.end \in Nat
    BY <1>7, <1>8 DEF SentTasks, DecodeTasks, PreemptTasks
  <2>5. w.pos + w.len = t.end
    BY <2>2, <2>4
  <2>6. Prefilling(t.req)
    BY <1>1, <1>3, <1>8 DEF Prefilling, Filling
  <2>7. ~Ending(t.req)
    BY <1>4, <2>6, EosIsToken DEF WorkerInv, Drained, Ending
  <2>8. tasks_list[s] = t.req /\ s < NextBsz
    BY <1>4, <1>5, <1>6, <2>3, RequestAssumption
  <2>9. InPlace(s, w)
    BY <1>4, <2>2, <2>3, <2>7, <2>8 DEF InPlace
  <2>10. InBlocks(w)
    BY <2>2, <2>3, <2>5 DEF InBlocks
  <2>11. Yields(s, w)
    <3> SUFFICES ASSUME w.pos + w.len >= w.plen, StillPrefilling(t.req) PROVE FALSE
      BY <2>2 DEF Yields, CanYield
    <3>1. computed[t.req] >= need[t.req]
      BY <2>2, <2>3, <2>5
    <3>2. t.req \notin Members(waiting)
      BY <2>3 DEF QInv, OneQueue
    <3>3. computed[t.req] \in Nat /\ need[t.req] \in Nat
      BY <1>4, ManagerTypes
    <3> QED BY <1>3, <3>1, <3>2, <3>3 DEF StillPrefilling
  <2> QED BY <2>1, <2>2, <2>9, <2>10, <2>11
<1>9. CASE t.type = "DECODE"
  <2>1. PICK w : w = Inserted(s, NextTasks)
    OBVIOUS
  <2>2. w = [slot[s] EXCEPT !.blk = t.blk]
    BY <1>2, <1>9, <2>1
  <2>3. /\ w.live = slot[s].live /\ w.step = slot[s].step /\ w.pos = slot[s].pos /\ w.blk = t.blk
        /\ w.len = slot[s].len /\ w.plen = slot[s].plen /\ w.req = slot[s].req
    BY <1>7, <2>2 DEF SlotStates
  <2>4. (Active(w) <=> Active(slot[s])) /\ (CanYield(w) <=> CanYield(slot[s]))
    BY <2>3 DEF Active, CanYield
  <2>5. ~Leaving(s)
    BY <1>3, <1>4, <1>9 DEF Leaving
  <2>6. Active(w) => /\ slot[s].req = t.req /\ slot[s].blk \subseteq t.blk
                     /\ t.blk \subseteq block_tables[t.req]
    BY <1>1, <1>3, <1>4, <1>9, <2>4 DEF WorkerInv, DecodeFits
  <2>7. Active(w) => /\ tasks_list[s] = w.req /\ w.req \in Requests /\ w.req \in Members(running)
                     /\ ~Ending(w.req)
    BY <2>3, <2>4, <2>5 DEF WorkerInv, Owner, Ended
  <2>8. InPlace(s, w)
    BY <1>6, <2>3, <2>6, <2>7, RequestAssumption DEF InPlace
  <2>9. InBlocks(w)
    <3> SUFFICES ASSUME w.live PROVE ~w.step /\ w.pos + w.len <= BlockSize * Cardinality(w.blk)
      BY DEF InBlocks
    <3>1. ~slot[s].step /\ slot[s].pos + slot[s].len <= BlockSize * Cardinality(slot[s].blk)
      BY <2>3 DEF WorkerInv, Shape
    <3>2. slot[s].blk \subseteq t.blk /\ t.blk \subseteq Blocks /\ slot[s].blk \subseteq Blocks
      BY <1>4, <1>7, <2>6, ManagerTypes DEF Active, SlotStates
    <3>3. /\ Cardinality(slot[s].blk) \in Nat /\ Cardinality(t.blk) \in Nat
          /\ Cardinality(slot[s].blk) <= Cardinality(t.blk)
      BY <3>2, BlocksFinite
    <3>4. BlockSize * Cardinality(slot[s].blk) <= BlockSize * Cardinality(t.blk)
      BY <3>3, BlockArithmetic
    <3>5. /\ BlockSize * Cardinality(slot[s].blk) \in Int /\ BlockSize * Cardinality(t.blk) \in Int
          /\ slot[s].pos + slot[s].len \in Int
      BY <1>7, <3>3, BlockArithmetic DEF SlotStates
    <3> QED BY <2>3, <3>1, <3>4, <3>5
  <2>10. Yields(s, w)
    <3>1. CanYield(slot[s]) => ~Prefilling(slot[s].req)
      BY <2>5 DEF WorkerInv, NoYield
    <3> QED BY <2>3, <2>4, <3>1, StillTypes DEF Yields
  <2>11. w.step => ModelRuns
    <3>1. w.step => WakesModel(t)
      BY <1>1, <1>9, <2>3 DEF WakesModel
    <3> QED BY <1>1, <1>4, <3>1 DEF ModelRuns
  <2> QED BY <2>1, <2>8, <2>9, <2>10, <2>11
<1>10. CASE t.type = "PREEMPTED"
  <2>1. PICK w : w = Inserted(s, NextTasks)
    OBVIOUS
  <2>2. w = [slot[s] EXCEPT !.blk = {}, !.live = FALSE, !.len = 0, !.pos = 0, !.step = FALSE]
    BY <1>2, <1>10, <2>1
  <2>3. w.live = FALSE /\ w.step = FALSE
    BY <1>7, <2>2 DEF SlotStates
  <2> QED BY <2>1, <2>3 DEF InPlace, InBlocks, Yields, Active, CanYield
<1> QED BY <1>1, <1>3, <1>8, <1>9, <1>10, BatchTypes

(* recover_decode_task: every position as the model step finds it. *)
LEMMA InputInOrder ==
    ASSUME TypeOK, QInv, PosInv, BatchInv, WorkerInv, NEW s \in Slots
    PROVE  LET w == StepInput[s]
           IN  /\ w \in SlotStates
               /\ InPlace(s, w) /\ InBlocks(w) /\ Yields(s, w)
               /\ w.step => w.pos \div BlockSize >= Cardinality(w.blk)
               /\ queue = Nothing => w = slot[s]
<1>1. PICK v : v = Inserted(s, NextTasks)
  OBVIOUS
<1>2. PICK w : w = StepInput[s]
  OBVIOUS
<1>3. w = v \/ (ModelRuns /\ s \in 0 .. NextBsz - 1 /\ w = Recovered(v))
  BY <1>1, <1>2 DEF StepInput
<1>4. ModelRuns /\ s \in 0 .. NextBsz - 1 => w = Recovered(v)
  BY <1>1, <1>2 DEF StepInput
<1>5. v \in SlotStates
  BY <1>1, InsertedType, WorkerTypes, BatchTypes
<1>6. w \in SlotStates
  BY <1>3, <1>5, RecoveredType
<1>7. v.blk \subseteq Blocks /\ v.pos \in Int /\ v.pos \div BlockSize \in Int
  BY <1>5, BlockArithmetic DEF SlotStates
<1>8. Cardinality(v.blk) \in Nat
  BY <1>7, BlocksFinite
<1>9. NextBsz \in Nat /\ s \in Nat
  BY WorkerTypes, PoolAssumption DEF NextBsz, TypeOK, Batches, Slots
<1>10. CASE ~ \E t \in NextTasks : t.slot = s
  <2>1. /\ v = slot[s] /\ InPlace(s, v) /\ InBlocks(v) /\ Yields(s, v)
        /\ v.step => v.pos \div BlockSize >= Cardinality(v.blk)
    BY <1>1, <1>10, NoTaskTaken
  <2>2. w = v
    BY <1>3, <1>7, <1>8, <2>1 DEF Recovered
  <2> QED BY <1>2, <1>6, <2>1, <2>2
<1>11. CASE \E t \in NextTasks : t.slot = s
  <2>1. /\ InPlace(s, v) /\ InBlocks(v) /\ Yields(s, v)
        /\ v.step => ModelRuns \/ v.pos \div BlockSize >= Cardinality(v.blk)
    BY <1>1, <1>11, TaskTaken
  <2>2. queue # Nothing /\ ~StillLeaving(s)
    <3>1. NextTasks # {}
      BY <1>11
    <3> QED BY <3>1, StillTypes DEF NextTasks, StillLeaving
  <2>3. CASE v.step /\ v.pos \div BlockSize < Cardinality(v.blk)
    <3>1. ModelRuns
      BY <1>7, <1>8, <2>1, <2>3
    <3>2. s \in 0 .. NextBsz - 1
      BY <1>9, <2>1, <2>3 DEF InPlace, Active
    <3>3. w = [v EXCEPT !.step = FALSE, !.len = 1, !.live = TRUE]
      BY <1>4, <2>3, <3>1, <3>2 DEF Recovered
    <3>4. /\ w.live = TRUE /\ w.step = FALSE /\ w.len = 1 /\ w.pos = v.pos /\ w.blk = v.blk
          /\ w.plen = v.plen /\ w.req = v.req
      BY <1>5, <3>3 DEF SlotStates
    <3>5. InPlace(s, w)
      BY <2>1, <2>3, <3>4 DEF InPlace, Active
    <3>6. InBlocks(w)
      BY <1>7, <1>8, <2>3, <3>4, BlockArithmetic DEF InBlocks
    <3>7. Yields(s, w)
      BY <2>1, <2>2, <2>3, <3>4 DEF Yields, CanYield
    <3> QED BY <1>2, <1>6, <2>2, <3>4, <3>5, <3>6, <3>7
  <2>4. CASE ~(v.step /\ v.pos \div BlockSize < Cardinality(v.blk))
    <3>1. w = v
      BY <1>3, <2>4 DEF Recovered
    <3>2. v.step => v.pos \div BlockSize >= Cardinality(v.blk)
      BY <1>7, <1>8, <2>4
    <3> QED BY <1>2, <1>6, <2>1, <2>2, <3>1, <3>2
  <2> QED BY <2>3, <2>4
<1> QED BY <1>10, <1>11

(* No two of them share a block. *)
LEMMA InputDisjoint ==
    ASSUME TypeOK, BlocksConserved, QInv, PosInv, BatchInv, WorkerInv,
           NEW s \in Slots, NEW u \in Slots, s # u, Active(StepInput[s]), Active(StepInput[u])
    PROVE  StepInput[s].blk \cap StepInput[u].blk = {}
<1>1. CASE queue = Nothing
  <2>1. StepInput[s] = slot[s] /\ StepInput[u] = slot[u]
    BY <1>1, InputInOrder
  <2> QED BY <2>1 DEF WorkerInv, Disjoint
<1>2. CASE queue # Nothing
  <2>1. ~StillLeaving(s) /\ ~StillLeaving(u)
    BY <1>2, StillTypes DEF StillLeaving
  <2>2. InPlace(s, StepInput[s]) /\ InPlace(u, StepInput[u])
    BY InputInOrder
  <2>3. /\ StepInput[s].req \in Requests /\ tasks_list[s] = StepInput[s].req
        /\ StepInput[s].blk \subseteq block_tables[StepInput[s].req]
        /\ StepInput[u].req \in Requests /\ tasks_list[u] = StepInput[u].req
        /\ StepInput[u].blk \subseteq block_tables[StepInput[u].req]
    BY <2>1, <2>2 DEF InPlace
  <2>4. StepInput[s].req # StepInput[u].req
    BY <2>3, RequestAssumption DEF PosInv, PositionsAgree
  <2> QED BY <2>3, <2>4 DEF BlocksConserved
<1> QED BY <1>1, <1>2

(* What the invariant says of the next model step. *)
LEMMA FlowImplies ==
    ASSUME TypeOK, BlocksConserved, QInv, PosInv, BatchInv, FlowInv
    PROVE  LiveSlotsDisjoint /\ TokensReachTheirRequest /\ WorkerInBounds
<1>1. CASE premature \/ stray
  BY <1>1 DEF LiveSlotsDisjoint, TokensReachTheirRequest, WorkerInBounds
<1>2. CASE ~premature /\ ~stray
  <2>1. TokInv /\ (crashed \/ WorkerInv)
    BY <1>2 DEF FlowInv
  <2>2. TokensReachTheirRequest
    <3>1. \A s \in Slots : 0 <= s
      BY DEF Slots
    <3> QED BY <2>1, <3>1 DEF TokInv, Credited, TokensReachTheirRequest
  <2>3. ASSUME WorkerInv PROVE LiveSlotsDisjoint /\ WorkerInBounds
    <3>1. \A s, u \in Slots : s # u /\ StepInput[s].live /\ StepInput[u].live =>
              StepInput[s].blk \cap StepInput[u].blk = {}
      BY <2>3, InputDisjoint DEF Active
    <3>2. \A s \in Slots : StepInput[s].live =>
              /\ StepInput[s].pos + StepInput[s].len <= BlockSize * Cardinality(StepInput[s].blk)
              /\ s < NextBsz
      BY <2>3, InputInOrder DEF InPlace, InBlocks, Active
    <3> QED BY <3>1, <3>2 DEF LiveSlotsDisjoint, WorkerInBounds
  <2>4. CASE crashed
    BY <2>2, <2>4 DEF LiveSlotsDisjoint, WorkerInBounds
  <2> QED BY <2>1, <2>2, <2>3, <2>4
<1> QED BY <1>1, <1>2

(* update_inputs_v1: a position that stays active was active and may yield   *)
(* again; it keeps its request and its blocks, and writes within them.       *)
Follows(w, v) ==
    /\ v.req = w.req /\ v.blk = w.blk
    /\ Active(v) => Active(w)
    /\ CanYield(v) => CanYield(w)
    /\ CanYield(v) /\ w.step => v.step
    /\ InBlocks(v)
    /\ v.step => v.pos \div BlockSize >= Cardinality(v.blk)

LEMMA AdvancedFollows ==
    ASSUME NEW w \in SlotStates, InBlocks(w), w.step => w.pos \div BlockSize >= Cardinality(w.blk),
           NEW outcome \in Choices(w), ~IsStray(w, outcome)
    PROVE  /\ Follows(w, Advanced(w, outcome))
           /\ outcome # "none" => w.live /\ CanYield(w)
           /\ outcome \in {"eos", "hit"} => ~Active(Advanced(w, outcome))
<1>t. /\ w.pos \in Int /\ w.len \in Int /\ w.plen \in Nat /\ w.blk \subseteq Blocks
      /\ w.live \in BOOLEAN /\ w.step \in BOOLEAN
  BY DEF SlotStates
<1>c. Cardinality(w.blk) \in Nat
  BY <1>t, BlocksFinite
<1>1. outcome # "none" => w.live /\ w.pos + w.len >= w.plen
  BY <1>t DEF IsStray, MidPrompt
<1>2. outcome # "none" => w.live /\ ~w.step /\ CanYield(w)
  BY <1>1 DEF CanYield, InBlocks
<1>3. PICK v : v = Advanced(w, outcome)
  OBVIOUS
<1>4. CASE outcome # "tok"
  <2>1. /\ v.req = w.req /\ v.blk = w.blk /\ v.live = FALSE /\ v.step = w.step
        /\ v.step => v.pos = w.pos
    BY <1>3, <1>4 DEF Advanced, Stopped, SlotStates
  <2>2. outcome \in {"eos", "hit"} => ~v.step
    BY <1>2, <2>1
  <2> QED BY <1>2, <1>3, <1>4, <2>1, <2>2 DEF Follows, Active, CanYield, InBlocks
<1>5. CASE outcome = "tok"
  <2>1. PICK p : p = w.pos + w.len
    OBVIOUS
  <2>2. v = IF p \div BlockSize >= Cardinality(w.blk)
            THEN [w EXCEPT !.pos = p, !.out = w.out + 1, !.live = FALSE, !.step = TRUE, !.len = 0]
            ELSE [w EXCEPT !.pos = p, !.out = w.out + 1, !.live = TRUE, !.step = FALSE, !.len = 1]
    BY <1>3, <1>5, <2>1 DEF Advanced, OutOfBlocks, DecodingOn, SlotStates
  <2>3. p \in Int /\ p \div BlockSize \in Int
    BY <1>t, <2>1, BlockArithmetic
  <2>4. CASE p \div BlockSize >= Cardinality(w.blk)
    <3>1. v.req = w.req /\ v.blk = w.blk /\ v.live = FALSE /\ v.step = TRUE /\ v.pos = p
      BY <2>2, <2>4 DEF SlotStates
    <3> QED BY <1>2, <1>3, <1>5, <2>4, <3>1 DEF Follows, Active, CanYield, InBlocks
  <2>5. CASE ~(p \div BlockSize >= Cardinality(w.blk))
    <3>1. /\ v.req = w.req /\ v.blk = w.blk /\ v.live = TRUE /\ v.step = FALSE /\ v.pos = p
          /\ v.len = 1
      BY <2>2, <2>5 DEF SlotStates
    <3>2. p + 1 <= BlockSize * Cardinality(w.blk)
      <4>1. p \div BlockSize < Cardinality(w.blk)
        BY <1>c, <2>3, <2>5
      <4>2. \A a \in Int, c \in Nat : a \div BlockSize < c => a + 1 <= BlockSize * c
        BY BlockArithmetic
      <4> QED BY <1>c, <2>3, <4>1, <4>2
    <3> QED BY <1>2, <1>3, <1>5, <3>1, <3>2 DEF Follows, Active, CanYield, InBlocks
  <2> QED BY <2>4, <2>5
<1> QED BY <1>4, <1>5

(* What a pass of the worker that does not crash does. *)
Reports(m) ==
    \A s \in Slots : s < m.bsz /\ m.tok[s] # "none" =>
        /\ StepInput[s].live /\ CanYield(StepInput[s]) /\ m.by[s] = StepInput[s].req
        /\ m.tok[s] = "eos" => ~Active(slot'[s])

LEMMA PassEffect ==
    ASSUME TypeOK, QInv, PosInv, BatchInv, WorkerInv, WorkerPass, ~stray',
           ~ \E t \in NextTasks : t.slot = NoSlot
    PROVE  /\ \A s \in Slots : Follows(StepInput[s], slot'[s])
           /\ msgs' = msgs \/ \E m : msgs' = Append(msgs, m) /\ m \in Messages /\ Reports(m)
           /\ crashed' = crashed
<1>1. \A s \in Slots :
          /\ StepInput[s] \in SlotStates /\ InBlocks(StepInput[s])
          /\ StepInput[s].step =>
                StepInput[s].pos \div BlockSize >= Cardinality(StepInput[s].blk)
  BY InputInOrder
<1>2. crashed' = crashed
  BY DEF WorkerPass
<1>3. CASE ~ModelRuns
  <2>1. slot' = StepInput /\ msgs' = msgs
    BY <1>3 DEF WorkerPass
  <2>2. \A s \in Slots : Follows(StepInput[s], slot'[s])
    BY <1>1, <2>1 DEF Follows
  <2> QED BY <1>2, <2>1, <2>2
<1>4. CASE ModelRuns
  <2> DEFINE part == 0 .. NextBsz - 1
  <2>1. PICK outcome \in [part -> Outcomes] :
            /\ \A s \in part : outcome[s] \in Choices(StepInput[s])
            /\ slot' = [s \in Slots |-> IF s \in part THEN Advanced(StepInput[s], outcome[s])
                                                      ELSE StepInput[s]]
            /\ stray' = (stray \/ \E s \in part : IsStray(StepInput[s], outcome[s]))
            /\ msgs' = Append(msgs, [bsz |-> NextBsz, tok |-> [s \in part |-> Emitted(outcome[s])],
                                     by |-> [s \in part |-> StepInput[s].req]])
    BY <1>4, Zenon DEF WorkerPass
  <2>n. \A s \in part : ~IsStray(StepInput[s], outcome[s])
    BY <2>1
  <2> DEFINE token == [s \in part |-> Emitted(outcome[s])]
  <2>2. part \subseteq Slots /\ NextBsz \in 0 .. MaxSeqs
    <3>1. NextBsz \in 0 .. MaxSeqs
      BY DEF TypeOK, Batches, NextBsz
    <3> QED BY <3>1, PoolAssumption DEF Slots
  <2>3. \A s \in part : /\ Follows(StepInput[s], slot'[s])
                        /\ token[s] # "none" => StepInput[s].live /\ CanYield(StepInput[s])
                        /\ token[s] = "eos" => ~Active(slot'[s])
    <3> SUFFICES ASSUME NEW s \in part
                 PROVE  /\ Follows(StepInput[s], slot'[s])
                        /\ token[s] # "none" => StepInput[s].live /\ CanYield(StepInput[s])
                        /\ token[s] = "eos" => ~Active(slot'[s])
      OBVIOUS
    <3>1. s \in Slots /\ slot'[s] = Advanced(StepInput[s], outcome[s])
      BY <2>1, <2>2
    <3>2. /\ Follows(StepInput[s], Advanced(StepInput[s], outcome[s]))
          /\ outcome[s] # "none" => StepInput[s].live /\ CanYield(StepInput[s])
          /\ outcome[s] \in {"eos", "hit"} => ~Active(Advanced(StepInput[s], outcome[s]))
      BY <1>1, <2>1, <2>n, <3>1, AdvancedFollows
    <3>3. /\ token[s] # "none" => outcome[s] # "none"
          /\ token[s] = "eos" => outcome[s] \in {"eos", "hit"}
      BY DEF Emitted
    <3> QED BY <3>1, <3>2, <3>3
  <2>4. \A s \in Slots \ part : Follows(StepInput[s], slot'[s])
    BY <1>1, <2>1 DEF Follows
  <2>5. PICK m : m = [bsz |-> NextBsz, tok |-> token, by |-> [s \in part |-> StepInput[s].req]]
    OBVIOUS
  <2>6. \A s \in Slots : s < m.bsz => s \in part /\ m.tok[s] = token[s] /\ m.by[s] = StepInput[s].req
    BY <2>2, <2>5 DEF Slots
  <2>7. Reports(m)
    BY <2>3, <2>6 DEF Reports
  <2>8. m \in Messages
    <3>1. \A s \in part : StepInput[s].req \in ReqOrNone
      BY <1>1, <2>2 DEF SlotStates
    <3>2. [s \in part |-> StepInput[s].req] \in PerPosition(ReqOrNone)
      BY <2>2, <3>1 DEF PerPosition
    <3>e. \A s \in part : Emitted(outcome[s]) \in Tokens
      BY <2>1 DEF Emitted, Outcomes, Tokens
    <3>f. token \in [part -> Tokens]
      BY <3>e
    <3>3. token \in PerPosition(Tokens)
      BY <2>2, <3>f DEF PerPosition
    <3> QED BY <2>2, <2>5, <3>2, <3>3 DEF Messages
  <2> QED BY <1>2, <2>1, <2>3, <2>4, <2>5, <2>7, <2>8
<1> QED BY <1>3, <1>4

(* The tokens the pass reports find their requests; none of them is of a     *)
(* request whose end token has been reported before.                         *)
LEMMA PassTokens ==
    ASSUME TypeOK, QInv, PosInv, BatchInv, TokInv, WorkerInv, NEW m, Reports(m),
           msgs' = Append(msgs, m), m \in Messages,
           UNCHANGED <<tmsg, tslot, tasks_list, finishing>>
    PROVE  /\ TokInv'
           /\ \A r \in Requests : InFlight(r)' => InFlight(r) \/ Carries(m, 0, r)
           /\ \A r \in Requests : Ending(r)' => Ending(r) \/ CarriesEos(m, 0, r)
<1>t. /\ Len(msgs') = Len(msgs) + 1 /\ Len(msgs) \in Nat /\ msgs'[Len(msgs) + 1] = m
      /\ \A i \in 1 .. Len(msgs) : msgs'[i] = msgs[i]
      /\ \A i \in 1 .. Len(msgs') : i \in 1 .. Len(msgs) \/ i = Len(msgs) + 1
      /\ 1 .. Len(msgs) \subseteq 1 .. Len(msgs')
  <2>1. msgs \in Seq(Messages) /\ Len(msgs) \in Nat
    BY WorkerTypes
  <2>2. /\ Len(Append(msgs, m)) = Len(msgs) + 1 /\ Append(msgs, m)[Len(msgs) + 1] = m
        /\ \A i \in 1 .. Len(msgs) : Append(msgs, m)[i] = msgs[i]
    BY <2>1
  <2> QED BY <2>1, <2>2
<1>1. \A s \in Slots : InPlace(s, StepInput[s])
  BY InputInOrder
<1>2. \A s \in Slots : s < m.bsz /\ m.tok[s] # "none" =>
          /\ m.by[s] \in Requests /\ tasks_list[s] = m.by[s] /\ ~Ending(m.by[s])
  BY <1>1 DEF Reports, InPlace, Active
<1>3. \A r \in Requests : Carries(m, 0, r) => ~Ending(r)
  BY <1>2 DEF Carries
<1>4. Members(finishing') = Members(finishing) /\ Members(finishing) \subseteq Requests
  BY ManagerTypes
<1>5. \A r \in Requests : InFlight(r)' => InFlight(r) \/ Carries(m, 0, r)
  BY <1>t DEF InFlight
<1>6. \A r \in Requests : EosInFlight(r)' => EosInFlight(r) \/ CarriesEos(m, 0, r)
  BY <1>t DEF EosInFlight
<1>7. \A r \in Requests : Ending(r)' => Ending(r) \/ CarriesEos(m, 0, r)
  BY <1>4, <1>6 DEF Ending
<1>8. \A i \in 1 .. Len(msgs') : Credited(msgs[i], 0)'
  <2> SUFFICES ASSUME NEW i \in 1 .. Len(msgs'), NEW s \in Slots, 0 <= s, s < msgs'[i].bsz,
                      msgs'[i].tok[s] # "none"
               PROVE  msgs'[i].by[s] \in Requests /\ tasks_list'[s] = msgs'[i].by[s]
    BY DEF Credited
  <2>1. CASE i \in 1 .. Len(msgs)
    BY <2>1, <1>t DEF TokInv, Credited
  <2>2. CASE i = Len(msgs) + 1
    BY <2>2, <1>t, <1>2
  <2> QED BY <2>1, <2>2, <1>t
<1>9. tmsg' # Nothing => Credited(tmsg, tslot)'
  BY DEF TokInv, Credited
<1>10. ASSUME NEW r \in Requests, NEW i \in 1 .. Len(msgs'), NEW j \in 1 .. Len(msgs'),
              i < j, CarriesEos(msgs'[i], 0, r)
       PROVE  ~Carries(msgs'[j], 0, r)
  <2>1. i \in 1 .. Len(msgs) /\ CarriesEos(msgs[i], 0, r)
    BY <1>10, <1>t
  <2>2. CASE j \in 1 .. Len(msgs)
    BY <2>1, <2>2, <1>10, <1>t DEF TokInv
  <2>3. CASE j = Len(msgs) + 1
    BY <2>1, <2>3, <1>t, <1>3 DEF Ending, EosInFlight
  <2> QED BY <2>2, <2>3, <1>t
<1>11. ASSUME NEW r \in Requests, NEW j \in 1 .. Len(msgs'), tmsg' # Nothing,
              CarriesEos(tmsg', tslot', r)
       PROVE  ~Carries(msgs'[j], 0, r)
  <2>1. tmsg # Nothing /\ CarriesEos(tmsg, tslot, r)
    BY <1>11
  <2>2. CASE j \in 1 .. Len(msgs)
    BY <2>1, <2>2, <1>t DEF TokInv
  <2>3. CASE j = Len(msgs) + 1
    BY <2>1, <2>3, <1>t, <1>3 DEF Ending, EosInFlight
  <2> QED BY <2>2, <2>3, <1>t
<1>12. \A r \in Members(finishing') : ~InFlight(r)'
  BY <1>3, <1>4, <1>5 DEF TokInv, Ending
<1>13. TokInv'
  BY <1>8, <1>9, <1>10, <1>11, <1>12 DEF TokInv
<1> QED BY <1>5, <1>7, <1>13

(* The positions after the pass. *)
LEMMA PassPositions ==
    ASSUME TypeOK, BlocksConserved, QInv, PosInv, BatchInv, TokInv, WorkerInv, WorkerPass, ~stray',
           ~ \E t \in NextTasks : t.slot = NoSlot
    PROVE  TokInv' /\ WorkerInv'
<1>1. /\ queue' = Nothing /\ wbsz' = NextBsz
      /\ UNCHANGED <<tmsg, tslot, tasks_list, finishing, scheduled, running, waiting, computed,
                     need, block_tables, output>>
  BY DEF WorkerPass, rmVars, tokenVars, slotVars, schedVars, queueVars, reqVars, poolVars
<1>2. \A s \in Slots : Follows(StepInput[s], slot'[s])
  BY PassEffect
<1>3. \A s \in Slots :
          /\ InPlace(s, StepInput[s]) /\ Yields(s, StepInput[s]) /\ InBlocks(StepInput[s])
          /\ queue = Nothing => StepInput[s] = slot[s]
  BY InputInOrder
<1>4. /\ TokInv'
      /\ \A r \in Requests : InFlight(r)' => InFlight(r)
            \/ \E s \in Slots : /\ StepInput[s].live /\ CanYield(StepInput[s])
                                /\ StepInput[s].req = r
      /\ \A r \in Requests : Ending(r)' => Ending(r)
            \/ \E s \in Slots : /\ Active(StepInput[s]) /\ StepInput[s].req = r
                                /\ ~Active(slot'[s])
  <2>1. CASE msgs' = msgs
    <3>1. /\ tmsg' = Nothing \/ (tmsg' = tmsg /\ tslot \in Nat /\ tslot' \in Nat /\ tslot <= tslot')
          /\ Members(finishing) \subseteq Requests /\ Members(finishing') \subseteq Members(finishing)
      BY <1>1, ManagerTypes, WorkerTypes
    <3> QED BY <1>1, <2>1, <3>1, TokShrinks
  <2>2. CASE msgs' # msgs
    <3>1. PICK m : msgs' = Append(msgs, m) /\ m \in Messages /\ Reports(m)
      BY <2>2, PassEffect
    <3>2. /\ TokInv'
          /\ \A r \in Requests : InFlight(r)' => InFlight(r) \/ Carries(m, 0, r)
          /\ \A r \in Requests : Ending(r)' => Ending(r) \/ CarriesEos(m, 0, r)
      BY <1>1, <3>1, PassTokens
    <3>3. \A r \in Requests : Carries(m, 0, r) =>
              \E s \in Slots : /\ StepInput[s].live /\ CanYield(StepInput[s])
                               /\ StepInput[s].req = r
      BY <3>1 DEF Reports, Carries
    <3>4. \A r \in Requests : CarriesEos(m, 0, r) =>
              \E s \in Slots : /\ Active(StepInput[s]) /\ StepInput[s].req = r
                               /\ ~Active(slot'[s])
      BY <3>1 DEF Reports, CarriesEos, Active
    <3> QED BY <3>2, <3>3, <3>4
  <2> QED BY <2>1, <2>2
<1>5. NextTasks' = {} /\ Batch' = scheduled /\ Batch' \subseteq Batch
  BY <1>1 DEF NextTasks, Batch
<1>6. Members(running') = Members(running) /\ Members(waiting') = Members(waiting)
  BY <1>1
<1>7. /\ \A s \in Slots : Leaving(s)' <=> StillLeaving(s)
      /\ \A r \in Requests : (Prefilling(r)' <=> StillPrefilling(r)) /\ (Filling(r)' => Filling(r))
  BY <1>1, <1>5, <1>6 DEF Leaving, StillLeaving, Prefilling, Filling, StillPrefilling
<1>8. Owner'
  BY <1>1, <1>2, <1>3, <1>6, <1>7 DEF Owner, InPlace, Follows
<1>9. Disjoint'
  BY <1>2, InputDisjoint DEF Disjoint, Follows
<1>10. Shape'
  BY <1>2 DEF Shape, Follows, InBlocks
<1>11. DecodeFits'
  <2> SUFFICES ASSUME NEW t \in scheduled, t.type = "DECODE", t.slot # NoSlot,
                      Active(slot'[t.slot])
               PROVE  /\ slot'[t.slot].req = t.req /\ slot'[t.slot].blk \subseteq t.blk
                      /\ t.blk \subseteq block_tables[t.req]
    BY <1>1, <1>5 DEF DecodeFits
  <2>1. queue = Nothing /\ t \in Batch
    BY StillTypes DEF Batch
  <2>2. t.slot \in Slots
    <3>1. t.slot = idx[t.req] /\ t.req \in Requests
      BY <2>1, BatchTypes DEF BatchInv, BatchSlots
    <3> QED BY <3>1, ManagerTypes DEF SlotOrNone
  <2>3. /\ Active(slot[t.slot]) /\ slot'[t.slot].req = slot[t.slot].req
        /\ slot'[t.slot].blk = slot[t.slot].blk
    BY <1>2, <1>3, <2>1, <2>2 DEF Follows
  <2> QED BY <2>1, <2>3 DEF WorkerInv, DecodeFits
<1>12. PrefillFits'
  BY <1>1, <1>5, <1>6 DEF WorkerInv, PrefillFits
<1>13. NeedIsTotal'
  BY <1>1, <1>6, <1>7, ManagerTypes DEF WorkerInv, NeedIsTotal, TotalTokens
<1>14. Drained'
  <2> SUFFICES ASSUME NEW r \in Requests, StillPrefilling(r)
               PROVE  r \notin Members(finishing') /\ ~InFlight(r)'
    BY <1>7 DEF Drained
  <2>1. r \notin Members(finishing) /\ ~InFlight(r)
    BY StillTypes DEF WorkerInv, Drained
  <2>2. Members(finishing') = Members(finishing)
    BY <1>1
  <2>3. \A s \in Slots : ~(StepInput[s].live /\ CanYield(StepInput[s]) /\ StepInput[s].req = r)
    BY <1>3 DEF Yields, InBlocks
  <2> QED BY <1>4, <2>1, <2>2, <2>3
<1>15. NoYield'
  BY <1>2, <1>3, <1>7, <1>8 DEF NoYield, Follows, Yields, InPlace, Active, CanYield, Owner
<1>16. Ended'
  <2> SUFFICES ASSUME NEW s \in Slots, Active(slot'[s]), NEW r \in Requests, r = slot'[s].req,
                      Ending(r)'
               PROVE  FALSE
    <3>1. \A s \in Slots : Active(slot'[s]) => slot'[s].req \in Requests
      BY <1>2, <1>3 DEF Follows, InPlace
    <3> QED BY <3>1 DEF Ended, Ending, EosInFlight
  <2>1. /\ StepInput[s].req = r /\ Active(StepInput[s]) /\ tasks_list[s] = r /\ ~Ending(r)
    BY <1>2, <1>3 DEF Follows, InPlace
  <2>2. PICK u \in Slots : Active(StepInput[u]) /\ StepInput[u].req = r /\ ~Active(slot'[u])
    BY <1>4, <2>1
  <2>3. tasks_list[u] = r
    BY <1>3, <2>2 DEF InPlace
  <2>4. u = s
    BY <2>1, <2>3, RequestAssumption DEF PosInv, PositionsAgree
  <2> QED BY <2>2, <2>4
<1> QED BY <1>4, <1>8, <1>9, <1>10, <1>11, <1>12, <1>13, <1>14, <1>15, <1>16 DEF WorkerInv

(* Every step keeps the flow of batches and tokens in order.                 *)
LEMMA FlowPreserved ==
    ASSUME TypeOK, ReadInRange, BlocksConserved, QInv, PosInv, BatchInv, FlowInv, [Next]_vars
    PROVE  FlowInv'
<1>1. CASE premature' \/ stray'
  BY <1>1 DEF FlowInv
<1>2. CASE ~premature' /\ ~stray'
  <2>1. ~premature /\ ~stray
    <3>1. premature => premature'
      BY DEF Next, vars, LoopTop, LoopFetch, LoopSchedule, LoopSend, FetchTake, FetchAdd,
             FetchEnd, WorkerPass, TokenTake, TokenScan, TokenRead, TokenLookAt, TokenDrop,
             Reschedule, LoopScheduleStep, Finish
    <3>2. CASE WorkerPass
      <4>1. stray => stray'
        BY <3>2, Zenon DEF WorkerPass
      <4> QED BY <1>2, <3>1, <4>1
    <3>3. CASE ~WorkerPass
      <4>1. stray' = stray
        BY <3>3 DEF Next, vars, workerVars, LoopTop, LoopFetch, LoopSchedule, LoopSend, FetchTake,
                    LoopScheduleStep, FetchAdd, FetchEnd, TokenTake, TokenLookAt, TokenScan,
                    TokenRead, Finish
      <4> QED BY <1>2, <3>1, <4>1
    <3> QED BY <3>2, <3>3
  <2>2. TokInv /\ (crashed \/ WorkerInv)
    BY <2>1 DEF FlowInv
  <2>3. CASE ~WorkerPass
    <3>1. TokInv'
      BY <2>2, <2>3, TokPreserved
    <3>2. crashed' = crashed
      BY <2>3 DEF Next, vars, workerVars, LoopTop, LoopFetch, LoopSchedule, LoopSend, FetchTake,
                  LoopScheduleStep, FetchAdd, FetchEnd, TokenTake, TokenLookAt, TokenScan,
                  TokenRead, Finish
    <3>3. WorkerInv => WorkerInv'
      BY <1>2, <2>2, <2>3, WorkerPreserved
    <3> QED BY <2>2, <3>1, <3>2, <3>3 DEF FlowInv
  <2>4. CASE WorkerPass /\ \E t \in NextTasks : t.slot = NoSlot
    <3>1. /\ crashed' = TRUE /\ msgs' = msgs
          /\ UNCHANGED <<tmsg, tslot, tasks_list, finishing>>
      BY <2>4 DEF WorkerPass, rmVars, tokenVars, slotVars
    <3>2. /\ tslot \in Nat /\ Members(finishing) \subseteq Requests
          /\ Members(finishing') = Members(finishing)
      BY <3>1, ManagerTypes, WorkerTypes
    <3>3. TokInv'
      BY <2>2, <3>1, <3>2, TokShrinks
    <3> QED BY <3>1, <3>3 DEF FlowInv
  <2>5. CASE WorkerPass /\ ~ \E t \in NextTasks : t.slot = NoSlot
    <3>1. ~crashed
      BY <2>5 DEF WorkerPass
    <3>2. TokInv' /\ WorkerInv'
      BY <1>2, <2>2, <2>5, <3>1, PassPositions
    <3> QED BY <3>2 DEF FlowInv
  <2> QED BY <2>3, <2>4, <2>5
<1> QED BY <1>1, <1>2

(* Everything above together, in every reachable state. *)
EngineInv == QInv /\ PosInv /\ BatchInv /\ FlowInv

(* Queues, positions, batches, tokens and the worker are in order in every   *)
(* interleaving of the engine's threads and the worker, as far as the        *)
(* exemptions inside FlowInv go.                                             *)
THEOREM EngineInOrder == Spec => []EngineInv
<1>1. Init => EngineInv
  BY InitQueues, InitPositions, InitBatch, InitFlow DEF EngineInv
<1>2. IInv /\ EngineInv /\ [Next]_vars => EngineInv'
  <2> SUFFICES ASSUME IInv, EngineInv, [Next]_vars PROVE EngineInv'
    OBVIOUS
  <2>1. /\ TypeOK /\ ReadInRange /\ BlocksConserved
        /\ QInv /\ PosInv /\ BatchInv /\ FlowInv
    BY DEF IInv, EngineInv
  <2>2. QInv'
    BY <2>1, QueuesPreserved
  <2>3. PosInv'
    BY <2>1, PositionsPreserved
  <2>4. BatchInv'
    BY <2>1, <2>3, BatchPreserved
  <2>5. FlowInv'
    BY <2>1, FlowPreserved
  <2> QED BY <2>2, <2>3, <2>4, <2>5 DEF EngineInv
<1> QED BY <1>1, <1>2, Invariance, PTL DEF Spec

LEMMA EngineImplies ==
    IInv /\ EngineInv => LiveSlotsDisjoint /\ TokensReachTheirRequest /\ WorkerInBounds
  BY FlowImplies DEF IInv, EngineInv

(* In a model step no two live positions of the worker use the same KV-cache *)
(* block, although schedule() takes blocks from a preempted request before   *)
(* the worker hears of it: the batch that gives them to another request      *)
(* brings the clearing of the old position, for any numbers of requests,     *)
(* positions, blocks and messages, up to the first premature reschedule or   *)
(* stray token.                                                              *)
THEOREM BlocksNotShared == Spec => []LiveSlotsDisjoint
<1> QED BY EngineImplies, Invariance, EngineInOrder, PTL

(* However many messages the worker is ahead of the token processor, every   *)
(* token in them finds in tasks_list the request it was generated for, also  *)
(* when the position has been preempted or given to another request since,   *)
(* up to the first premature reschedule or stray token.                      *)
THEOREM TokensCredited == Spec => []TokensReachTheirRequest
<1> QED BY EngineImplies, Invariance, EngineInOrder, PTL

(* In a model step no live position writes past the blocks it was given, and *)
(* seq_lens_this_time covers every live position, whatever batches the       *)
(* worker takes and however late, up to the first premature reschedule or    *)
(* stray token.                                                              *)
THEOREM WorkerStaysInBounds == Spec => []WorkerInBounds
<1> QED BY EngineImplies, Invariance, EngineInOrder, PTL

-----------------------------------------------------------------------------
(* When nobody uses stop sequences and nobody may end with the first token,  *)
(* no position ever sends a token it should not.                             *)
Ordinary(w) ==
    /\ ~w.hit
    /\ w.live /\ MidPrompt(w) => w.out = 0
    /\ w.step => w.pos >= w.plen
OrdinaryInv == ~stray /\ \A s \in Slots : Ordinary(slot[s])

LEMMA InsertedOrdinary ==
    ASSUME slot \in [Slots -> SlotStates], NEW tasks \in SUBSET SentTasks, NEW s \in Slots,
           Ordinary(slot[s])
    PROVE  Ordinary(Inserted(s, tasks))
<1>1. slot[s] \in SlotStates
  OBVIOUS
<1>2. CASE \E t \in tasks : t.slot = s
  <2> DEFINE c == CHOOSE t \in tasks : t.slot = s
  <2>0. PICK t : t = c
    OBVIOUS
  <2>1. t \in SentTasks
    BY <1>2, <2>0
  <2>2. Inserted(s, tasks) =
            CASE t.type = "PREFILL" ->
                    [live |-> TRUE, hit |-> FALSE, step |-> FALSE, blk |-> t.blk, pos |-> t.start,
                     len |-> t.end - t.start, plen |-> t.total,
                     out |-> IF t.end >= t.total THEN t.out ELSE 0, req |-> t.req]
              [] t.type = "DECODE" -> [slot[s] EXCEPT !.blk = t.blk]
              [] t.type = "PREEMPTED" ->
                    [slot[s] EXCEPT !.blk = {}, !.live = FALSE, !.len = 0,
                                    !.pos = 0, !.step = FALSE]
    BY <1>2, <2>0 DEF Inserted
  <2> HIDE DEF c
  <2>3. PICK v : v = Inserted(s, tasks)
    OBVIOUS
  <2>4. CASE t \in DecodeTasks
    <3>1. v = [slot[s] EXCEPT !.blk = t.blk]
      BY <2>2, <2>3, <2>4 DEF DecodeTasks
    <3>2. /\ v.hit = slot[s].hit /\ v.live = slot[s].live /\ v.step = slot[s].step
          /\ v.pos = slot[s].pos /\ v.len = slot[s].len /\ v.plen = slot[s].plen
          /\ v.out = slot[s].out
      BY <1>1, <3>1 DEF SlotStates
    <3> QED BY <2>3, <3>2 DEF Ordinary, MidPrompt
  <2>5. CASE t \in PreemptTasks
    <3>1. v = [slot[s] EXCEPT !.blk = {}, !.live = FALSE, !.len = 0, !.pos = 0, !.step = FALSE]
      BY <2>2, <2>3, <2>5 DEF PreemptTasks
    <3>2. v.hit = slot[s].hit /\ v.live = FALSE /\ v.step = FALSE
      BY <1>1, <3>1 DEF SlotStates
    <3> QED BY <2>3, <3>2 DEF Ordinary
  <2>6. CASE t \in [type : {"PREFILL"}, req : Requests, slot : SlotOrNone,
                    blk : SUBSET Blocks, start : Nat, end : Nat, total : Nat, out : Nat]
    <3>1. /\ v.hit = FALSE /\ v.live = TRUE /\ v.step = FALSE /\ v.pos = t.start
          /\ v.len = t.end - t.start /\ v.plen = t.total
          /\ v.out = IF t.end >= t.total THEN t.out ELSE 0
      BY <2>2, <2>3, <2>6
    <3>2. t.start \in Nat /\ t.end \in Nat /\ t.total \in Nat
      BY <2>6
    <3> QED BY <2>3, <3>1, <3>2 DEF Ordinary, MidPrompt
  <2> QED BY <2>1, <2>4, <2>5, <2>6 DEF SentTasks
<1>3. CASE ~\E t \in tasks : t.slot = s
  BY <1>3 DEF Inserted
<1> QED BY <1>2, <1>3

LEMMA RecoveredOrdinary ==
    ASSUME NEW w \in SlotStates, Ordinary(w)
    PROVE  Ordinary(Recovered(w))
<1>1. PICK v : v = Recovered(w)
  OBVIOUS
<1>2. CASE v = w
  BY <1>1, <1>2
<1>3. CASE w.step /\ v = [w EXCEPT !.step = FALSE, !.len = 1, !.live = TRUE]
  <2>1. /\ v.hit = w.hit /\ v.step = FALSE /\ v.len = 1 /\ v.pos = w.pos /\ v.plen = w.plen
        /\ w.pos \in Int /\ w.plen \in Int
    BY <1>3 DEF SlotStates
  <2> QED BY <1>1, <1>3, <2>1 DEF Ordinary, MidPrompt
<1> QED BY <1>1, <1>2, <1>3 DEF Recovered

LEMMA AdvancedOrdinary ==
    ASSUME WithStops = {}, MinTokens > 0, MaxTokens > 1,
           NEW w \in SlotStates, Ordinary(w), NEW outcome \in Choices(w)
    PROVE  ~IsStray(w, outcome) /\ Ordinary(Advanced(w, outcome))
<1>t. /\ w.live \in BOOLEAN /\ w.step \in BOOLEAN /\ w.out \in Nat
      /\ w.pos \in Int /\ w.len \in Int /\ w.plen \in Int
  BY DEF SlotStates
<1>m. MaxTokens \in Nat /\ MinTokens \in Nat
  BY SamplingAssumption
<1>1. outcome # "hit" /\ (outcome # "none" => w.live /\ ~MidPrompt(w))
  <2>1. CASE ~w.live
    BY <2>1 DEF Choices, Ordinary
  <2>2. CASE w.live
    <3>1. outcome \in Sampled(w)
      BY <2>2 DEF Choices
    <3>2. CASE MidPrompt(w)
      <4>1. w.out = 0
        BY <2>2, <3>2 DEF Ordinary
      <4> QED BY <3>1, <3>2, <4>1, <1>m DEF Sampled
    <3>3. CASE ~MidPrompt(w)
      BY <2>2, <3>1, <3>3 DEF Sampled
    <3> QED BY <3>2, <3>3
  <2> QED BY <1>t, <2>1, <2>2
<1>2. PICK v : v = Advanced(w, outcome)
  OBVIOUS
<1>3. CASE outcome # "tok"
  <2>1. /\ v.hit = FALSE /\ v.live = FALSE /\ v.step = w.step /\ v.plen = w.plen
        /\ v.step => v.pos = w.pos
    BY <1>1, <1>2, <1>3 DEF Advanced, Stopped, SlotStates
  <2> QED BY <1>1, <1>2, <2>1 DEF Ordinary, IsStray
<1>4. CASE outcome = "tok"
  <2>1. PICK p : p = w.pos + w.len
    OBVIOUS
  <2>2. v \in {OutOfBlocks(w, p), DecodingOn(w, p)}
    BY <1>2, <1>4, <2>1 DEF Advanced
  <2>3. /\ v.hit = w.hit /\ v.pos = p /\ v.plen = w.plen
        /\ v.live => v.len = 1
    BY <2>2 DEF OutOfBlocks, DecodingOn, SlotStates
  <2>4. p >= w.plen
    BY <1>1, <1>4, <1>t, <2>1 DEF MidPrompt
  <2> QED BY <1>1, <1>2, <1>4, <1>t, <2>1, <2>3, <2>4 DEF Ordinary, IsStray, MidPrompt
<1> QED BY <1>3, <1>4

(* A pass of the worker over ordinary positions. *)
LEMMA PassOrdinary ==
    ASSUME WithStops = {}, MinTokens > 0, MaxTokens > 1, TypeOK, OrdinaryInv, WorkerPass
    PROVE  OrdinaryInv'
<1>1. /\ slot \in [Slots -> SlotStates] /\ NextTasks \in SUBSET SentTasks
      /\ NextBsz \in 0 .. MaxSeqs
  BY DEF TypeOK, Batches, NextTasks, NextBsz
<1>2. \A s \in Slots : StepInput[s] \in SlotStates /\ Ordinary(StepInput[s])
  <2> SUFFICES ASSUME NEW s \in Slots
               PROVE  StepInput[s] \in SlotStates /\ Ordinary(StepInput[s])
    OBVIOUS
  <2>1. /\ Inserted(s, NextTasks) \in SlotStates /\ Ordinary(Inserted(s, NextTasks))
    BY <1>1, InsertedType, InsertedOrdinary DEF OrdinaryInv
  <2>2. /\ Recovered(Inserted(s, NextTasks)) \in SlotStates
        /\ Ordinary(Recovered(Inserted(s, NextTasks)))
    BY <2>1, RecoveredType, RecoveredOrdinary
  <2>3. StepInput[s] \in {Inserted(s, NextTasks), Recovered(Inserted(s, NextTasks))}
    BY DEF StepInput
  <2> QED BY <2>1, <2>2, <2>3
<1>3. CASE UNCHANGED stray /\ slot' \in {slot, StepInput}
  BY <1>2, <1>3 DEF OrdinaryInv
<1>4. CASE ~(UNCHANGED stray /\ slot' \in {slot, StepInput})
  <2> DEFINE part == 0 .. NextBsz - 1
  <2>1. PICK outcome \in [part -> Outcomes] :
            /\ \A s \in part : outcome[s] \in Choices(StepInput[s])
            /\ slot' = [s \in Slots |-> IF s \in part THEN Advanced(StepInput[s], outcome[s])
                                                      ELSE StepInput[s]]
            /\ stray' = (stray \/ \E s \in part : IsStray(StepInput[s], outcome[s]))
    BY <1>4, Zenon DEF WorkerPass
  <2>2. part \subseteq Slots
    BY <1>1, PoolAssumption DEF Slots
  <2>3. \A s \in part : /\ ~IsStray(StepInput[s], outcome[s])
                        /\ Ordinary(Advanced(StepInput[s], outcome[s]))
    BY <1>2, <2>1, <2>2, AdvancedOrdinary
  <2>4. ~stray'
    BY <2>1, <2>3 DEF OrdinaryInv
  <2>5. \A s \in Slots : Ordinary(slot'[s])
    BY <1>2, <2>1, <2>3
  <2> QED BY <2>4, <2>5 DEF OrdinaryInv
<1> QED BY <1>3, <1>4

(* A token goes out of a stopped position only after a stop sequence, and    *)
(* out of the middle of a prompt only when a request may end with its first  *)
(* token: with no stop sequences, min_tokens above zero and max_tokens above *)
(* one, no stray token is ever sent, whatever the interleaving, and the      *)
(* three theorems above hold up to the first premature reschedule alone.     *)
THEOREM OrdinaryNeverStray ==
    ASSUME WithStops = {}, MinTokens > 0, MaxTokens > 1
    PROVE  Spec => []~stray
<1>1. Init => OrdinaryInv
  <2> SUFFICES ASSUME Init PROVE OrdinaryInv
    OBVIOUS
  <2>1. ~stray /\ slot = [s \in Slots |-> EmptySlot]
    BY DEF Init
  <2>2. Ordinary(EmptySlot)
    BY DEF EmptySlot, Ordinary
  <2> QED BY <2>1, <2>2 DEF OrdinaryInv
<1>2. TypeOK /\ OrdinaryInv /\ [Next]_vars => OrdinaryInv'
  <2> SUFFICES ASSUME TypeOK, OrdinaryInv, [Next]_vars PROVE OrdinaryInv'
    OBVIOUS
  <2>1. CASE WorkerPass
    BY <2>1, PassOrdinary
  <2>2. CASE ~WorkerPass
    <3>1. UNCHANGED <<slot, stray>>
      BY <2>2 DEF Next, vars, workerVars, LoopTop, LoopFetch, LoopSchedule, LoopSend, FetchTake,
                  LoopScheduleStep, FetchAdd, FetchEnd, TokenTake, TokenLookAt, TokenScan,
                  TokenRead, Finish
    <3> QED BY <3>1 DEF OrdinaryInv
  <2> QED BY <2>1, <2>2
<1>3. OrdinaryInv => ~stray
  BY DEF OrdinaryInv
<1> QED BY <1>1, <1>2, <1>3, TypeCorrect, PTL DEF Spec
=============================================================================
