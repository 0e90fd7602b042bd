------------------------ MODULE CacheTransferProofs ------------------------
(***************************************************************************)
(* CacheTransfer for every number of ranks and tasks: until a put clears a *)
(* mask that was not empty, every rank reads every task once and in order, *)
(* and a task is reported only when every rank has moved its share once.   *)
(***************************************************************************)
EXTENDS CacheTransfer, SequenceTheorems, FiniteSetTheorems, TLAPS

(* Types, with what the reads of data, pool and put_num rely on. *)
TypeInv ==
    /\ TypeOK
    /\ data \in [Ranks -> Task \cup {<< >>}] /\ overwritten \in BOOLEAN
    /\ sent \in Seq(Task) /\ got \in [Ranks -> Seq(Task)] /\ moved \in [Ranks -> Seq(Task)]
    /\ \A r \in Ranks : pc[r] = "lower" => data[r] \in Task
    /\ \A r \in Ranks, p \in Types : stage[r][p] # "wait" => pool[r][p] # << >>
    /\ \A p \in Types : put_pc[p] \in {"poll", "relock"} => put_num[p] < MaxTasks
    /\ sync_value # Ranks /\ (sync_value # {} => task_queue # << >>)

(* What rank r has still to read, and where it has the task of type p. *)
Remaining(r) == IF r \in sync_value THEN Tail(task_queue) ELSE task_queue
TypeIn(p, seq) == \E i \in 1 .. Len(seq) : seq[i].type = p
Unread(r, p) == TypeIn(p, Remaining(r))
Fetched(r, p) == pc[r] = "lower" /\ data[r].type = p
Pooled(r, p) == pool[r][p] # << >>

(* The last task that thread p has put, and whether it is on its way. *)
Current(p) == [type |-> p, num |-> put_num[p]]
Outstanding(p) == put_pc[p] = "sync" /\ ~TypeIn(p, done_queue)

(* A list holds the last task of a waiting thread, once. *)
Waited == {t \in Task : t = Current(t.type) /\ put_pc[t.type] = "sync"}
Distinct(seq) == \A i, j \in 1 .. Len(seq) : seq[i].type = seq[j].type => i = j
OnlyCurrent(seq) == Distinct(seq) /\ \A i \in 1 .. Len(seq) : seq[i] \in Waited

Places ==
    /\ OnlyCurrent(task_queue) /\ OnlyCurrent(done_queue)
    /\ \A r \in Ranks, p \in Types :
        /\ Outstanding(p) => Unread(r, p) \/ Fetched(r, p) \/ Pooled(r, p)
        /\ Unread(r, p) => Outstanding(p) /\ ~Fetched(r, p) /\ ~Pooled(r, p)
        /\ Fetched(r, p) => Outstanding(p) /\ ~Pooled(r, p) /\ data[r] = Current(p)
        /\ Pooled(r, p) => Outstanding(p) /\ pool[r][p] = <<Current(p)>>

(* How often each rank has moved the data of each task. *)
Times(t, seq) == Cardinality({i \in DOMAIN seq : seq[i] = t})
Due(r, t) ==
    IF \/ t.num > put_num[t.type]
       \/ t.num = put_num[t.type] /\ Outstanding(t.type) /\ stage[r][t.type] # "moved"
    THEN 0 ELSE 1
MovedAsDue == \A r \in Ranks, t \in Task : Times(t, moved[r]) = Due(r, t)

IInv == TypeInv /\ (~overwritten => ReadInOrder /\ Places /\ MovedAsDue)

-----------------------------------------------------------------------------
(* Types.                                                                  *)

LEMMA AppendTask ==
    ASSUME NEW seq \in Seq(Task), NEW t \in Task
    PROVE  Append(seq, t) \in Seq(Task) /\ Append(seq, t) # << >>
BY AppendProperties

LEMMA PutTyped ==
    ASSUME TypeInv, NEW p \in Types, PutTransferTask(p) \/ PutRelocked(p)
    PROVE  TypeInv'
<1> USE TransferAssumption
<1> DEFINE t == [type |-> p, num |-> put_num[p] + 1]
<1>1. put_num[p] \in 0 .. MaxTasks /\ put_num[p] < MaxTasks
  BY DEF TypeInv, TypeOK, PutTransferTask, PutRelocked
<1>2. t \in Task
  BY <1>1 DEF Task
<1>3. /\ task_queue' = Append(task_queue, t) /\ sent' = Append(sent, t)
      /\ sync_value' = {} /\ overwritten' \in BOOLEAN
      /\ put_num' = [put_num EXCEPT ![p] = @ + 1] /\ put_pc' = [put_pc EXCEPT ![p] = "sync"]
      /\ UNCHANGED <<done_queue, signal, pc, data, pool, stage, got, moved>>
  BY DEF PutTransferTask, PutRelocked, Append1, rankVars
<1> HIDE DEF t
<1>4. task_queue' \in Seq(Task) /\ task_queue' # << >> /\ sent' \in Seq(Task)
  <2>1. task_queue \in Seq(Task) /\ sent \in Seq(Task)
    BY DEF TypeInv, TypeOK
  <2> QED BY <1>2, <1>3, <2>1, AppendTask
<1>5. put_num' \in [Types -> 0 .. MaxTasks]
  BY <1>1, <1>3 DEF TypeInv, TypeOK
<1>6. put_pc' \in [Types -> {"idle", "poll", "relock", "sync"}]
  BY <1>3 DEF TypeInv, TypeOK
<1>7. TypeOK'
  BY <1>3, <1>4, <1>5, <1>6 DEF TypeInv, TypeOK
<1> QED BY <1>1, <1>3, <1>4, <1>7 DEF TypeInv, TypeOK

LEMMA RankReadsTyped ==
    ASSUME TypeInv, NEW r \in Ranks, GetTransferTask(r) \/ GetTransferTaskLast(r)
    PROVE  TypeInv'
<1> USE TransferAssumption
<1> DEFINE t == Head(task_queue)
<1>1. t \in Task /\ Tail(task_queue) \in Seq(Task)
  BY HeadTailProperties DEF TypeInv, TypeOK, GetTransferTask, GetTransferTaskLast, Readable
<1> HIDE DEF t
<1>2. t.type \in Types
  BY <1>1 DEF Task
<1>3. Append(got[r], t) \in Seq(Task)
  BY <1>1, AppendTask DEF TypeInv
<1>4. got' = [got EXCEPT ![r] = Append(@, t)]
  BY DEF t, GetTransferTask, GetTransferTaskLast
<1>5. got' \in [Ranks -> Seq(Task)]
  BY <1>3, <1>4 DEF TypeInv
<1>6. CASE GetTransferTask(r)
  <2>1. Append(pool[r][t.type], t) \in Seq(Task) /\ Append(pool[r][t.type], t) # << >>
    <3>1. pool[r][t.type] \in Seq(Task)
      BY <1>2 DEF TypeInv, TypeOK
    <3> QED BY <1>1, <3>1, AppendTask
  <2>2. pool' = [pool EXCEPT ![r][t.type] = Append(@, t)]
    BY <1>6 DEF t, GetTransferTask, Submit
  <2>3. pool' \in [Ranks -> [Types -> Seq(Task)]]
    BY <1>2, <2>1, <2>2 DEF TypeInv, TypeOK
  <2>4. \A q \in Ranks, p \in Types : stage'[q][p] # "wait" => pool'[q][p] # << >>
    BY <1>2, <1>6, <2>1, <2>2 DEF TypeInv, TypeOK, GetTransferTask
  <2>5. /\ UNCHANGED <<task_queue, done_queue, signal, put_pc, put_num, data, stage, sent, moved, overwritten>>
        /\ sync_value' = sync_value \cup {r} /\ pc' = [pc EXCEPT ![r] = "barrier3"]
        /\ task_queue # << >> /\ sync_value' # Ranks
    BY <1>6 DEF GetTransferTask, Goto, putVars, Readable
  <2>6. TypeOK'
    BY <2>3, <2>5 DEF TypeInv, TypeOK
  <2> QED BY <1>5, <2>4, <2>5, <2>6 DEF TypeInv, TypeOK
<1>7. CASE GetTransferTaskLast(r)
  <2>1. /\ UNCHANGED <<done_queue, signal, put_pc, put_num, pool, stage, sent, moved, overwritten>>
        /\ sync_value' = {} /\ pc' = [pc EXCEPT ![r] = "lower"]
        /\ task_queue' = Tail(task_queue) /\ data' = [data EXCEPT ![r] = t]
    BY <1>7 DEF GetTransferTaskLast, Goto, putVars, t
  <2>2. TypeOK'
    BY <1>1, <2>1 DEF TypeInv, TypeOK
  <2> QED BY <1>1, <1>5, <2>1, <2>2 DEF TypeInv, TypeOK
<1> QED BY <1>6, <1>7

LEMMA LowerTyped ==
    ASSUME TypeInv, NEW r \in Ranks, LowerSignal(r)
    PROVE  TypeInv'
<1> USE TransferAssumption
<1>1. data[r] \in Task /\ data[r].type \in Types
  BY DEF TypeInv, LowerSignal, Task
<1>2. /\ Append(pool[r][data[r].type], data[r]) \in Seq(Task)
      /\ Append(pool[r][data[r].type], data[r]) # << >>
  <2>1. pool[r][data[r].type] \in Seq(Task)
    BY <1>1 DEF TypeInv, TypeOK
  <2> QED BY <1>1, <2>1, AppendTask
<1>3. /\ UNCHANGED <<task_queue, sync_value, done_queue, put_pc, put_num, data, stage, sent, got,
                     moved, overwritten>>
      /\ signal' = 0 /\ pc' = [pc EXCEPT ![r] = "barrier3"]
      /\ pool' = [pool EXCEPT ![r][data[r].type] = Append(@, data[r])]
  BY DEF LowerSignal, Submit, Goto, putVars, history
<1>4. pool' \in [Ranks -> [Types -> Seq(Task)]]
  BY <1>1, <1>2, <1>3 DEF TypeInv, TypeOK
<1>5. \A q \in Ranks, p \in Types : stage'[q][p] # "wait" => pool'[q][p] # << >>
  BY <1>1, <1>2, <1>3 DEF TypeInv, TypeOK
<1>6. TypeOK'
  BY <1>3, <1>4 DEF TypeInv, TypeOK
<1> QED BY <1>3, <1>5, <1>6 DEF TypeInv, TypeOK

LEMMA SwapTyped ==
    ASSUME TypeInv, NEW p \in Types,
           SwapBarrier1(p) \/ (\E r \in Ranks : TransferData(r, p)) \/ SwapBarrier2(p)
    PROVE  TypeInv'
<1> USE TransferAssumption
<1>1. CASE SwapBarrier1(p)
  <2>1. /\ UNCHANGED <<task_queue, sync_value, done_queue, signal, put_pc, put_num, pc, data, pool,
                       sent, got, moved, overwritten>>
        /\ \A r \in Ranks : pool[r][p] # << >>
        /\ stage' = [r \in Ranks |-> [stage[r] EXCEPT ![p] = "move"]]
    BY <1>1 DEF SwapBarrier1, queueVars, putVars, history
  <2>2. TypeOK'
    BY <2>1 DEF TypeInv, TypeOK
  <2>3. \A r \in Ranks, q \in Types : stage'[r][q] # "wait" => pool'[r][q] # << >>
    BY <2>1 DEF TypeInv, TypeOK
  <2> QED BY <2>1, <2>2, <2>3 DEF TypeInv
<1>2. ASSUME NEW r \in Ranks, TransferData(r, p) PROVE TypeInv'
  <2>1. Head(pool[r][p]) \in Task
    BY <1>2, HeadTailProperties DEF TypeInv, TypeOK, TransferData
  <2>2. /\ UNCHANGED <<task_queue, sync_value, done_queue, signal, put_pc, put_num, pc, data, pool,
                       sent, got, overwritten>>
        /\ stage[r][p] = "move" /\ stage' = [stage EXCEPT ![r][p] = "moved"]
        /\ moved' = [moved EXCEPT ![r] = Append(@, Head(pool[r][p]))]
    BY <1>2 DEF TransferData, queueVars, putVars
  <2>3. Append(moved[r], Head(pool[r][p])) \in Seq(Task)
    BY <2>1, AppendTask DEF TypeInv
  <2>4. moved' \in [Ranks -> Seq(Task)]
    BY <2>2, <2>3 DEF TypeInv
  <2>5. TypeOK'
    BY <2>2 DEF TypeInv, TypeOK
  <2>6. \A s \in Ranks, q \in Types : stage'[s][q] # "wait" => pool'[s][q] # << >>
    BY <2>2 DEF TypeInv, TypeOK
  <2> QED BY <2>2, <2>4, <2>5, <2>6 DEF TypeInv
<1>3. CASE SwapBarrier2(p)
  <2>1. /\ UNCHANGED <<task_queue, sync_value, signal, put_pc, put_num, pc, data,
                       sent, got, moved, overwritten>>
        /\ \A r \in Ranks : stage[r][p] = "moved"
        /\ stage' = [r \in Ranks |-> [stage[r] EXCEPT ![p] = "wait"]]
        /\ pool' = [r \in Ranks |-> [pool[r] EXCEPT ![p] = Tail(@)]]
        /\ done_queue' = Append(done_queue, Head(pool[Rank0][p]))
    BY <1>3 DEF SwapBarrier2, putVars, history
  <2>2. \A r \in Ranks : Tail(pool[r][p]) \in Seq(Task) /\ Head(pool[r][p]) \in Task
    BY <2>1, HeadTailProperties, SMTT(20) DEF TypeInv, TypeOK
  <2>3. done_queue' \in Seq(Task)
    BY <2>1, <2>2, AppendTask DEF TypeInv, TypeOK
  <2>4. pool' \in [Ranks -> [Types -> Seq(Task)]]
    BY <2>1, <2>2 DEF TypeInv, TypeOK
  <2>5. TypeOK'
    BY <2>1, <2>3, <2>4 DEF TypeInv, TypeOK
  <2>6. \A s \in Ranks, q \in Types : stage'[s][q] # "wait" => pool'[s][q] # << >>
    BY <2>1 DEF TypeInv, TypeOK
  <2> QED BY <2>1, <2>5, <2>6 DEF TypeInv
<1> QED BY <1>1, <1>2, <1>3

(* Steps that only move one of the two loops on, or raise the signal. *)
Moves ==
    \/ \E p \in Types : PutHasToWait(p) \/ PutSeesRead(p)
    \/ \E r \in Ranks : TestSignal(r) \/ GetNothing(r)
    \/ RaiseSignal \/ Barrier1 \/ RoundAgain("barrier2") \/ RoundAgain("barrier3")

LEMMA MovesTyped == ASSUME TypeInv, Moves PROVE TypeInv'
<1> USE TransferAssumption
<1>1. ASSUME NEW p \in Types, PutHasToWait(p) \/ PutSeesRead(p) PROVE TypeInv'
  <2>1. TypeOK'
    BY <1>1 DEF PutHasToWait, PutSeesRead, TypeInv, TypeOK, queueVars, rankVars, history
  <2> QED BY <1>1, <2>1 DEF PutHasToWait, PutSeesRead, TypeInv, TypeOK, queueVars, rankVars, history
<1>2. ASSUME NEW r \in Ranks, TestSignal(r) \/ GetNothing(r) PROVE TypeInv'
  <2>1. TypeOK'
    BY <1>2 DEF TestSignal, GetNothing, Goto, Start, TypeInv, TypeOK, queueVars, putVars, history
  <2> QED BY <1>2, <2>1
          DEF TestSignal, GetNothing, Goto, Start, TypeInv, TypeOK, queueVars, putVars, history
<1>3. CASE RaiseSignal
  <2>1. TypeOK'
    BY <1>3 DEF RaiseSignal, Goto, TypeInv, TypeOK, putVars, history
  <2> QED BY <1>3, <2>1 DEF RaiseSignal, Goto, TypeInv, TypeOK, putVars, history
<1>4. CASE Barrier1 \/ RoundAgain("barrier2") \/ RoundAgain("barrier3")
  <2>1. TypeOK'
    BY <1>4 DEF Barrier1, RoundAgain, Start, TypeInv, TypeOK, queueVars, putVars, history
  <2>2. \A r \in Ranks : pc'[r] # "lower"
    BY <1>4 DEF Barrier1, RoundAgain, Start
  <2> QED BY <1>4, <2>1, <2>2 DEF Barrier1, RoundAgain, TypeInv, queueVars, putVars, history
<1> QED BY <1>1, <1>2, <1>3, <1>4 DEF Moves

LEMMA RecvTyped == ASSUME TypeInv, RecvDataTransferResult PROVE TypeInv'
<1>1. Head(done_queue) \in Task /\ Tail(done_queue) \in Seq(Task)
  BY HeadTailProperties DEF TypeInv, TypeOK, RecvDataTransferResult
<1>2. Head(done_queue).type \in Types
  BY <1>1 DEF Task
<1>3. /\ UNCHANGED <<task_queue, sync_value, signal, put_num, pc, data, pool, stage, sent, got,
                     moved, overwritten>>
      /\ done_queue' = Tail(done_queue)
      /\ put_pc' = put_pc \/ put_pc' = [put_pc EXCEPT ![Head(done_queue).type] = "idle"]
  BY DEF RecvDataTransferResult, rankVars, history
<1>4. TypeOK'
  BY <1>1, <1>2, <1>3 DEF TypeInv, TypeOK
<1> QED BY <1>2, <1>3, <1>4 DEF TypeInv, TypeOK

LEMMA StepTyped == TypeInv /\ [Next]_vars => TypeInv'
<1> SUFFICES ASSUME TypeInv, [Next]_vars PROVE TypeInv'
  OBVIOUS
<1>1. CASE UNCHANGED vars
  <2>1. TypeOK'
    BY <1>1 DEF vars, queueVars, putVars, rankVars, history, TypeInv, TypeOK
  <2> QED BY <1>1, <2>1 DEF vars, queueVars, putVars, rankVars, history, TypeInv
<1> QED BY <1>1, PutTyped, RankReadsTyped, LowerTyped, SwapTyped, MovesTyped, RecvTyped
        DEF Next, PutStep, RankStep, JointStep, Moves

LEMMA InitTyped == Init => TypeInv
<1> SUFFICES ASSUME Init PROVE TypeInv
  OBVIOUS
<1>1. TypeOK
  BY TransferAssumption DEF Init, TypeOK, Start
<1>2. overwritten \in BOOLEAN
  BY DEF Init
<1>3. << >> \in Seq(Task)
  BY EmptySeq
<1>4. sent \in Seq(Task) /\ got \in [Ranks -> Seq(Task)] /\ moved \in [Ranks -> Seq(Task)]
  BY <1>3 DEF Init
<1>5. data \in [Ranks -> Task \cup {<< >>}]
  BY DEF Init
<1> QED BY <1>1, <1>2, <1>4, <1>5, TransferAssumption DEF TypeInv, Init, Start

(* The lists of the cache queue, the two loops and the pools stay typed,    *)
(* also after a put has cleared a mask that was not empty.                  *)
THEOREM TypeCorrect == Spec => []TypeOK
<1>1. TypeInv => TypeOK
  BY DEF TypeInv
<1> QED BY <1>1, InitTyped, StepTyped, PTL DEF Spec

-----------------------------------------------------------------------------
(* Lists of tasks.                                                         *)

LEMMA ConcatAppend ==
    ASSUME NEW s \in Seq(Task), NEW q \in Seq(Task), NEW t \in Task
    PROVE  s \o Append(q, t) = Append(s \o q, t)
<1>1. <<t>> \in Seq(Task)
  OBVIOUS
<1>2. Append(q, t) = q \o <<t>>
  BY AppendIsConcat
<1>3. s \o q \in Seq(Task)
  BY ConcatProperties
<1>4. Append(s \o q, t) = (s \o q) \o <<t>>
  BY <1>3, AppendIsConcat
<1>5. s \o (q \o <<t>>) = (s \o q) \o <<t>>
  BY <1>1, ConcatAssociative
<1> QED BY <1>2, <1>4, <1>5

LEMMA ConcatHead ==
    ASSUME NEW s \in Seq(Task), NEW q \in Seq(Task), q # << >>
    PROVE  Append(s, Head(q)) \o Tail(q) = s \o q
<1> DEFINE h == Head(q)
           u == Tail(q)
<1>1. h \in Task /\ u \in Seq(Task) /\ <<h>> \in Seq(Task)
  BY HeadTailProperties
<1>2. q = <<h>> \o u
  OBVIOUS
<1> HIDE DEF h, u
<1>3. Append(s, h) = s \o <<h>>
  BY <1>1, AppendIsConcat
<1>4. (s \o <<h>>) \o u = s \o (<<h>> \o u)
  BY <1>1, ConcatAssociative
<1> QED BY <1>2, <1>3, <1>4 DEF h, u

LEMMA TaskIn ==
    ASSUME NEW s \in Seq(Task), NEW i \in 1 .. Len(s)
    PROVE  s[i] \in Task /\ s[i].type \in Types
<1>1. s[i] \in Task
  BY ElementOfSeq
<1> QED BY <1>1 DEF Task

LEMMA AppendElements ==
    ASSUME NEW s \in Seq(Task), NEW t \in Task, NEW i \in 1 .. Len(Append(s, t))
    PROVE  \/ i \in 1 .. Len(s) /\ Append(s, t)[i] = s[i]
           \/ i = Len(s) + 1 /\ Append(s, t)[i] = t
<1>1. Len(s) \in Nat /\ Len(Append(s, t)) = Len(s) + 1
  OBVIOUS
<1> QED BY <1>1

LEMMA TailElements ==
    ASSUME NEW s \in Seq(Task), s # << >>, NEW i \in 1 .. Len(Tail(s))
    PROVE  i + 1 \in 1 .. Len(s) /\ i + 1 # 1 /\ Tail(s)[i] = s[i + 1]
<1>1. Len(s) \in Nat /\ Len(Tail(s)) = Len(s) - 1
  OBVIOUS
<1> QED BY <1>1

LEMMA DistinctAppend ==
    ASSUME NEW s \in Seq(Task), NEW t \in Task, Distinct(s), ~TypeIn(t.type, s)
    PROVE  Distinct(Append(s, t))
<1> SUFFICES ASSUME NEW i \in 1 .. Len(Append(s, t)), NEW j \in 1 .. Len(Append(s, t)),
                    Append(s, t)[i].type = Append(s, t)[j].type
             PROVE  i = j
  BY DEF Distinct
<1>1. \/ i \in 1 .. Len(s) /\ Append(s, t)[i] = s[i]
      \/ i = Len(s) + 1 /\ Append(s, t)[i] = t
  BY AppendElements
<1>2. \/ j \in 1 .. Len(s) /\ Append(s, t)[j] = s[j]
      \/ j = Len(s) + 1 /\ Append(s, t)[j] = t
  BY AppendElements
<1> HIDE DEF Distinct
<1> QED BY <1>1, <1>2 DEF Distinct, TypeIn

LEMMA DistinctTail ==
    ASSUME NEW s \in Seq(Task), s # << >>, Distinct(s)
    PROVE  Distinct(Tail(s)) /\ ~TypeIn(Head(s).type, Tail(s))
<1>1. 1 \in 1 .. Len(s) /\ Head(s) = s[1]
  OBVIOUS
<1>2. ASSUME NEW i \in 1 .. Len(Tail(s)) PROVE Tail(s)[i].type # Head(s).type
  <2>1. i + 1 \in 1 .. Len(s) /\ i + 1 # 1 /\ Tail(s)[i] = s[i + 1]
    BY TailElements
  <2> QED BY <1>1, <2>1 DEF Distinct
<1>3. ASSUME NEW i \in 1 .. Len(Tail(s)), NEW j \in 1 .. Len(Tail(s)),
             Tail(s)[i].type = Tail(s)[j].type
      PROVE  i = j
  <2>1. i + 1 \in 1 .. Len(s) /\ Tail(s)[i] = s[i + 1]
    BY TailElements
  <2>2. j + 1 \in 1 .. Len(s) /\ Tail(s)[j] = s[j + 1]
    BY TailElements
  <2>3. i + 1 = j + 1
    BY <1>3, <2>1, <2>2 DEF Distinct
  <2> QED BY <2>3
<1> QED BY <1>2, <1>3 DEF Distinct, TypeIn

LEMMA AppendToEmpty ==
    ASSUME NEW t \in Task, NEW s, s = << >>
    PROVE  Append(s, t) = <<t>> /\ <<t>> # << >> /\ Tail(<<t>>) = << >> /\ Head(<<t>>) = t
OBVIOUS

LEMMA TypeInAppend ==
    ASSUME NEW s \in Seq(Task), NEW t \in Task, NEW p
    PROVE  TypeIn(p, Append(s, t)) <=> TypeIn(p, s) \/ t.type = p
BY DEF TypeIn

LEMMA TypeInTail ==
    ASSUME NEW s \in Seq(Task), s # << >>, NEW p
    PROVE  TypeIn(p, s) <=> Head(s).type = p \/ TypeIn(p, Tail(s))
<1>1. Len(Tail(s)) = Len(s) - 1 /\ \A i \in 1 .. Len(Tail(s)) : Tail(s)[i] = s[i + 1]
  BY HeadTailProperties
<1>2. Head(s) = s[1] /\ Len(s) \in Nat \ {0}
  OBVIOUS
<1>3. \A i \in 2 .. Len(s) : Tail(s)[i - 1] = s[i] /\ i - 1 \in 1 .. Len(Tail(s))
  BY <1>1, <1>2
<1>4. ASSUME TypeIn(p, s), Head(s).type # p PROVE TypeIn(p, Tail(s))
  <2>1. PICK i \in 1 .. Len(s) : s[i].type = p
    BY <1>4 DEF TypeIn
  <2>2. i \in 2 .. Len(s)
    BY <1>2, <1>4, <2>1
  <2>3. i - 1 \in 1 .. Len(Tail(s)) /\ Tail(s)[i - 1].type = p
    BY <1>3, <2>1, <2>2
  <2> QED BY <2>3 DEF TypeIn
<1>5. ASSUME TypeIn(p, Tail(s)) PROVE TypeIn(p, s)
  <2>1. PICK i \in 1 .. Len(Tail(s)) : Tail(s)[i].type = p
    BY <1>5 DEF TypeIn
  <2>2. i + 1 \in 1 .. Len(s) /\ s[i + 1].type = p
    BY <1>1, <1>2, <2>1
  <2> QED BY <2>2 DEF TypeIn
<1>6. ASSUME Head(s).type = p PROVE TypeIn(p, s)
  BY <1>2, <1>6 DEF TypeIn
<1> QED BY <1>4, <1>5, <1>6

LEMMA AppendTimes ==
    ASSUME NEW s \in Seq(Task), NEW t \in Task, NEW u \in Task
    PROVE  /\ Times(u, s) \in Nat
           /\ Times(u, Append(s, t)) = Times(u, s) + (IF u = t THEN 1 ELSE 0)
<1> DEFINE n == Len(s)
           w == Append(s, t)
           at(seq) == {i \in DOMAIN seq : seq[i] = u}
<1>1. n \in Nat /\ DOMAIN s = 1 .. n
  BY LenProperties
<1>2. /\ DOMAIN w = 1 .. n + 1 /\ w[n + 1] = t
      /\ \A i \in 1 .. n : w[i] = s[i]
  OBVIOUS
<1> HIDE DEF n, w
<1>3. at(s) \subseteq 1 .. n /\ n + 1 \notin 1 .. n
  BY <1>1
<1>4. IsFiniteSet(1 .. n)
  BY <1>1, FS_Interval
<1>5. IsFiniteSet(at(s)) /\ Cardinality(at(s)) \in Nat
  BY <1>3, <1>4, FS_Subset, FS_CardinalityType
<1>6. at(w) = IF u = t THEN at(s) \cup {n + 1} ELSE at(s)
  BY <1>1, <1>2
<1>7. n + 1 \notin at(s)
  BY <1>3
<1> HIDE DEF at
<1>8. Cardinality(at(w)) = Cardinality(at(s)) + (IF u = t THEN 1 ELSE 0)
  <2>1. CASE u = t
    <3>1. Cardinality(at(s) \cup {n + 1}) = Cardinality(at(s)) + 1
      BY <1>5, <1>7, FS_AddElement
    <3> QED BY <1>6, <2>1, <3>1
  <2>2. CASE u # t
    BY <1>5, <1>6, <2>2
  <2> QED BY <2>1, <2>2
<1> QED BY <1>5, <1>8 DEF Times, at, w

-----------------------------------------------------------------------------
(* Reading in order.                                                       *)

LEMMA ReadInOrderStep ==
    ASSUME TypeInv, [Next]_vars, ~overwritten => ReadInOrder
    PROVE  ~overwritten' => ReadInOrder'
<1> SUFFICES ASSUME ~overwritten' PROVE ReadInOrder'
  OBVIOUS
<1> USE TransferAssumption
<1>t. /\ task_queue \in Seq(Task) /\ sent \in Seq(Task) /\ \A r \in Ranks : got[r] \in Seq(Task)
      /\ got \in [Ranks -> Seq(Task)]
  BY DEF TypeInv, TypeOK
<1>1. ASSUME NEW p \in Types, PutTransferTask(p) \/ PutRelocked(p) PROVE ReadInOrder'
  <2> DEFINE t == [type |-> p, num |-> put_num[p] + 1]
  <2>1. t \in Task
    BY <1>1 DEF TypeInv, TypeOK, PutTransferTask, PutRelocked, Task
  <2>2. /\ task_queue' = Append(task_queue, t) /\ sent' = Append(sent, t) /\ got' = got
        /\ sync_value' = {} /\ ~overwritten /\ sync_value = {}
    BY <1>1 DEF PutTransferTask, PutRelocked, Append1
  <2> HIDE DEF t
  <2>3. \A r \in Ranks : got[r] \o task_queue = sent
    BY <2>2 DEF ReadInOrder
  <2>4. \A r \in Ranks : got[r] \o Append(task_queue, t) = Append(sent, t)
    <3> TAKE r \in Ranks
    <3>1. got[r] \o Append(task_queue, t) = Append(got[r] \o task_queue, t)
      BY <1>t, <2>1, ConcatAppend
    <3> QED BY <2>3, <3>1
  <2> QED BY <2>2, <2>4 DEF ReadInOrder
<1>2. ASSUME NEW r \in Ranks, GetTransferTask(r) \/ GetTransferTaskLast(r) PROVE ReadInOrder'
  <2>1. /\ r \notin sync_value /\ task_queue # << >> /\ ~overwritten /\ sent' = sent
        /\ got' = [got EXCEPT ![r] = Append(@, Head(task_queue))]
    BY <1>2 DEF GetTransferTask, GetTransferTaskLast, Readable
  <2>2. got[r] \o task_queue = sent
    BY <2>1 DEF ReadInOrder
  <2>3. got'[r] \o Tail(task_queue) = sent'
    BY <1>t, <2>1, <2>2, ConcatHead
  <2>4. CASE GetTransferTask(r)
    <3>1. task_queue' = task_queue /\ sync_value' = sync_value \cup {r}
      BY <2>4 DEF GetTransferTask
    <3>2. ASSUME NEW q \in Ranks
          PROVE  got'[q] \o (IF q \in sync_value' THEN Tail(task_queue') ELSE task_queue') = sent'
      <4>1. CASE q = r
        BY <2>3, <3>1, <4>1
      <4>2. CASE q # r
        BY <1>t, <2>1, <3>1, <4>2 DEF ReadInOrder
      <4> QED BY <4>1, <4>2
    <3> QED BY <3>2 DEF ReadInOrder
  <2>5. CASE GetTransferTaskLast(r)
    <3>1. sync_value' = {} /\ task_queue' = Tail(task_queue) /\ \A q \in Ranks \ {r} : q \in sync_value
      BY <2>5 DEF GetTransferTaskLast
    <3>2. ASSUME NEW q \in Ranks PROVE got'[q] \o task_queue' = sent'
      <4>1. CASE q = r
        BY <2>3, <3>1, <4>1
      <4>2. CASE q # r
        BY <1>t, <2>1, <3>1, <4>2 DEF ReadInOrder
      <4> QED BY <4>1, <4>2
    <3> QED BY <3>1, <3>2 DEF ReadInOrder
  <2> QED BY <1>2, <2>4, <2>5
<1>3. CASE UNCHANGED <<task_queue, sync_value, sent, got, overwritten>>
  BY <1>3 DEF ReadInOrder
<1> QED BY <1>1, <1>2, <1>3
        DEF Next, PutStep, RankStep, JointStep, PutHasToWait, PutSeesRead, TestSignal, LowerSignal,
            GetNothing, TransferData, RaiseSignal, Barrier1, RoundAgain, SwapBarrier1, SwapBarrier2,
            RecvDataTransferResult, queueVars, history, vars

(* Every rank reads every task of the engine once and in the order of the  *)
(* puts, for as long as no put has cleared a mask that was not empty.      *)
THEOREM TasksReadInOrder == Spec => []ReadInOrder
<1> DEFINE J == TypeInv /\ (~overwritten => ReadInOrder)
<1>1. Init => J
  <2>1. Init => ReadInOrder
    BY DEF Init, ReadInOrder
  <2> QED BY <2>1, InitTyped
<1>2. J /\ [Next]_vars => J'
  BY StepTyped, ReadInOrderStep
<1>3. J => ReadInOrder
  BY DEF ReadInOrder
<1> HIDE DEF J
<1> QED BY <1>1, <1>2, <1>3, PTL DEF Spec

-----------------------------------------------------------------------------
(* Where a task is.                                                        *)

(* A task in the queue is on its way. *)
LEMMA QueuedIsOutstanding ==
    ASSUME TypeInv, Places, NEW p \in Types, TypeIn(p, task_queue)
    PROVE  Outstanding(p) /\ \E r \in Ranks : ~Pooled(r, p)
<1>1. PICK r \in Ranks : r \notin sync_value
  BY DEF TypeInv, TypeOK
<1>2. Unread(r, p)
  BY <1>1 DEF Unread, Remaining
<1> QED BY <1>2 DEF Places

(* Steps that move no task. *)
LEMMA PlacesFrame ==
    ASSUME Places, UNCHANGED <<task_queue, sync_value, done_queue, put_num, data, pool>>,
           \A p \in Types : put_pc'[p] = "sync" <=> put_pc[p] = "sync",
           \A r \in Ranks : pc'[r] = "lower" <=> pc[r] = "lower",
           task_queue \in Seq(Task), done_queue \in Seq(Task)
    PROVE  Places'
<1>1. Waited' = Waited
  BY DEF Waited, Current, Task
<1>3. OnlyCurrent(task_queue)' /\ OnlyCurrent(done_queue)'
  BY <1>1 DEF Places, OnlyCurrent, Distinct
<1>4. \A p \in Types : (Outstanding(p)' <=> Outstanding(p)) /\ Current(p)' = Current(p)
  BY DEF Outstanding, Current, TypeIn
<1>5. \A r \in Ranks, p \in Types : /\ Unread(r, p)' <=> Unread(r, p)
                                    /\ Fetched(r, p)' <=> Fetched(r, p)
                                    /\ Pooled(r, p)' <=> Pooled(r, p)
  BY DEF Unread, Remaining, TypeIn, Fetched, Pooled
<1> QED BY <1>3, <1>4, <1>5 DEF Places

LEMMA DueFrame ==
    ASSUME MovedAsDue, UNCHANGED <<moved, put_num>>,
           \A p \in Types : Outstanding(p)' <=> Outstanding(p),
           \A r \in Ranks, p \in Types : stage'[r][p] = "moved" <=> stage[r][p] = "moved"
    PROVE  MovedAsDue'
<1>1. \A t \in Task : t.type \in Types
  BY DEF Task
<1>2. \A r \in Ranks, t \in Task : Due(r, t)' = Due(r, t)
  BY <1>1 DEF Due
<1> QED BY <1>2 DEF MovedAsDue

(* issue_swap_task puts a task while no other of its type is on its way. *)
LEMMA PutPlaces ==
    ASSUME TypeInv, Places, MovedAsDue, NEW p \in Types, ~overwritten',
           PutTransferTask(p) \/ PutRelocked(p)
    PROVE  Places' /\ MovedAsDue'
<1> USE TransferAssumption
<1> DEFINE t == [type |-> p, num |-> put_num[p] + 1]
<1>t. /\ task_queue \in Seq(Task) /\ done_queue \in Seq(Task) /\ put_num \in [Types -> 0 .. MaxTasks]
      /\ put_pc \in [Types -> {"idle", "poll", "relock", "sync"}]
      /\ stage \in [Ranks -> [Types -> {"wait", "move", "moved"}]]
  BY DEF TypeInv, TypeOK
<1>1. t \in Task /\ put_num[p] \in Nat
  BY DEF TypeInv, TypeOK, PutTransferTask, PutRelocked, Task
<1>2. /\ task_queue' = Append(task_queue, t) /\ sync_value' = {} /\ sync_value = {}
      /\ put_num' = [put_num EXCEPT ![p] = @ + 1] /\ put_pc' = [put_pc EXCEPT ![p] = "sync"]
      /\ UNCHANGED <<done_queue, pc, data, pool, stage, moved>>
      /\ put_pc[p] # "sync"
  BY DEF PutTransferTask, PutRelocked, Append1, rankVars
<1>3. t.type = p /\ t.num = put_num[p] + 1 /\ Current(p)' = t
  BY <1>t, <1>2 DEF Current
<1> HIDE DEF t
<1>4. \A i \in 1 .. Len(task_queue) : task_queue[i] \in Task /\ task_queue[i].type # p
  <2> TAKE i \in 1 .. Len(task_queue)
  <2>1. task_queue[i] \in Waited
    BY DEF Places, OnlyCurrent
  <2> QED BY <1>2, <2>1 DEF Waited
<1>5. \A i \in 1 .. Len(done_queue) : done_queue[i] \in Task /\ done_queue[i].type # p
  <2> TAKE i \in 1 .. Len(done_queue)
  <2>1. done_queue[i] \in Waited
    BY DEF Places, OnlyCurrent
  <2> QED BY <1>2, <2>1 DEF Waited
<1>6. ~TypeIn(p, task_queue) /\ ~TypeIn(p, done_queue)
  BY <1>4, <1>5 DEF TypeIn
<1>7. \A o \in Types \ {p} : (Outstanding(o)' <=> Outstanding(o)) /\ Current(o)' = Current(o)
  BY <1>t, <1>2 DEF Outstanding, Current, TypeIn
<1>8. Outstanding(p)' /\ ~Outstanding(p)
  BY <1>t, <1>2, <1>6 DEF Outstanding, TypeIn
<1>f. t \in Waited' /\ \A u \in Waited : u.type # p => u \in Waited'
  <2>1. \A u \in Task : u.type \in Types
    BY DEF Task
  <2> QED BY <1>t, <1>1, <1>2, <1>3, <1>7, <2>1 DEF Waited
<1>9. OnlyCurrent(done_queue)'
  <2>1. \A i \in 1 .. Len(done_queue) : done_queue[i] \in Waited'
    BY <1>5, <1>f DEF Places, OnlyCurrent
  <2> QED BY <1>2, <2>1 DEF Places, OnlyCurrent, Distinct
<1>10. OnlyCurrent(task_queue)'
  <2>1. Distinct(Append(task_queue, t))
    BY <1>t, <1>1, <1>3, <1>6, DistinctAppend DEF Places, OnlyCurrent
  <2>2. ASSUME NEW i \in 1 .. Len(Append(task_queue, t)) PROVE Append(task_queue, t)[i] \in Waited'
    <3>1. \/ i \in 1 .. Len(task_queue) /\ Append(task_queue, t)[i] = task_queue[i]
          \/ i = Len(task_queue) + 1 /\ Append(task_queue, t)[i] = t
      BY <1>t, <1>1, AppendElements
    <3> QED BY <1>4, <1>f, <3>1 DEF Places, OnlyCurrent
  <2> QED BY <1>2, <2>1, <2>2 DEF OnlyCurrent, Distinct
<1>11. ASSUME NEW r \in Ranks, NEW o \in Types
       PROVE  Unread(r, o)' <=> Unread(r, o) \/ o = p
  <2>1. Remaining(r)' = Append(task_queue, t) /\ Remaining(r) = task_queue
    BY <1>2 DEF Remaining
  <2>2. TypeIn(o, Append(task_queue, t)) <=> TypeIn(o, task_queue) \/ t.type = o
    BY <1>t, <1>1, TypeInAppend
  <2> QED BY <1>3, <2>1, <2>2 DEF Unread
<1>12. \A r \in Ranks, o \in Types : (Fetched(r, o)' <=> Fetched(r, o)) /\ (Pooled(r, o)' <=> Pooled(r, o))
  BY <1>2 DEF Fetched, Pooled
<1>13. \A r \in Ranks : ~Fetched(r, p) /\ ~Pooled(r, p)
  BY <1>8 DEF Places
<1>14. Places'
  <2> SUFFICES ASSUME NEW r \in Ranks, NEW o \in Types
               PROVE  /\ Outstanding(o)' => Unread(r, o)' \/ Fetched(r, o)' \/ Pooled(r, o)'
                      /\ Unread(r, o)' => Outstanding(o)' /\ ~Fetched(r, o)' /\ ~Pooled(r, o)'
                      /\ Fetched(r, o)' => Outstanding(o)' /\ ~Pooled(r, o)' /\ data'[r] = Current(o)'
                      /\ Pooled(r, o)' => Outstanding(o)' /\ pool'[r][o] = <<Current(o)'>>
    BY <1>9, <1>10 DEF Places
  <2>1. CASE o = p
    BY <1>8, <1>11, <1>12, <1>13, <2>1
  <2>2. CASE o # p
    BY <1>2, <1>7, <1>11, <1>12, <2>2 DEF Places
  <2> QED BY <2>1, <2>2
<1>15. MovedAsDue'
  <2> SUFFICES ASSUME NEW r \in Ranks, NEW u \in Task PROVE Due(r, u)' = Due(r, u)
    BY <1>2 DEF MovedAsDue
  <2>1. u.type \in Types /\ u.num \in Nat
    BY DEF Task
  <2>2. CASE u.type # p
    BY <1>t, <1>2, <1>7, <2>1, <2>2 DEF Due
  <2>3. CASE u.type = p
    <3>1. stage[r][p] = "wait"
      BY <1>13 DEF TypeInv, Pooled
    <3> QED BY <1>t, <1>1, <1>2, <1>8, <2>1, <2>3, <3>1 DEF Due
  <2> QED BY <2>2, <2>3
<1> QED BY <1>14, <1>15

(* What Places says of one rank and one type. *)
Holds(r, p) ==
    /\ Outstanding(p) => Unread(r, p) \/ Fetched(r, p) \/ Pooled(r, p)
    /\ Unread(r, p) => Outstanding(p) /\ ~Fetched(r, p) /\ ~Pooled(r, p)
    /\ Fetched(r, p) => Outstanding(p) /\ ~Pooled(r, p) /\ data[r] = Current(p)
    /\ Pooled(r, p) => Outstanding(p) /\ pool[r][p] = <<Current(p)>>

LEMMA MovesKeep ==
    ASSUME TypeInv, Places, MovedAsDue, Moves
    PROVE  Places' /\ MovedAsDue'
<1> USE TransferAssumption
<1>t. /\ task_queue \in Seq(Task) /\ done_queue \in Seq(Task)
      /\ put_pc \in [Types -> {"idle", "poll", "relock", "sync"}]
      /\ pc \in [Ranks -> {"top", "barrier1", "test", "get", "lower", "barrier2", "barrier3"}]
  BY DEF TypeInv, TypeOK
<1>1. UNCHANGED <<task_queue, sync_value, done_queue, put_num, data, pool, stage, moved>>
  BY DEF Moves, PutHasToWait, PutSeesRead, TestSignal, GetNothing, RaiseSignal, Barrier1, RoundAgain,
         queueVars, putVars, rankVars, history
<1>2. \A p \in Types : put_pc'[p] = "sync" <=> put_pc[p] = "sync"
  <2>1. ASSUME NEW p \in Types, PutHasToWait(p) \/ PutSeesRead(p)
        PROVE  \A o \in Types : put_pc'[o] = "sync" <=> put_pc[o] = "sync"
    BY <1>t, <2>1 DEF PutHasToWait, PutSeesRead
  <2>2. CASE put_pc' = put_pc
    BY <2>2
  <2> QED BY <2>1, <2>2 DEF Moves, TestSignal, GetNothing, RaiseSignal, Barrier1, RoundAgain, putVars
<1>3. \A r \in Ranks : pc'[r] = "lower" <=> pc[r] = "lower"
  <2>1. ASSUME NEW r \in Ranks, TestSignal(r) \/ GetNothing(r)
        PROVE  \A q \in Ranks : pc'[q] = "lower" <=> pc[q] = "lower"
    BY <1>t, <2>1 DEF TestSignal, GetNothing, Goto, Start
  <2>2. CASE RaiseSignal
    BY <1>t, <2>2 DEF RaiseSignal, Goto
  <2>3. CASE Barrier1 \/ RoundAgain("barrier2") \/ RoundAgain("barrier3")
    BY <2>3 DEF Barrier1, RoundAgain, Start
  <2>4. CASE pc' = pc
    BY <2>4
  <2> QED BY <2>1, <2>2, <2>3, <2>4 DEF Moves, PutHasToWait, PutSeesRead, rankVars
<1>4. Places'
  BY <1>t, <1>1, <1>2, <1>3, PlacesFrame
<1>5. \A p \in Types : Outstanding(p)' <=> Outstanding(p)
  BY <1>1, <1>2 DEF Outstanding, TypeIn
<1>6. MovedAsDue'
  BY <1>1, <1>5, DueFrame
<1> QED BY <1>4, <1>6

(* A rank reads the head: into its pool, or into data if it is the last. *)
LEMMA ReadPlaces ==
    ASSUME TypeInv, Places, MovedAsDue, NEW r \in Ranks, GetTransferTask(r) \/ GetTransferTaskLast(r)
    PROVE  Places' /\ MovedAsDue'
<1> USE TransferAssumption
<1> DEFINE h == Head(task_queue)
           p == h.type
<1>t. /\ task_queue \in Seq(Task) /\ done_queue \in Seq(Task) /\ r \notin sync_value
      /\ pool \in [Ranks -> [Types -> Seq(Task)]] /\ data \in [Ranks -> Task \cup {<< >>}]
      /\ pc \in [Ranks -> {"top", "barrier1", "test", "get", "lower", "barrier2", "barrier3"}]
      /\ task_queue # << >> /\ pc[r] = "get"
  BY DEF TypeInv, TypeOK, GetTransferTask, GetTransferTaskLast, Readable
<1>1. h \in Waited /\ h \in Task /\ p \in Types /\ h = Current(p)
  <2>1. 1 \in 1 .. Len(task_queue) /\ h = task_queue[1]
    BY <1>t
  <2>2. h \in Waited
    BY <2>1 DEF Places, OnlyCurrent
  <2> QED BY <2>2 DEF Waited, Task
<1>2. /\ Distinct(Tail(task_queue)) /\ ~TypeIn(p, Tail(task_queue))
      /\ \A o \in Types : TypeIn(o, task_queue) <=> p = o \/ TypeIn(o, Tail(task_queue))
  BY <1>t, DistinctTail, TypeInTail DEF Places, OnlyCurrent
<1> HIDE DEF h, p
<1>3. UNCHANGED <<done_queue, put_pc, put_num, stage, moved>>
  BY DEF GetTransferTask, GetTransferTaskLast, putVars
<1>4. \A q \in Ranks : Remaining(q)' = IF q = r THEN Tail(task_queue) ELSE Remaining(q)
  <2>1. CASE GetTransferTask(r)
    BY <2>1 DEF Remaining, GetTransferTask
  <2>2. CASE GetTransferTaskLast(r)
    BY <2>2 DEF Remaining, GetTransferTaskLast
  <2> QED BY <2>1, <2>2
<1>5. /\ Waited' = Waited
      /\ \A o \in Types : (Outstanding(o)' <=> Outstanding(o)) /\ Current(o)' = Current(o)
  BY <1>3 DEF Waited, Outstanding, Current, TypeIn
<1>6. OnlyCurrent(task_queue)' /\ OnlyCurrent(done_queue)'
  <2>1. OnlyCurrent(done_queue)'
    BY <1>3, <1>5 DEF Places, OnlyCurrent, Distinct
  <2>2. ASSUME task_queue' = task_queue PROVE OnlyCurrent(task_queue)'
    BY <1>5, <2>2 DEF Places, OnlyCurrent, Distinct
  <2>3. ASSUME task_queue' = Tail(task_queue) PROVE OnlyCurrent(task_queue)'
    <3>1. \A i \in 1 .. Len(Tail(task_queue)) : Tail(task_queue)[i] \in Waited
      BY <1>t, TailElements DEF Places, OnlyCurrent
    <3> QED BY <1>2, <1>5, <2>3, <3>1 DEF OnlyCurrent, Distinct
  <2> QED BY <2>1, <2>2, <2>3 DEF GetTransferTask, GetTransferTaskLast
<1>7. Remaining(r) = task_queue /\ Unread(r, p)
  BY <1>t, <1>1, <1>2 DEF Remaining, Unread
<1>8. Outstanding(p) /\ ~Fetched(r, p) /\ ~Pooled(r, p)
  BY <1>1, <1>7 DEF Places
<1>9. \A q \in Ranks, o \in Types : Unread(q, o)' <=> Unread(q, o) /\ ~(q = r /\ o = p)
  <2> TAKE q \in Ranks, o \in Types
  <2>1. CASE q = r
    <3>1. Unread(q, o)' <=> TypeIn(o, Tail(task_queue))
      BY <1>4, <2>1 DEF Unread, TypeIn
    <3>2. Unread(q, o) <=> TypeIn(o, task_queue)
      BY <1>7, <2>1 DEF Unread
    <3> QED BY <1>2, <2>1, <3>1, <3>2
  <2>2. CASE q # r
    BY <1>4, <2>2 DEF Unread, TypeIn
  <2> QED BY <2>1, <2>2
<1>10. ASSUME NEW q \in Ranks, NEW o \in Types PROVE Holds(q, o)'
  <2>1. Holds(q, o)
    BY DEF Places, Holds
  <2>2. CASE GetTransferTask(r)
    <3>1. pool' = [pool EXCEPT ![r][p] = Append(@, h)] /\ pc' = [pc EXCEPT ![r] = "barrier3"]
          /\ data' = data
      BY <2>2 DEF GetTransferTask, Submit, Goto, h, p
    <3>2. Append(pool[r][p], h) = <<Current(p)>>
      BY <1>1, <1>8, AppendToEmpty DEF Pooled
    <3>3. Fetched(q, o)' <=> Fetched(q, o)
      BY <1>t, <3>1 DEF Fetched
    <3>4. CASE q = r /\ o = p
      <4>1. pool'[q][o] = <<Current(p)>> /\ <<Current(p)>> # << >>
        BY <1>t, <1>1, <3>1, <3>2, <3>4
      <4> QED BY <1>5, <1>8, <1>9, <3>3, <3>4, <4>1 DEF Holds, Pooled
    <3>5. CASE ~(q = r /\ o = p)
      <4>1. pool'[q][o] = pool[q][o]
        BY <1>t, <1>1, <3>1, <3>5
      <4> QED BY <1>5, <1>9, <2>1, <3>1, <3>3, <3>5, <4>1 DEF Holds, Pooled
    <3> QED BY <3>4, <3>5
  <2>3. CASE GetTransferTaskLast(r)
    <3>1. data' = [data EXCEPT ![r] = h] /\ pc' = [pc EXCEPT ![r] = "lower"] /\ pool' = pool
      BY <2>3 DEF GetTransferTaskLast, Goto, h
    <3>2. Pooled(q, o)' <=> Pooled(q, o)
      BY <3>1 DEF Pooled
    <3>3. Fetched(q, o)' <=> Fetched(q, o) \/ (q = r /\ o = p)
      BY <1>t, <1>1, <3>1 DEF Fetched, p
    <3>4. CASE q = r /\ o = p
      <4>1. data'[q] = Current(p)
        BY <1>t, <1>1, <3>1, <3>4
      <4> QED BY <1>5, <1>8, <1>9, <3>2, <3>3, <3>4, <4>1 DEF Holds
    <3>5. CASE ~(q = r /\ o = p)
      <4>1. q = r => ~Fetched(q, o)
        BY <1>t DEF Fetched
      <4>2. q # r => data'[q] = data[q]
        BY <1>t, <3>1
      <4> QED BY <1>5, <1>9, <2>1, <3>1, <3>2, <3>3, <3>5, <4>1, <4>2 DEF Holds
    <3> QED BY <3>4, <3>5
  <2> QED BY <2>2, <2>3
<1>11. Places'
  BY <1>6, <1>10 DEF Places, Holds
<1>12. MovedAsDue'
  BY <1>3, <1>5, DueFrame
<1> QED BY <1>11, <1>12

(* The last rank lowers the signal and hands its task to the pool. *)
LEMMA LowerPlaces ==
    ASSUME TypeInv, Places, MovedAsDue, NEW r \in Ranks, LowerSignal(r)
    PROVE  Places' /\ MovedAsDue'
<1> USE TransferAssumption
<1> DEFINE h == data[r]
           p == h.type
<1>t. /\ pool \in [Ranks -> [Types -> Seq(Task)]]
      /\ pc \in [Ranks -> {"top", "barrier1", "test", "get", "lower", "barrier2", "barrier3"}]
  BY DEF TypeInv, TypeOK
<1>1. h \in Task /\ p \in Types /\ Fetched(r, p)
  BY DEF TypeInv, LowerSignal, Task, Fetched
<1>2. /\ UNCHANGED <<task_queue, sync_value, done_queue, put_pc, put_num, data, stage, moved>>
      /\ pc' = [pc EXCEPT ![r] = "barrier3"] /\ pc[r] = "lower"
      /\ pool' = [pool EXCEPT ![r][p] = Append(@, h)]
  BY DEF LowerSignal, Submit, Goto, putVars, history
<1>3. Outstanding(p) /\ ~Pooled(r, p) /\ h = Current(p) /\ ~Unread(r, p)
  BY <1>1 DEF Places
<1>4. /\ Waited' = Waited
      /\ \A o \in Types : (Outstanding(o)' <=> Outstanding(o)) /\ Current(o)' = Current(o)
      /\ \A q \in Ranks, o \in Types : Unread(q, o)' <=> Unread(q, o)
  BY <1>2 DEF Waited, Outstanding, Current, TypeIn, Unread, Remaining
<1>5. OnlyCurrent(task_queue)' /\ OnlyCurrent(done_queue)'
  BY <1>2, <1>4 DEF Places, OnlyCurrent, Distinct
<1>6. \A q \in Ranks, o \in Types : Fetched(q, o)' <=> Fetched(q, o) /\ q # r
  BY <1>t, <1>2 DEF Fetched
<1>7. \A o \in Types : Fetched(r, o) => o = p
  BY DEF Fetched
<1> HIDE DEF h, p
<1>8. ASSUME NEW q \in Ranks, NEW o \in Types PROVE Holds(q, o)'
  <2>1. Holds(q, o)
    BY DEF Places, Holds
  <2>2. CASE q = r /\ o = p
    <3>1. pool'[q][o] = <<Current(p)>> /\ <<Current(p)>> # << >>
      <4>1. pool[r][p] = << >>
        BY <1>3 DEF Pooled
      <4>2. Append(pool[r][p], h) = <<Current(p)>> /\ <<Current(p)>> # << >>
        BY <1>1, <1>3, <4>1, AppendToEmpty
      <4> QED BY <1>t, <1>1, <1>2, <2>2, <4>2
    <3> QED BY <1>3, <1>4, <1>6, <2>2, <3>1 DEF Holds, Pooled
  <2>3. CASE ~(q = r /\ o = p)
    <3>1. pool'[q][o] = pool[q][o]
      BY <1>t, <1>1, <1>2, <2>3
    <3> QED BY <1>2, <1>4, <1>6, <1>7, <2>1, <2>3, <3>1 DEF Holds, Pooled
  <2> QED BY <2>2, <2>3
<1>9. Places'
  BY <1>5, <1>8 DEF Places, Holds
<1>10. MovedAsDue'
  BY <1>2, <1>4, DueFrame
<1> QED BY <1>9, <1>10

(* The threads of a type meet, and one of them moves its share. *)
LEMMA TransferKeeps ==
    ASSUME TypeInv, Places, MovedAsDue, NEW p \in Types,
           SwapBarrier1(p) \/ \E r \in Ranks : TransferData(r, p)
    PROVE  Places' /\ MovedAsDue'
<1>t. /\ task_queue \in Seq(Task) /\ done_queue \in Seq(Task)
      /\ stage \in [Ranks -> [Types -> {"wait", "move", "moved"}]]
      /\ moved \in [Ranks -> Seq(Task)] /\ put_num \in [Types -> 0 .. MaxTasks]
      /\ \A r \in Ranks, o \in Types : stage[r][o] # "wait" => pool[r][o] # << >>
  BY DEF TypeInv, TypeOK
<1>1. UNCHANGED <<task_queue, sync_value, done_queue, put_pc, put_num, pc, data, pool>>
  BY DEF SwapBarrier1, TransferData, queueVars, putVars
<1>2. Places'
  BY <1>t, <1>1, PlacesFrame
<1>3. \A o \in Types : Outstanding(o)' <=> Outstanding(o)
  BY <1>1 DEF Outstanding, TypeIn
<1>4. CASE SwapBarrier1(p)
  <2>1. moved' = moved /\ \A r \in Ranks, o \in Types : stage'[r][o] = "moved" <=> stage[r][o] = "moved"
    BY <1>t, <1>4 DEF SwapBarrier1, history
  <2> QED BY <1>1, <1>2, <1>3, <2>1, DueFrame
<1>5. ASSUME NEW r \in Ranks, TransferData(r, p) PROVE MovedAsDue'
  <2> DEFINE h == Current(p)
  <2>1. /\ stage[r][p] = "move" /\ stage' = [stage EXCEPT ![r][p] = "moved"]
        /\ moved' = [moved EXCEPT ![r] = Append(@, Head(pool[r][p]))]
    BY <1>5 DEF TransferData
  <2>2. Outstanding(p) /\ pool[r][p] = <<h>>
    BY <1>t, <2>1 DEF Places, Pooled
  <2>3. h.type = p /\ h.num = put_num[p] /\ Head(pool[r][p]) = h
    BY <2>2 DEF Current
  <2>4. h \in Task
    <3>1. pool[r][p] \in Seq(Task) /\ pool[r][p] # << >>
      BY <1>t, <2>1 DEF TypeInv, TypeOK
    <3>2. Head(pool[r][p]) \in Task
      BY <3>1, HeadTailProperties
    <3> QED BY <2>3, <3>2
  <2> HIDE DEF h
  <2>5. moved'[r] = Append(moved[r], h) /\ \A q \in Ranks \ {r} : moved'[q] = moved[q]
    BY <1>t, <2>1, <2>3
  <2> SUFFICES ASSUME NEW q \in Ranks, NEW u \in Task PROVE Times(u, moved'[q]) = Due(q, u)'
    BY DEF MovedAsDue
  <2>6. u.type \in Types /\ u.num \in Nat /\ put_num[u.type] \in Nat /\ Times(u, moved[q]) = Due(q, u)
    BY <1>t DEF Task, MovedAsDue
  <2>7. CASE q = r /\ u = h
    <3>1. Times(u, moved[r]) = 0
      BY <1>t, <2>1, <2>2, <2>3, <2>6, <2>7 DEF Due
    <3>2. Times(u, moved'[q]) = 1
      <4>1. moved[r] \in Seq(Task) /\ moved'[q] = Append(moved[r], h)
        BY <1>t, <2>5, <2>7
      <4>2. Times(u, Append(moved[r], h)) = Times(u, moved[r]) + 1
        BY <2>4, <2>7, <4>1, AppendTimes
      <4>3. Times(u, Append(moved[r], h)) = 1
        BY <3>1, <4>2
      <4> QED BY <4>1, <4>3, Zenon
    <3>3. stage'[r][p] = "moved"
      BY <1>t, <2>1
    <3>4. Due(q, u)' = 1
      BY <1>1, <2>3, <2>6, <2>7, <3>3 DEF Due
    <3> QED BY <3>2, <3>4
  <2>8. CASE ~(q = r /\ u = h)
    <3>1. Times(u, moved'[q]) = Times(u, moved[q])
      <4>1. CASE q = r
        <5>1. moved[r] \in Seq(Task) /\ u # h
          BY <1>t, <2>8, <4>1
        <5>2. Times(u, moved[r]) \in Nat /\ Times(u, Append(moved[r], h)) = Times(u, moved[r]) + 0
          BY <2>4, <5>1, AppendTimes
        <5>3. moved'[q] = Append(moved[r], h) /\ moved[q] = moved[r]
          BY <2>5, <4>1
        <5>4. Times(u, Append(moved[r], h)) = Times(u, moved[r])
          BY <5>2
        <5> QED BY <5>3, <5>4, Zenon
      <4>2. CASE q # r
        BY <2>5, <4>2
      <4> QED BY <4>1, <4>2
    <3>2. Due(q, u)' = Due(q, u)
      <4>1. CASE q = r /\ u.type = p
        <5>1. u.num # put_num[p]
          BY <2>8, <4>1 DEF h, Current, Task
        <5> QED BY <1>1, <4>1, <5>1 DEF Due
      <4>2. CASE ~(q = r /\ u.type = p)
        <5>1. stage'[q][u.type] = stage[q][u.type]
          BY <1>t, <2>1, <2>6, <4>2
        <5> QED BY <1>1, <1>3, <2>6, <5>1 DEF Due
      <4> QED BY <4>1, <4>2
    <3> QED BY <2>6, <3>1, <3>2
  <2> QED BY <2>7, <2>8
<1> QED BY <1>2, <1>4, <1>5

(* The threads meet again, and rank 0 reports the task. *)
LEMMA ReportPlaces ==
    ASSUME TypeInv, Places, MovedAsDue, NEW p \in Types, SwapBarrier2(p)
    PROVE  Places' /\ MovedAsDue'
<1> USE TransferAssumption
<1> DEFINE h == Current(p)
<1>t. /\ task_queue \in Seq(Task) /\ done_queue \in Seq(Task)
      /\ stage \in [Ranks -> [Types -> {"wait", "move", "moved"}]]
      /\ pool \in [Ranks -> [Types -> Seq(Task)]] /\ put_num \in [Types -> 0 .. MaxTasks]
      /\ \A r \in Ranks, o \in Types : stage[r][o] # "wait" => pool[r][o] # << >>
  BY DEF TypeInv, TypeOK
<1>1. /\ UNCHANGED <<task_queue, sync_value, put_pc, put_num, pc, data, moved>>
      /\ \A r \in Ranks : stage[r][p] = "moved"
      /\ stage' = [r \in Ranks |-> [stage[r] EXCEPT ![p] = "wait"]]
      /\ pool' = [r \in Ranks |-> [pool[r] EXCEPT ![p] = Tail(@)]]
      /\ done_queue' = Append(done_queue, Head(pool[Rank0][p]))
  BY DEF SwapBarrier2, putVars, history
<1>2. \A r \in Ranks : Pooled(r, p)
  BY <1>t, <1>1 DEF Pooled
<1>3. /\ Outstanding(p)
      /\ \A r \in Ranks : pool[r][p] = <<h>> /\ ~Unread(r, p) /\ ~Fetched(r, p)
  BY <1>2 DEF Places
<1>4. h \in Task /\ h.type = p /\ h.num = put_num[p]
  <2>1. pool[Rank0][p] \in Seq(Task) /\ pool[Rank0][p] # << >> /\ Head(pool[Rank0][p]) = h
    BY <1>t, <1>2, <1>3 DEF Pooled
  <2>2. Head(pool[Rank0][p]) \in Task
    BY <2>1, HeadTailProperties
  <2> QED BY <2>1, <2>2 DEF Current
<1>5. done_queue' = Append(done_queue, h)
  BY <1>1, <1>3
<1>6. /\ Waited' = Waited /\ h \in Waited
      /\ \A o \in Types : Current(o)' = Current(o)
      /\ \A r \in Ranks, o \in Types : /\ Unread(r, o)' <=> Unread(r, o)
                                       /\ Fetched(r, o)' <=> Fetched(r, o)
  BY <1>1, <1>3, <1>4 DEF Waited, Current, Outstanding, Unread, Remaining, Fetched, TypeIn
<1> HIDE DEF h
<1>7. \A o \in Types : TypeIn(o, Append(done_queue, h)) <=> TypeIn(o, done_queue) \/ o = p
  BY <1>t, <1>4, TypeInAppend
<1>8. ~Outstanding(p)' /\ \A o \in Types \ {p} : Outstanding(o)' <=> Outstanding(o)
  BY <1>1, <1>5, <1>7 DEF Outstanding, TypeIn
<1>9. OnlyCurrent(task_queue)'
  BY <1>1, <1>6 DEF Places, OnlyCurrent, Distinct
<1>10. OnlyCurrent(done_queue)'
  <2>1. ~TypeIn(p, done_queue)
    BY <1>3 DEF Outstanding
  <2>2. Distinct(Append(done_queue, h))
    BY <1>t, <1>4, <2>1, DistinctAppend DEF Places, OnlyCurrent
  <2>3. ASSUME NEW i \in 1 .. Len(Append(done_queue, h)) PROVE Append(done_queue, h)[i] \in Waited
    <3>1. \/ i \in 1 .. Len(done_queue) /\ Append(done_queue, h)[i] = done_queue[i]
          \/ i = Len(done_queue) + 1 /\ Append(done_queue, h)[i] = h
      BY <1>t, <1>4, AppendElements
    <3> QED BY <1>6, <3>1 DEF Places, OnlyCurrent
  <2> QED BY <1>5, <1>6, <2>2, <2>3 DEF OnlyCurrent, Distinct
<1>11. ASSUME NEW r \in Ranks, NEW o \in Types PROVE Holds(r, o)'
  <2>1. CASE o = p
    <3>1. Tail(<<h>>) = << >>
      BY <1>4, AppendToEmpty
    <3>2. pool'[r][o] = << >>
      BY <1>t, <1>1, <1>3, <2>1, <3>1
    <3> QED BY <1>3, <1>6, <1>8, <2>1, <3>2 DEF Holds, Pooled
  <2>2. CASE o # p
    <3>1. pool'[r][o] = pool[r][o]
      BY <1>t, <1>1, <2>2
    <3>2. Holds(r, o)
      BY DEF Places, Holds
    <3> QED BY <1>1, <1>6, <1>8, <2>2, <3>1, <3>2 DEF Holds, Pooled
  <2> QED BY <2>1, <2>2
<1>12. Places'
  BY <1>9, <1>10, <1>11 DEF Places, Holds
<1>13. MovedAsDue'
  <2> SUFFICES ASSUME NEW r \in Ranks, NEW u \in Task PROVE Due(r, u)' = Due(r, u)
    BY <1>1 DEF MovedAsDue
  <2>1. u.type \in Types
    BY DEF Task
  <2>2. CASE u.type = p
    BY <1>1, <1>8, <2>2 DEF Due
  <2>3. CASE u.type # p
    <3>1. stage'[r][u.type] = stage[r][u.type]
      BY <1>t, <1>1, <2>1, <2>3
    <3> QED BY <1>1, <1>8, <2>1, <2>3, <3>1 DEF Due
  <2> QED BY <2>2, <2>3
<1> QED BY <1>12, <1>13

(* recv_data_transfer_result wakes the thread that waits for the task. *)
LEMMA RecvPlaces ==
    ASSUME TypeInv, Places, MovedAsDue, RecvDataTransferResult
    PROVE  Places' /\ MovedAsDue'
<1> USE TransferAssumption
<1> DEFINE h == Head(done_queue)
           p == h.type
<1>t. /\ task_queue \in Seq(Task) /\ done_queue \in Seq(Task) /\ done_queue # << >>
      /\ put_pc \in [Types -> {"idle", "poll", "relock", "sync"}]
  BY DEF TypeInv, TypeOK, RecvDataTransferResult
<1>1. h \in Waited
  <2>1. 1 \in 1 .. Len(done_queue) /\ h = done_queue[1]
    BY <1>t
  <2> QED BY <2>1 DEF Places, OnlyCurrent
<1>2. p \in Types /\ h.num = put_num[p] /\ put_pc[p] = "sync"
  BY <1>1 DEF Waited, Task, Current
<1>3. /\ UNCHANGED <<task_queue, sync_value, put_num, pc, data, pool, stage, moved>>
      /\ done_queue' = Tail(done_queue) /\ put_pc' = [put_pc EXCEPT ![p] = "idle"]
  BY <1>2 DEF RecvDataTransferResult, rankVars, history
<1>4. /\ Distinct(Tail(done_queue)) /\ ~TypeIn(p, Tail(done_queue))
      /\ \A o \in Types : TypeIn(o, done_queue) <=> p = o \/ TypeIn(o, Tail(done_queue))
  BY <1>t, DistinctTail, TypeInTail DEF Places, OnlyCurrent
<1> HIDE DEF h, p
<1>5. \A o \in Types : (Outstanding(o)' <=> Outstanding(o)) /\ Current(o)' = Current(o)
  <2> TAKE o \in Types
  <2>1. CASE o = p
    BY <1>t, <1>2, <1>3, <1>4, <2>1 DEF Outstanding, Current
  <2>2. CASE o # p
    <3>1. put_pc'[o] = put_pc[o] /\ (TypeIn(o, done_queue) <=> TypeIn(o, Tail(done_queue)))
      BY <1>t, <1>3, <1>4, <2>2
    <3> QED BY <1>3, <3>1 DEF Outstanding, Current, TypeIn
  <2> QED BY <2>1, <2>2
<1>6. ~Outstanding(p)
  BY <1>2, <1>4 DEF Outstanding
<1>7. \A u \in Waited : u.type # p => u \in Waited'
  <2>1. \A u \in Task : u.type \in Types
    BY DEF Task
  <2> QED BY <1>t, <1>3, <2>1 DEF Waited, Current
<1>8. OnlyCurrent(done_queue)'
  <2>1. ASSUME NEW i \in 1 .. Len(Tail(done_queue)) PROVE Tail(done_queue)[i] \in Waited'
    <3>1. i + 1 \in 1 .. Len(done_queue) /\ Tail(done_queue)[i] = done_queue[i + 1]
      BY <1>t, TailElements
    <3>2. Tail(done_queue)[i].type # p
      BY <1>4 DEF TypeIn
    <3> QED BY <1>7, <3>1, <3>2 DEF Places, OnlyCurrent
  <2> QED BY <1>3, <1>4, <2>1 DEF OnlyCurrent, Distinct
<1>9. OnlyCurrent(task_queue)'
  <2>1. ~TypeIn(p, task_queue)
    BY <1>2, <1>6, QueuedIsOutstanding
  <2>2. \A i \in 1 .. Len(task_queue) : task_queue[i] \in Waited'
    BY <1>7, <2>1 DEF Places, OnlyCurrent, TypeIn
  <2> QED BY <1>3, <2>2 DEF Places, OnlyCurrent, Distinct
<1>10. \A r \in Ranks, o \in Types : /\ Unread(r, o)' <=> Unread(r, o)
                                     /\ Fetched(r, o)' <=> Fetched(r, o)
                                     /\ Pooled(r, o)' <=> Pooled(r, o)
  BY <1>3 DEF Unread, Remaining, TypeIn, Fetched, Pooled
<1>11. Places'
  BY <1>3, <1>5, <1>8, <1>9, <1>10 DEF Places
<1>12. MovedAsDue'
  BY <1>3, <1>5, DueFrame
<1> QED BY <1>11, <1>12

-----------------------------------------------------------------------------
(* The inductive invariant.                                                *)

LEMMA InitIInv == Init => IInv
<1> SUFFICES ASSUME Init PROVE IInv
  OBVIOUS
<1>1. TypeInv
  BY InitTyped
<1>2. ReadInOrder
  BY DEF Init, ReadInOrder
<1>3. Places
  BY TransferAssumption DEF Init, Places, OnlyCurrent, Distinct, Outstanding, Unread, Remaining, TypeIn,
                            Fetched, Pooled, Start
<1>4. MovedAsDue
  <2> SUFFICES ASSUME NEW r \in Ranks, NEW t \in Task PROVE Times(t, moved[r]) = Due(r, t)
    BY DEF MovedAsDue
  <2>1. t.type \in Types /\ t.num \in Nat /\ t.num > 0
    BY TransferAssumption DEF Task
  <2>2. {i \in DOMAIN moved[r] : moved[r][i] = t} = {}
    BY DEF Init
  <2>3. Times(t, moved[r]) = 0
    BY <2>2, FS_EmptySet DEF Times
  <2>4. Due(r, t) = 0
    BY <2>1 DEF Init, Due
  <2> QED BY <2>3, <2>4
<1> QED BY <1>1, <1>2, <1>3, <1>4 DEF IInv

LEMMA StepIInv == IInv /\ [Next]_vars => IInv'
<1> SUFFICES ASSUME IInv, [Next]_vars PROVE IInv'
  OBVIOUS
<1>1. TypeInv'
  BY StepTyped DEF IInv
<1>2. ~overwritten' => ReadInOrder'
  BY ReadInOrderStep DEF IInv
<1>3. ~overwritten' => ~overwritten
  BY DEF Next, PutStep, RankStep, JointStep, PutTransferTask, PutRelocked, Append1, PutHasToWait,
         PutSeesRead, TestSignal, GetTransferTask, GetTransferTaskLast, LowerSignal, GetNothing,
         TransferData, RaiseSignal, Barrier1, RoundAgain, SwapBarrier1, SwapBarrier2,
         RecvDataTransferResult, history, vars
<1>4. ASSUME ~overwritten' PROVE Places' /\ MovedAsDue'
  <2>1. TypeInv /\ Places /\ MovedAsDue
    BY <1>3, <1>4 DEF IInv
  <2>2. CASE UNCHANGED vars
    <3>1. UNCHANGED <<task_queue, sync_value, done_queue, put_pc, put_num, pc, data, pool, stage, moved>>
      BY <2>2 DEF vars, queueVars, putVars, rankVars, history
    <3>2. task_queue \in Seq(Task) /\ done_queue \in Seq(Task)
      BY <2>1 DEF TypeInv, TypeOK
    <3>3. Places'
      BY <2>1, <3>1, <3>2, PlacesFrame
    <3>4. \A p \in Types : Outstanding(p)' <=> Outstanding(p)
      BY <3>1 DEF Outstanding, TypeIn
    <3> QED BY <2>1, <3>1, <3>3, <3>4, DueFrame
  <2>3. ASSUME NEW p \in Types, PutTransferTask(p) \/ PutRelocked(p) PROVE Places' /\ MovedAsDue'
    BY <1>4, <2>1, <2>3, PutPlaces
  <2>4. ASSUME NEW r \in Ranks, GetTransferTask(r) \/ GetTransferTaskLast(r) PROVE Places' /\ MovedAsDue'
    BY <2>1, <2>4, ReadPlaces
  <2>5. ASSUME NEW r \in Ranks, LowerSignal(r) PROVE Places' /\ MovedAsDue'
    BY <2>1, <2>5, LowerPlaces
  <2>6. ASSUME NEW p \in Types, SwapBarrier1(p) \/ \E r \in Ranks : TransferData(r, p)
        PROVE  Places' /\ MovedAsDue'
    BY <2>1, <2>6, TransferKeeps
  <2>7. ASSUME NEW p \in Types, SwapBarrier2(p) PROVE Places' /\ MovedAsDue'
    BY <2>1, <2>7, ReportPlaces
  <2>8. CASE RecvDataTransferResult
    BY <2>1, <2>8, RecvPlaces
  <2>9. CASE Moves
    BY <2>1, <2>9, MovesKeep
  <2> QED BY <2>2, <2>3, <2>4, <2>5, <2>6, <2>7, <2>8, <2>9 DEF Next, PutStep, RankStep, JointStep, Moves
<1> QED BY <1>1, <1>2, <1>4 DEF IInv

LEMMA IInvMovesDone == IInv => DoneMeansMoved
<1> SUFFICES ASSUME IInv, ~overwritten, NEW t \in Reported, NEW r \in Ranks
             PROVE  Times(t, moved[r]) = 1
  BY DEF DoneMeansMoved, Times
<1> USE TransferAssumption
<1>1. TypeInv /\ Places /\ MovedAsDue
  BY DEF IInv
<1>2. ASSUME NEW i \in DOMAIN done_queue, t = done_queue[i]
      PROVE  t \in Task /\ t.num = put_num[t.type] /\ ~Outstanding(t.type)
  <2>1. i \in 1 .. Len(done_queue)
    BY <1>1, <1>2, LenProperties DEF TypeInv, TypeOK
  <2>2. t \in Waited /\ TypeIn(t.type, done_queue)
    BY <1>1, <1>2, <2>1 DEF Places, OnlyCurrent, TypeIn
  <2> QED BY <2>2 DEF Waited, Current, Outstanding
<1>3. /\ t \in Task
      /\ t.num < put_num[t.type] \/ (t.num = put_num[t.type] /\ ~Outstanding(t.type))
  <2>1. CASE t \in Range(done_queue)
    BY <1>2, <2>1 DEF Range
  <2>2. CASE t \in {u \in Task : u.num < put_num[u.type] \/
                       (u.num = put_num[u.type] /\ put_pc[u.type] = "idle")}
    BY <2>2 DEF Outstanding
  <2> QED BY <2>1, <2>2 DEF Reported
<1>4. t.num \in Nat /\ put_num[t.type] \in Nat
  BY <1>1, <1>3 DEF TypeInv, TypeOK, Task
<1>5. Due(r, t) = 1
  BY <1>3, <1>4 DEF Due
<1> QED BY <1>1, <1>3, <1>5 DEF MovedAsDue

(* A task that rank 0 has reported, or whose thread has been woken, has    *)
(* been moved once by every rank, for as long as no put has cleared a mask *)
(* that was not empty: the blocks of the swap may be given to others.      *)
THEOREM ReportedTasksMoved == Spec => []DoneMeansMoved
BY InitIInv, StepIInv, IInvMovesDone, PTL DEF Spec
=============================================================================
