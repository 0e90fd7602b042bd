------------------------ MODULE WorkerProcessProofs -------------------------
(***************************************************************************)
(* Proofs about WorkerProcess, for any number of ranks and batches: no     *)
(* rank loses, repeats or reorders a batch or a cache info, the ranks      *)
(* enter every model step with the same batches, and the queue implements  *)
(* TaskBroadcast.                                                          *)
(***************************************************************************)
EXTENDS WorkerProcess, SequenceTheorems, TLAPS

(* Concatenating a one-element sequence appends its element (what get_tasks's *)
(* tasks.extend does to a rank's history).                                    *)
LEMMA ConcatOne ==
    ASSUME NEW s \in Seq(Nat), NEW t \in Seq(Nat), Len(t) = 1
    PROVE  s \o t = Append(s, t[1])
<1> DEFINE x == t[1]
           u == Append(s, x)
<1>0. 1 \in 1 .. Len(t)
  OBVIOUS
<1>1. t[1] \in Nat
  BY <1>0, ElementOfSeq
<1>n. Len(s) \in Nat
  OBVIOUS
<1>x. x \in Nat
  BY <1>1
<1> HIDE DEF x
<1>2. /\ u \in Seq(Nat) /\ Len(u) = Len(s) + 1
      /\ \A i \in 1 .. Len(s) : u[i] = s[i]
      /\ u[Len(s) + 1] = x
  BY <1>x
<1>3. s \o t \in Seq(Nat) /\ Len(s \o t) = Len(s) + Len(t)
  BY ConcatProperties
<1>c. \A i \in 1 .. Len(s) + Len(t) :
        (s \o t)[i] = IF i <= Len(s) THEN s[i] ELSE t[i - Len(s)]
  BY ConcatProperties
<1> HIDE DEF u
<1>4. \A i \in 1 .. Len(s) + 1 : (s \o t)[i] = u[i]
  <2> DEFINE n == Len(s)
             w == s \o t
  <2>1. n \in Nat /\ Len(t) = 1
    BY <1>n
  <2>2. \A i \in 1 .. n + Len(t) : w[i] = IF i <= n THEN s[i] ELSE t[i - n]
    BY <1>c
  <2>3. (\A i \in 1 .. n : u[i] = s[i]) /\ u[n + 1] = t[1]
    BY <1>2 DEF x
  <2> HIDE DEF n, w
  <2>4. \A i \in 1 .. n + 1 : w[i] = u[i]
    BY <2>1, <2>2, <2>3
  <2> QED BY <2>4 DEF n, w
<1>5. s \o t = u
  BY <1>n, <1>2, <1>3, <1>4, SeqEqual
<1> QED BY <1>5 DEF x, u

(* Everything the proofs carry from state to state. *)
IInv == TypeOK /\ ExactlyOnce /\ InfoExactlyOnce /\ PhaseInv

(* The initial state: empty lists, every rank at the top of its loop. *)
LEMMA InitIInv == Init => IInv
  BY ClientsAssumption, RanksAssumption
  DEF Init, QueueInit, IInv, TypeOK, QueueTypeOK, ExactlyOnce, InfoExactlyOnce,
      PhaseInv, SamePhase, ReadsAreDue, QuietInv, SameBatches, SignalRaised,
      ClearPhase, DetectPhase, ReadPhase, AllRead

(* Every step, of a rank, of a messager or of the engine, keeps the types. *)
LEMMA TypeStep == IInv /\ [Next]_vars => TypeOK'
<1> SUFFICES ASSUME IInv, [Next]_vars PROVE TypeOK'
  OBVIOUS
<1> USE DEF IInv, TypeOK, QueueTypeOK
<1>1. CASE PutTasks /\ UNCHANGED workerVars
  BY <1>1 DEF PutTasks, workerVars, infoVars
<1>2. CASE PutCacheInfo /\ UNCHANGED workerVars
  BY <1>2 DEF PutCacheInfo, workerVars, taskVars
<1>3. ASSUME NEW c \in Clients, GetCacheInfo(c) /\ UNCHANGED workerVars PROVE TypeOK'
  BY <1>3 DEF GetCacheInfo, workerVars, taskVars
<1>4. ASSUME NEW c \in Clients, RankStep(c) PROVE TypeOK'
  <2>1. CASE ReadTasks(c)
    BY <2>1 DEF ReadTasks, GetTasks, Goto, infoVars
  <2>2. CASE ClearSignal(c) \/ DetectTasks(c) \/ DetectNothing(c) \/ RaiseSignal(c)
             \/ CheckSignal(c) \/ LowerSignal(c)
    BY <2>2 DEF ClearSignal, DetectTasks, DetectNothing, RaiseSignal, CheckSignal,
             LowerSignal, Goto, queueVars, infoVars, taskVars
  <2> QED BY <1>4, <2>1, <2>2 DEF RankStep
<1>5. CASE BeforeDetect \/ BeforeCheck \/ RunModel
  BY <1>5 DEF BeforeDetect, BeforeCheck, RunModel, Barrier, queueVars, taskVars, infoVars
<1>6. CASE UNCHANGED vars
  BY <1>6 DEF vars, queueVars, workerVars, taskVars, infoVars
<1> QED BY <1>1, <1>2, <1>3, <1>4, <1>5, <1>6 DEF Next
(* No step breaks the match between the read flags, the list and the ranks'   *)
(* histories; get_tasks keeps it because only a rank that is due reads.       *)
LEMMA DeliveryStep == IInv /\ [Next]_vars => ExactlyOnce' /\ InfoExactlyOnce'
<1> SUFFICES ASSUME IInv, [Next]_vars PROVE ExactlyOnce' /\ InfoExactlyOnce'
  OBVIOUS
<1>0. TypeOK /\ ExactlyOnce /\ InfoExactlyOnce
  BY DEF IInv
<1>t. UNCHANGED taskVars => ExactlyOnce'
  BY <1>0 DEF taskVars, ExactlyOnce
<1>i. UNCHANGED infoVars => InfoExactlyOnce'
  BY <1>0 DEF infoVars, InfoExactlyOnce
<1>1. CASE PutTasks /\ UNCHANGED workerVars
  <2>1. PICK batch : tasks' = <<batch>> /\ sent' = Append(sent, batch)
    BY <1>1 DEF PutTasks
  <2>2. \A c \in Clients : client_read_flag'[c] = 0 /\ got'[c] = sent
    BY <1>0, <1>1 DEF PutTasks, AllRead, ExactlyOnce
  <2>3. Len(tasks') = 1 /\ tasks'[1] = batch
    BY <2>1
  <2>4. ExactlyOnce'
    BY <2>1, <2>2, <2>3 DEF ExactlyOnce
  <2> QED BY <1>1, <1>i, <2>4 DEF PutTasks
<1>2. CASE PutCacheInfo /\ UNCHANGED workerVars
  <2>1. infoSent' = infoSent \o cache_infos'
    BY <1>2 DEF PutCacheInfo
  <2>2. \A c \in Clients : client_read_info_flag'[c] = 0 /\ infoGot'[c] = infoSent
    BY <1>0, <1>2 DEF PutCacheInfo, AllRead, InfoExactlyOnce
  <2>3. InfoExactlyOnce'
    BY <2>1, <2>2, SMTT(20) DEF InfoExactlyOnce
  <2> QED BY <1>2, <1>t, <2>3 DEF PutCacheInfo
<1>3. ASSUME NEW c \in Clients, GetCacheInfo(c) /\ UNCHANGED workerVars
      PROVE  ExactlyOnce' /\ InfoExactlyOnce'
  <2>1. infoGot[c] \o cache_infos = infoSent
    BY <1>0, <1>3 DEF GetCacheInfo, InfoExactlyOnce
  <2>2. /\ infoGot' = [infoGot EXCEPT ![c] = infoSent]
        /\ client_read_info_flag' = [client_read_info_flag EXCEPT ![c] = 1]
        /\ infoSent' = infoSent
    BY <1>3, <2>1 DEF GetCacheInfo
  <2>3. AllRead(client_read_info_flag') \/ cache_infos' = cache_infos
    BY <1>3 DEF GetCacheInfo
  <2>4. InfoExactlyOnce'
    BY <1>0, <2>2, <2>3 DEF InfoExactlyOnce, AllRead, TypeOK, QueueTypeOK
  <2> QED BY <1>3, <1>t, <2>4 DEF GetCacheInfo
<1>4. ASSUME NEW c \in Clients, ReadTasks(c)
      PROVE  ExactlyOnce' /\ InfoExactlyOnce'
  <2>1. client_read_flag[c] = 0
    BY <1>4 DEF ReadTasks, IInv, PhaseInv, ReadsAreDue
  <2>2. got[c] \o tasks = sent
    <3>1. /\ got[c] \in Seq(Nat) /\ tasks \in Seq(Nat)
          /\ Len(tasks) = 1 /\ sent = Append(got[c], tasks[1])
      BY <1>0, <2>1 DEF ExactlyOnce, TypeOK, QueueTypeOK
    <3> QED BY <3>1, ConcatOne
  <2>3. /\ got' = [got EXCEPT ![c] = sent]
        /\ client_read_flag' = [client_read_flag EXCEPT ![c] = 1]
        /\ sent' = sent
    BY <1>4, <2>2 DEF ReadTasks, GetTasks
  <2>4. AllRead(client_read_flag') \/ tasks' = tasks
    BY <1>4 DEF ReadTasks, GetTasks
  <2>5. ExactlyOnce'
    BY <1>0, <2>3, <2>4 DEF ExactlyOnce, AllRead, TypeOK, QueueTypeOK
  <2> QED BY <1>4, <1>i, <2>5 DEF ReadTasks, GetTasks
<1>5. CASE UNCHANGED queueVars
  BY <1>5, <1>t, <1>i DEF queueVars
<1>6. ASSUME NEW c \in Clients, RankStep(c)
      PROVE  ReadTasks(c) \/ UNCHANGED queueVars
  BY <1>6 DEF RankStep, ClearSignal, DetectTasks, DetectNothing, RaiseSignal,
              CheckSignal, LowerSignal
<1>7. CASE BeforeDetect \/ BeforeCheck \/ RunModel
  BY <1>5, <1>7 DEF BeforeDetect, BeforeCheck, RunModel, Barrier
<1>8. CASE UNCHANGED vars
  BY <1>5, <1>8 DEF vars
<1> QED BY <1>1, <1>2, <1>3, <1>4, <1>5, <1>6, <1>7, <1>8 DEF Next

(* In a state where all ranks hold the same batches, either all of them owe a *)
(* read of the batch in the list or none does.                                *)
LEMMA FlagsAgree ==
    ASSUME IInv, SameBatches
    PROVE  \A c, d \in Clients : client_read_flag[c] = client_read_flag[d]
<1>0. \A c \in Clients : client_read_flag[c] \in {0, 1}
  BY DEF IInv, TypeOK, QueueTypeOK
<1> SUFFICES ASSUME NEW c \in Clients, NEW d \in Clients,
                    client_read_flag[c] = 0, client_read_flag[d] = 1
             PROVE  FALSE
  BY <1>0
<1>1. sent = Append(got[c], tasks[1]) /\ sent = got[d] /\ got[c] = got[d]
  BY DEF IInv, ExactlyOnce, SameBatches
<1>2. Len(Append(got[c], tasks[1])) = Len(got[c]) + 1 /\ Len(got[c]) \in Nat
  BY DEF IInv, TypeOK, QueueTypeOK
<1> QED BY <1>1, <1>2

(* Every step preserves the phases, the meaning of the signal and the equality *)
(* of the ranks' batches outside the reading phase.                            *)
LEMMA PhaseStep == IInv /\ [Next]_vars => PhaseInv'
<1> SUFFICES ASSUME IInv, [Next]_vars PROVE PhaseInv'
  OBVIOUS
<1> USE DEF ClearPhase, DetectPhase, ReadPhase
<1>0. TypeOK /\ PhaseInv /\ ExactlyOnce
  BY DEF IInv
<1>1. CASE PutTasks /\ UNCHANGED workerVars
  <2>1. /\ client_read_flag' = [c \in Clients |-> 0] /\ got' = got
        /\ AllRead(client_read_flag) /\ UNCHANGED workerVars
    BY <1>1 DEF PutTasks
  <2>2. SameBatches
    BY <1>0, <2>1 DEF ExactlyOnce, AllRead, SameBatches
  <2>3. SamePhase'
    BY <1>0, <2>1 DEF PhaseInv, SamePhase, workerVars
  <2>4. ReadsAreDue'
    BY <1>0, <2>1, <2>2 DEF PhaseInv, ReadsAreDue, workerVars, SignalRaised, SameBatches, AllRead
  <2>5. QuietInv'
    BY <2>1, <2>2, ClientsAssumption DEF QuietInv, SameBatches, AllRead
  <2> QED BY <2>3, <2>4, <2>5 DEF PhaseInv
<1>2. CASE UNCHANGED <<taskVars, workerVars>>
  BY <1>0, <1>2 DEF PhaseInv, SamePhase, ReadsAreDue, QuietInv, taskVars, workerVars,
                    SignalRaised, SameBatches, AllRead
<1>3. ASSUME NEW c \in Clients, ClearSignal(c) PROVE PhaseInv'
  BY <1>0, <1>3 DEF ClearSignal, Goto, PhaseInv, SamePhase, ReadsAreDue, QuietInv, queueVars,
        taskVars, SignalRaised, SameBatches, AllRead, TypeOK
<1>4. ASSUME NEW c \in Clients, DetectTasks(c) \/ DetectNothing(c) PROVE PhaseInv'
  <2>1. pc[c] = "detect" /\ (pc' = [pc EXCEPT ![c] = "set"] \/ pc' = [pc EXCEPT ![c] = "b2"])
        /\ UNCHANGED <<taskVars, exist_task_signal, read_finish_flag>>
    BY <1>4 DEF DetectTasks, DetectNothing, Goto, queueVars
  <2>2. SameBatches
    BY <1>0, <2>1 DEF PhaseInv, ReadsAreDue
  <2>3. DetectTasks(c) => \A d \in Clients : client_read_flag[d] = 0
    <3>1. DetectTasks(c) => ~AllRead(client_read_flag)
      BY <1>0 DEF DetectTasks, PhaseInv, QuietInv
    <3>2. \A a, b \in Clients : client_read_flag[a] = client_read_flag[b]
      BY <2>2, FlagsAgree
    <3> QED BY <1>0, <3>1, <3>2 DEF AllRead, TypeOK, QueueTypeOK
  <2>4. \A d \in Clients : pc[d] \in DetectPhase
    BY <1>0, <2>1 DEF PhaseInv, SamePhase
  <2>5. SamePhase'
    BY <1>0, <2>1, <2>4 DEF SamePhase, TypeOK
  <2>6. ReadsAreDue'
    BY <1>0, <1>4, <2>1, <2>2, <2>3, <2>4 DEF PhaseInv, ReadsAreDue, taskVars, SignalRaised,
        SameBatches, TypeOK, DetectTasks, DetectNothing, Goto
  <2>7. QuietInv'
    BY <1>0, <2>1, <2>2 DEF PhaseInv, QuietInv, taskVars, SignalRaised, SameBatches, AllRead
  <2> QED BY <2>5, <2>6, <2>7 DEF PhaseInv
<1>5. ASSUME NEW c \in Clients, RaiseSignal(c) PROVE PhaseInv'
  BY <1>0, <1>5 DEF RaiseSignal, Goto, PhaseInv, SamePhase, ReadsAreDue, QuietInv, queueVars,
        taskVars, SignalRaised, SameBatches, AllRead, TypeOK
<1>6. ASSUME NEW c \in Clients, CheckSignal(c) PROVE PhaseInv'
  BY <1>0, <1>6 DEF CheckSignal, Goto, PhaseInv, SamePhase, ReadsAreDue, QuietInv, queueVars,
        taskVars, SignalRaised, SameBatches, AllRead, TypeOK
<1>7. ASSUME NEW c \in Clients, ReadTasks(c) PROVE PhaseInv'
  <2>1. ExactlyOnce'
    BY DeliveryStep
  <2>2. /\ pc[c] = "get" /\ SignalRaised /\ SignalRaised'
        /\ \A d \in Clients : pc[d] \in ReadPhase /\ pc[d] # "reset"
    BY <1>0, <1>7 DEF ReadTasks, PhaseInv, SamePhase, ReadsAreDue, SignalRaised, TypeOK
  <2>3. SamePhase'
    BY <1>0, <1>7, <2>2 DEF ReadTasks, Goto, SamePhase, TypeOK
  <2>4. CASE AllRead(client_read_flag')
    <3>1. pc' = [pc EXCEPT ![c] = "reset"] /\ tasks' = << >>
      BY <1>7, <2>4 DEF ReadTasks, Goto, GetTasks
    <3>2. \A d \in Clients \ {c} : pc[d] = "b3"
      <4> SUFFICES ASSUME NEW d \in Clients \ {c} PROVE pc[d] = "b3"
        OBVIOUS
      <4>1. client_read_flag[d] = 1
        BY <1>0, <1>7, <2>4 DEF ReadTasks, GetTasks, AllRead, TypeOK, QueueTypeOK
      <4> QED BY <1>0, <2>2, <4>1 DEF PhaseInv, ReadsAreDue
    <3>3. SameBatches'
      BY <2>1, <2>4 DEF ExactlyOnce, AllRead, SameBatches
    <3>4. /\ \A d \in Clients \ {c} : pc'[d] = "b3"
          /\ pc'[c] = "reset"
      BY <1>0, <3>1, <3>2 DEF TypeOK
    <3> QED BY <2>3, <3>1, <3>3, <3>4 DEF PhaseInv, ReadsAreDue, QuietInv
  <2>5. CASE ~AllRead(client_read_flag')
    <3>1. pc' = [pc EXCEPT ![c] = "b3"] /\ client_read_flag' = [client_read_flag EXCEPT ![c] = 1]
      BY <1>7, <2>5 DEF ReadTasks, Goto, GetTasks
    <3>2. PICK d \in Clients : client_read_flag'[d] # 1
      BY <2>5 DEF AllRead
    <3>3. d # c /\ client_read_flag[d] # 1
      BY <1>0, <3>1, <3>2 DEF TypeOK, QueueTypeOK
    <3>4. pc[d] \in {"check", "get"} /\ pc'[d] = pc[d]
      BY <1>0, <2>2, <3>1, <3>3 DEF PhaseInv, ReadsAreDue, TypeOK
    <3>5. ReadsAreDue'
      BY <1>0, <2>2, <3>1, <3>4 DEF PhaseInv, ReadsAreDue, TypeOK, QueueTypeOK
    <3> QED BY <2>2, <2>3, <2>5, <3>5 DEF PhaseInv, QuietInv
  <2> QED BY <2>4, <2>5
<1>8. ASSUME NEW c \in Clients, LowerSignal(c) PROVE PhaseInv'
  BY <1>0, <1>8 DEF LowerSignal, Goto, PhaseInv, SamePhase, ReadsAreDue, QuietInv, queueVars,
        taskVars, SignalRaised, SameBatches, AllRead, TypeOK
<1>9. CASE BeforeDetect
  BY <1>0, <1>9 DEF BeforeDetect, Barrier, PhaseInv, SamePhase, ReadsAreDue, QuietInv, queueVars,
        taskVars, SignalRaised, SameBatches, AllRead
<1>10. CASE BeforeCheck
  BY <1>0, <1>10 DEF BeforeCheck, Barrier, PhaseInv, SamePhase, ReadsAreDue, QuietInv, queueVars,
        taskVars, SignalRaised, SameBatches, AllRead
<1>11. CASE RunModel
  BY <1>0, <1>11 DEF RunModel, Barrier, PhaseInv, SamePhase, ReadsAreDue, QuietInv, queueVars,
        taskVars, SignalRaised, SameBatches, AllRead
<1> QED
  BY <1>1, <1>2, <1>3, <1>4, <1>5, <1>6, <1>7, <1>8, <1>9, <1>10, <1>11
  DEF Next, RankStep, PutCacheInfo, GetCacheInfo, vars, queueVars

(* The invariant holds in every reachable state. *)
THEOREM Invariance == Spec => []IInv
<1>1. IInv /\ [Next]_vars => IInv'
  BY TypeStep, DeliveryStep, PhaseStep DEF IInv
<1> QED BY InitIInv, <1>1, PTL DEF Spec

(* The queue's and the loop's variables keep their types. *)
THEOREM TypeCorrect == Spec => []TypeOK
  BY Invariance, PTL DEF IInv

(* For any number of ranks, no rank loses, repeats or reorders a batch put by *)
(* put_tasks.                                                                 *)
THEOREM TasksExactlyOnce == Spec => []ExactlyOnce
  BY Invariance, PTL DEF IInv

(* For any number of ranks, no cache messager loses, repeats or reorders an   *)
(* info put by put_cache_info.                                                *)
THEOREM InfosExactlyOnce == Spec => []InfoExactlyOnce
  BY Invariance, PTL DEF IInv

(* For any number of ranks, the two barriers and the model step of            *)
(* event_loop_normal keep the ranks in one phase, and exist_task_signal is up *)
(* only while the batch it announces is due.                                  *)
THEOREM PhasesHold == Spec => []PhaseInv
  BY Invariance, PTL DEF IInv

(* For any number of ranks, the ranks enter execute_model with the same       *)
(* batches.                                                                   *)
THEOREM RanksInLockstep == Spec => []Lockstep
<1>1. IInv => Lockstep
  <2> SUFFICES ASSUME IInv, \A c \in Clients : pc[c] = "b3" PROVE SameBatches
    BY DEF Lockstep, SameBatches
  <2>1. ~SignalRaised
    BY ClientsAssumption DEF IInv, PhaseInv, ReadsAreDue, ReadPhase
  <2> QED BY <2>1 DEF IInv, PhaseInv, QuietInv
<1> QED BY Invariance, <1>1, PTL

(* The queue read by the loop implements the reliable broadcast: every step   *)
(* publishes one batch to ranks that have all received the previous ones,     *)
(* hands one rank its next batch, or changes neither history.                 *)
THEOREM QueueImplementsBroadcast == Spec => ImplementsBroadcast
<1>1. Init => Broadcast!Init
  BY DEF Init, QueueInit, Broadcast!Init
<1>2. IInv /\ [Next]_vars => [Broadcast!Next]_<<sent, got>>
  <2> SUFFICES ASSUME IInv, [Next]_vars PROVE Broadcast!Next \/ UNCHANGED <<sent, got>>
    OBVIOUS
  <2>1. CASE PutTasks
    BY <2>1 DEF PutTasks, Broadcast!Next, Broadcast!Publish, IInv, ExactlyOnce, AllRead
  <2>2. ASSUME NEW c \in Clients, ReadTasks(c) PROVE Broadcast!Receive(c)
    <3>1. client_read_flag[c] = 0 /\ Len(tasks) = 1 /\ sent = Append(got[c], tasks[1])
      BY <2>2 DEF ReadTasks, IInv, PhaseInv, ReadsAreDue, ExactlyOnce
    <3>2. got[c] \in Seq(Nat) /\ tasks \in Seq(Nat) /\ tasks[1] \in Nat
      BY <3>1 DEF IInv, TypeOK, QueueTypeOK
    <3>3. Len(got[c]) < Len(sent) /\ sent[Len(got[c]) + 1] = tasks[1]
      BY <3>1, <3>2
    <3>4. got[c] \o tasks = Append(got[c], tasks[1])
      BY <3>1, <3>2, ConcatOne
    <3>5. got' = [got EXCEPT ![c] = got[c] \o tasks] /\ sent' = sent
      BY <2>2 DEF ReadTasks, GetTasks
    <3> QED BY <3>3, <3>4, <3>5 DEF Broadcast!Receive
  <2>3. CASE UNCHANGED taskVars
    BY <2>3 DEF taskVars
  <2>4. ASSUME NEW c \in Clients, RankStep(c) PROVE ReadTasks(c) \/ UNCHANGED taskVars
    BY <2>4 DEF RankStep, ClearSignal, DetectTasks, DetectNothing, RaiseSignal,
                CheckSignal, LowerSignal, queueVars
  <2> QED
    BY <2>1, <2>2, <2>3, <2>4
    DEF Next, Broadcast!Next, PutCacheInfo, GetCacheInfo, BeforeDetect, BeforeCheck, RunModel,
        Barrier, vars, queueVars
<1> QED BY Invariance, <1>1, <1>2, PTL DEF Spec, ImplementsBroadcast, Broadcast!Spec
=============================================================================
