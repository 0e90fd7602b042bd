----------------------- MODULE DynamicWeightsProofs -----------------------
(***************************************************************************)
(* DynamicWeights for every number of ranks, callers and calls, however    *)
(* the calls overlap: as long as each wish that was written replaced the   *)
(* outcome it follows after all ranks had read that outcome, no model step *)
(* runs on cleared weights and the answers are true.  A wish written out   *)
(* of turn sets raced, which ends the claim.                               *)
(***************************************************************************)
EXTENDS DynamicWeights, TLAPS

(* Where a rank may be, by what it is about. *)
Serving == {"top", "detect", "b2", "check", "run"}
Asking == {"while", "if", "elif"}
Waiting == {"inner", "stopped"}

(* The weights are loaded.  A rank that has not left the wait of the last  *)
(* update may even be loading a second time.                               *)
Loaded ==
    status = 0 => \A r \in Ranks :
        /\ loaded[r]
        /\ pc[r] \in Serving \cup Asking \cup Waiting \cup {"load", "load_barrier", "set_0"}
        /\ r = Rank0 => pc[r] \in Serving \cup Asking \cup Waiting

(* They are being cleared: before the barrier, and after it.               *)
ToClear(r) ==
    /\ pc[r] \in Serving \cup Asking \cup {"clear", "clear_barrier"}
    /\ loaded[r] <=> pc[r] # "clear_barrier"
    /\ pc[r] \notin Serving => is_stop[r] = 0
ClearedNow(r) == ~loaded[r] /\ pc[r] \in Waiting \cup {"set_-2"} /\ is_stop[r] = 0
Clearing ==
    status = -1 => IF pc[Rank0] = "set_-2" THEN \A r \in Ranks : ClearedNow(r)
                                           ELSE \A r \in Ranks : ToClear(r)

(* They are cleared: a rank has seen it, or is about to.                   *)
Cleared ==
    status = -2 => \A r \in Ranks :
        /\ ~loaded[r]
        /\ IF is_stop[r] = 1 THEN pc[r] \in Asking \cup Waiting
                             ELSE pc[r] \in Waiting \cup {"set_-2"}
        /\ r = Rank0 => pc[r] # "set_-2"

(* They are being loaded: before the barrier, and after it.                *)
ToLoad(r) ==
    /\ pc[r] \in Asking \cup Waiting \cup {"load", "load_barrier"}
    /\ pc[r] = "load_barrier" => loaded[r]
    /\ is_stop[r] = 1
LoadedNow(r) ==
    loaded[r] /\ pc[r] \in Asking \cup Waiting \cup {"load", "load_barrier", "set_0"}
Loading ==
    status = 1 => IF pc[Rank0] = "set_0" THEN \A r \in Ranks : LoadedNow(r)
                                         ELSE \A r \in Ranks : ToLoad(r)

(* While the weights are loaded no rank is sent to look at the word.       *)
NoStaleSignal ==
    status = 0 /\ (pc[Rank0] \in {"detect", "b2"} \/ \E r \in Ranks : pc[r] = "check")
        => signal # 2

InPhase == NoStaleSignal /\ Loaded /\ Clearing /\ Cleared /\ Loading

IInv == TypeOK /\ (raced \/ InPhase)

-----------------------------------------------------------------------------
(* Types.                                                                  *)

LEMMA InitTyped == Init => TypeOK
<1> SUFFICES ASSUME Init PROVE TypeOK
  OBVIOUS
<1>1. raced \in BOOLEAN
  BY Zenon DEF Init
<1>2. call \in [Callers -> {"idle"}] /\ answer \in [Callers -> {"none"}]
  BY DEF Init
<1> QED BY <1>1, <1>2 DEF Init, TypeOK

LEMMA StepTyped == TypeOK /\ [Next]_vars => TypeOK'
<1> SUFFICES ASSUME TypeOK, [Next]_vars PROVE TypeOK'
  OBVIOUS
<1> USE WeightsAssumption
<1>1. CASE \E k \in Callers : UpdateModelWeight(k) \/ ClearLoadWeight(k) \/ CallTimesOut(k)
  BY <1>1 DEF TypeOK, UpdateModelWeight, ClearLoadWeight, CallTimesOut, Begin, Return, rankVars
<1>2. CASE \E k \in Callers : CallerStep(k)
  <2>1. ASSUME NEW k \in Callers, UpdateReads(k) \/ ClearReads(k)
        PROVE  TypeOK'
    BY <2>1 DEF TypeOK, UpdateReads, ClearReads, Reads, Return, rankVars
  <2>2. ASSUME NEW k \in Callers, UpdateReturns(k) \/ ClearReturns(k)
        PROVE  TypeOK'
    BY <2>2 DEF TypeOK, UpdateReturns, ClearReturns, Return, rankVars
  <2>3. ASSUME NEW k \in Callers, UpdateWrites(k) \/ ClearWrites(k)
        PROVE  TypeOK'
    <3>1. raced' \in BOOLEAN
      BY <2>3, Zenon DEF UpdateWrites, ClearWrites, Writes
    <3>2. /\ status' \in {1, -1} /\ UNCHANGED <<rankVars, answer, calls>>
          /\ \E l \in {"u_wait", "c_wait"} : call' = [call EXCEPT ![k] = l]
      BY <2>3 DEF UpdateWrites, ClearWrites, Writes
    <3> QED BY <3>1, <3>2 DEF TypeOK, rankVars
  <2> QED BY <1>2, <2>1, <2>2, <2>3 DEF CallerStep
<1>3. CASE WriteSignal \/ (\E found \in BOOLEAN : DetectTasks(found)) \/ SyncSignal
  BY <1>3 DEF TypeOK, callerVars, WriteSignal, DetectTasks, SyncSignal, Goto
<1>4. CASE RunModel \/ WeightsBarrier
  BY <1>4 DEF TypeOK, callerVars, RunModel, WeightsBarrier
<1>5. ASSUME NEW r \in Ranks, CheckSignal(r) \/ InnerStopped(r) PROVE TypeOK'
  BY <1>5 DEF TypeOK, callerVars, CheckSignal, InnerStopped, Goto
<1>6. ASSUME NEW r \in Ranks, WhileNotLoaded(r) \/ IfUpdate(r) \/ IfClear(r) \/ InnerFinished(r)
      PROVE  TypeOK'
  BY <1>6 DEF TypeOK, callerVars, WhileNotLoaded, IfUpdate, IfClear, InnerFinished, Test, Goto
<1>7. ASSUME NEW r \in Ranks, LoadParameters(r) \/ ClearParameters(r) \/ UpdateSharedStatus(r)
      PROVE  TypeOK'
  BY <1>7 DEF TypeOK, callerVars, LoadParameters, ClearParameters, UpdateSharedStatus, Goto
<1>8. CASE UNCHANGED vars
  BY <1>8 DEF TypeOK, vars, rankVars, callerVars
<1> QED BY <1>1, <1>2, <1>3, <1>4, <1>5, <1>6, <1>7, <1>8 DEF Next, RankStep

(* The shared words and the ranks' positions stay within their values,      *)
(* whatever the callers do.                                                 *)
THEOREM TypeCorrect == Spec => []TypeOK
<1> QED BY InitTyped, StepTyped, PTL DEF Spec

-----------------------------------------------------------------------------
(* The callers.                                                            *)

(* Steps that leave the word and the ranks alone. *)
LEMMA RanksUntouched ==
    ASSUME InPhase, UNCHANGED <<status, rankVars>>
    PROVE  InPhase'
<1>1. NoStaleSignal' /\ Loaded' /\ Cleared'
  BY DEF InPhase, NoStaleSignal, Loaded, Cleared, rankVars
<1>2. Clearing' /\ Loading'
  BY DEF InPhase, Clearing, Loading, ToClear, ClearedNow, ToLoad, LoadedNow, rankVars
<1> QED BY <1>1, <1>2 DEF InPhase

(* What the tests at the head of a call lead to. *)
LEMMA ReadsCases ==
    ASSUME NEW k, NEW at, NEW d, NEW asked, NEW next, NEW a, d # asked,
           Reads(k, at, d, asked, next, a)
    PROVE  /\ call[k] = at
           /\ \/ status = d /\ Return(k, a)
              \/ status = asked /\ Return(k, "refused")
              \/ /\ status # d /\ status # asked
                 /\ call' = [call EXCEPT ![k] = next]
                 /\ UNCHANGED <<status, rankVars, answer, calls, raced>>
BY DEF Reads

(* Of a call's steps only the write of its wish touches the word. *)
LEMMA CallerLeavesWord ==
    ASSUME NEW k \in Callers,
           \/ UpdateModelWeight(k) \/ ClearLoadWeight(k) \/ CallTimesOut(k)
           \/ UpdateReads(k) \/ ClearReads(k) \/ UpdateReturns(k) \/ ClearReturns(k)
    PROVE  UNCHANGED <<status, rankVars, raced>>
<1>1. CASE UpdateModelWeight(k) \/ ClearLoadWeight(k)
  BY <1>1 DEF UpdateModelWeight, ClearLoadWeight, Begin
<1>2. CASE CallTimesOut(k) \/ UpdateReturns(k) \/ ClearReturns(k)
  BY <1>2 DEF CallTimesOut, UpdateReturns, ClearReturns, Return
<1>3. CASE UpdateReads(k)
  BY <1>3 DEF UpdateReads, Reads, Return
<1>4. CASE ClearReads(k)
  BY <1>4 DEF ClearReads, Reads, Return
<1> QED BY <1>1, <1>2, <1>3, <1>4

(* A wish written in turn opens the phase that serves it. *)
LEMMA CallerWritesKeeps ==
    ASSUME TypeOK, InPhase, ~raced', NEW k \in Callers, UpdateWrites(k) \/ ClearWrites(k)
    PROVE  InPhase'
<1> USE WeightsAssumption
<1>1. CASE UpdateWrites(k)
  <2>1. InTurn(-2) /\ status' = 1 /\ UNCHANGED rankVars
    BY <1>1, Zenon DEF UpdateWrites, Writes
  <2>2. status = -2 /\ \A r \in Ranks : is_stop[r] = 1
    BY <2>1 DEF InTurn, HasRead
  <2> QED
    BY <2>1, <2>2 DEF InPhase, Loading, Loaded, Clearing, Cleared, NoStaleSignal, ToLoad,
                Asking, Waiting, Serving, rankVars
<1>2. CASE ClearWrites(k)
  <2>1. InTurn(0) /\ status' = -1 /\ UNCHANGED rankVars
    BY <1>2, Zenon DEF ClearWrites, Writes
  <2>2. status = 0 /\ \A r \in Ranks : pc[r] \in Serving
    BY <2>1 DEF InTurn, HasRead, Serving
  <2> QED
    BY <2>1, <2>2 DEF InPhase, Loading, Loaded, Clearing, Cleared, NoStaleSignal, ToClear,
                Asking, Waiting, Serving, rankVars
<1> QED BY <1>1, <1>2

-----------------------------------------------------------------------------
(* The ranks.                                                              *)

LEMMA SignalKeeps ==
    ASSUME TypeOK, InPhase, TypeOK',
           WriteSignal \/ (\E found \in BOOLEAN : DetectTasks(found)) \/ SyncSignal
    PROVE  InPhase'
<1> USE WeightsAssumption
<1>1. /\ UNCHANGED <<status, is_stop, loaded>>
      /\ pc[Rank0] \in Serving
      /\ \A r \in Ranks : IF pc'[r] = pc[r] THEN TRUE ELSE pc[r] \in Serving /\ pc'[r] \in Serving
  <2>1. CASE WriteSignal \/ \E found \in BOOLEAN : DetectTasks(found)
    BY <2>1 DEF WriteSignal, DetectTasks, Goto, InPhase, TypeOK, Serving
  <2>2. CASE SyncSignal
    BY <2>2 DEF SyncSignal, InPhase, TypeOK, Serving
  <2> QED BY <2>1, <2>2
<1>2. NoStaleSignal'
  <2>1. CASE WriteSignal
    BY <2>1 DEF WriteSignal, Goto, NoStaleSignal, InPhase, TypeOK, Loaded, Clearing
  <2>2. CASE \E found \in BOOLEAN : DetectTasks(found)
    BY <2>2 DEF DetectTasks, Goto, NoStaleSignal, InPhase, TypeOK
  <2>3. CASE SyncSignal
    BY <2>3 DEF SyncSignal, NoStaleSignal, InPhase, TypeOK
  <2> QED BY <2>1, <2>2, <2>3
<1>3. Loaded' /\ Cleared'
  BY <1>1 DEF InPhase, Loaded, Cleared, Serving, Asking, Waiting
<1>4. Clearing'
  BY <1>1 DEF InPhase, Clearing, ToClear, ClearedNow, Serving, Asking, Waiting
<1>5. Loading'
  BY <1>1 DEF InPhase, Loading, ToLoad, LoadedNow, Serving, Asking, Waiting
<1> QED BY <1>2, <1>3, <1>4, <1>5 DEF InPhase

LEMMA CheckSignalKeeps ==
    ASSUME TypeOK, InPhase, TypeOK', NEW r \in Ranks, CheckSignal(r)
    PROVE  InPhase'
<1> USE WeightsAssumption
<1>1. /\ UNCHANGED <<status, loaded, signal>> /\ pc[r] = "check"
      /\ pc' = [pc EXCEPT ![r] = IF signal = 2 THEN "while" ELSE "run"]
      /\ is_stop' = [is_stop EXCEPT ![r] = 0]
  BY DEF CheckSignal, Goto
<1>2. status \in {0, -1}
  BY <1>1 DEF InPhase, TypeOK, Loading, Cleared, ToLoad, LoadedNow, Asking, Waiting
<1>3. status = 0 => pc' = [pc EXCEPT ![r] = "run"]
  BY <1>1 DEF InPhase, NoStaleSignal
<1>4. NoStaleSignal' /\ Loaded' /\ Cleared' /\ Loading'
  BY <1>1, <1>2, <1>3 DEF InPhase, TypeOK, NoStaleSignal, Loaded, Cleared, Loading, Serving, Asking, Waiting
<1>5. Clearing'
  BY <1>1, <1>2, <1>3 DEF InPhase, TypeOK, Clearing, ToClear, ClearedNow, Serving, Asking, Waiting
<1> QED BY <1>4, <1>5 DEF InPhase

LEMMA RunModelKeeps ==
    ASSUME TypeOK, InPhase, TypeOK', RunModel
    PROVE  InPhase'
<1> USE WeightsAssumption
<1>1. /\ UNCHANGED <<status, loaded, signal, is_stop>>
      /\ \A r \in Ranks : pc[r] = "run" /\ pc'[r] = "top"
  BY DEF RunModel
<1>2. status \in {0, -1}
  BY <1>1 DEF InPhase, TypeOK, Loading, Cleared, ToLoad, LoadedNow, Asking, Waiting
<1>3. NoStaleSignal' /\ Loaded' /\ Cleared' /\ Loading'
  BY <1>1, <1>2 DEF InPhase, NoStaleSignal, Loaded, Cleared, Loading, Serving, Asking, Waiting
<1>4. Clearing'
  BY <1>1, <1>2 DEF InPhase, Clearing, ToClear, Serving, Asking, Waiting
<1> QED BY <1>3, <1>4 DEF InPhase

(* A rank tests the word, and goes where the value sends it. *)
LEMMA TestKeeps ==
    ASSUME TypeOK, InPhase, TypeOK', NEW r \in Ranks,
           WhileNotLoaded(r) \/ IfUpdate(r) \/ IfClear(r) \/ InnerFinished(r)
    PROVE  InPhase'
<1> USE WeightsAssumption
<1>1. /\ UNCHANGED <<status, loaded, signal, is_stop>>
      /\ \E l \in {"run", "if", "load", "elif", "clear", "inner", "while", "stopped"} :
            pc' = [pc EXCEPT ![r] = l]
      /\ \/ pc[r] = "while" /\ pc'[r] = IF status = 0 THEN "run" ELSE "if"
         \/ pc[r] = "if" /\ pc'[r] = IF status = 1 THEN "load" ELSE "elif"
         \/ pc[r] = "elif" /\ pc'[r] = IF status = -1 THEN "clear" ELSE "inner"
         \/ pc[r] = "inner" /\ pc'[r] = IF status = 0 THEN "while" ELSE "stopped"
  BY DEF WhileNotLoaded, IfUpdate, IfClear, InnerFinished, Test, Goto, InPhase, TypeOK
<1>2. NoStaleSignal'
  BY <1>1 DEF InPhase, TypeOK, NoStaleSignal
<1>3. Loaded'
  BY <1>1 DEF InPhase, TypeOK, Loaded, Serving, Asking, Waiting
<1>4. Clearing'
  BY <1>1 DEF InPhase, TypeOK, Clearing, ToClear, ClearedNow, Serving, Asking, Waiting
<1>5. Cleared'
  BY <1>1 DEF InPhase, TypeOK, Cleared, Serving, Asking, Waiting
<1>6. Loading'
  BY <1>1 DEF InPhase, TypeOK, Loading, ToLoad, LoadedNow, Serving, Asking, Waiting
<1> QED BY <1>2, <1>3, <1>4, <1>5, <1>6 DEF InPhase

LEMMA InnerStoppedKeeps ==
    ASSUME TypeOK, InPhase, TypeOK', NEW r \in Ranks, InnerStopped(r)
    PROVE  InPhase'
<1> USE WeightsAssumption
<1>1. /\ UNCHANGED <<status, loaded, signal>> /\ pc[r] = "stopped"
      /\ \/ /\ is_stop[r] = 1 \/ status = -2
            /\ pc' = [pc EXCEPT ![r] = "while"] /\ is_stop' = [is_stop EXCEPT ![r] = 1]
         \/ /\ is_stop[r] # 1 /\ status # -2
            /\ pc' = [pc EXCEPT ![r] = "inner"] /\ is_stop' = is_stop
  BY DEF InnerStopped, Goto
<1>2. NoStaleSignal'
  BY <1>1 DEF InPhase, TypeOK, NoStaleSignal
<1>3. Loaded'
  BY <1>1 DEF InPhase, TypeOK, Loaded, Serving, Asking, Waiting
<1>4. Clearing'
  BY <1>1 DEF InPhase, TypeOK, Clearing, ToClear, ClearedNow, Serving, Asking, Waiting
<1>5. Cleared'
  BY <1>1 DEF InPhase, TypeOK, Cleared, Serving, Asking, Waiting
<1>6. Loading'
  BY <1>1 DEF InPhase, TypeOK, Loading, ToLoad, LoadedNow, Serving, Asking, Waiting
<1> QED BY <1>2, <1>3, <1>4, <1>5, <1>6 DEF InPhase

LEMMA ParametersKeep ==
    ASSUME TypeOK, InPhase, TypeOK', NEW r \in Ranks, LoadParameters(r) \/ ClearParameters(r)
    PROVE  InPhase'
<1> USE WeightsAssumption
<1>1. /\ UNCHANGED <<status, is_stop, signal>>
      /\ \/ /\ pc[r] = "load" /\ pc' = [pc EXCEPT ![r] = "load_barrier"]
            /\ loaded' = [loaded EXCEPT ![r] = TRUE]
         \/ /\ pc[r] = "clear" /\ pc' = [pc EXCEPT ![r] = "clear_barrier"]
            /\ loaded' = [loaded EXCEPT ![r] = FALSE]
  BY DEF LoadParameters, ClearParameters, Goto
<1>2. NoStaleSignal'
  BY <1>1 DEF InPhase, TypeOK, NoStaleSignal
<1>3. Loaded'
  BY <1>1 DEF InPhase, TypeOK, Loaded, Serving, Asking, Waiting
<1>4. Clearing'
  BY <1>1 DEF InPhase, TypeOK, Clearing, ToClear, ClearedNow, Serving, Asking, Waiting
<1>5. Cleared'
  BY <1>1 DEF InPhase, TypeOK, Cleared, Serving, Asking, Waiting
<1>6. Loading'
  BY <1>1 DEF InPhase, TypeOK, Loading, ToLoad, LoadedNow, Serving, Asking, Waiting
<1> QED BY <1>2, <1>3, <1>4, <1>5, <1>6 DEF InPhase

(* The barrier pairs ranks that clear, or ranks that load. *)
LEMMA WeightsBarrierKeeps ==
    ASSUME TypeOK, InPhase, TypeOK', WeightsBarrier
    PROVE  InPhase'
<1> USE WeightsAssumption
<1>1. /\ UNCHANGED <<status, is_stop, loaded, signal>>
      /\ \A r \in Ranks : /\ pc[r] \in {"load_barrier", "clear_barrier"}
                          /\ pc'[r] = IF pc[r] = "load_barrier" THEN "set_0" ELSE "set_-2"
  BY DEF WeightsBarrier
<1>2. status \in {1, -1}
  BY <1>1 DEF InPhase, TypeOK, Loaded, Cleared, Serving, Asking, Waiting
<1>3. NoStaleSignal' /\ Loaded' /\ Cleared'
  BY <1>1, <1>2 DEF NoStaleSignal, Loaded, Cleared
<1>4. Clearing'
  BY <1>1 DEF InPhase, TypeOK, Clearing, ToClear, ClearedNow, Serving, Asking, Waiting
<1>5. Loading'
  BY <1>1 DEF InPhase, TypeOK, Loading, ToLoad, LoadedNow, Serving, Asking, Waiting
<1> QED BY <1>3, <1>4, <1>5 DEF InPhase

LEMMA UpdateSharedStatusKeeps ==
    ASSUME TypeOK, InPhase, TypeOK', NEW r \in Ranks, UpdateSharedStatus(r)
    PROVE  InPhase'
<1> USE WeightsAssumption
<1>1. /\ UNCHANGED <<is_stop, loaded, signal>>
      /\ pc[r] \in {"set_0", "set_-2"} /\ pc' = [pc EXCEPT ![r] = "inner"]
      /\ status' = IF r = Rank0 THEN (IF pc[r] = "set_0" THEN 0 ELSE -2) ELSE status
  BY DEF UpdateSharedStatus, Goto
<1>2. NoStaleSignal'
  BY <1>1 DEF InPhase, TypeOK, NoStaleSignal, Loaded, Cleared, Clearing, Loading, ToClear, ClearedNow,
              ToLoad, LoadedNow, Serving, Asking, Waiting
<1>3. Loaded'
  BY <1>1 DEF InPhase, TypeOK, Loaded, Cleared, Clearing, Loading, ToClear, ToLoad, LoadedNow,
              Serving, Asking, Waiting
<1>4. Clearing'
  BY <1>1 DEF InPhase, TypeOK, Clearing, ToClear, ClearedNow, Serving, Asking, Waiting
<1>5. Cleared'
  BY <1>1 DEF InPhase, TypeOK, Loaded, Cleared, Clearing, Loading, ToClear, ClearedNow, ToLoad, LoadedNow,
              Serving, Asking, Waiting
<1>6. Loading'
  BY <1>1 DEF InPhase, TypeOK, Loading, ToLoad, LoadedNow, Serving, Asking, Waiting
<1> QED BY <1>2, <1>3, <1>4, <1>5, <1>6 DEF InPhase

(* IInv is inductive. *)
LEMMA StepKeepsIInv == IInv /\ [Next]_vars => IInv'
<1> SUFFICES ASSUME IInv, [Next]_vars PROVE IInv'
  OBVIOUS
<1>1. TypeOK /\ TypeOK'
  BY StepTyped DEF IInv
<1>2. raced' \in BOOLEAN /\ (raced => raced')
  <2>1. CASE \E k \in Callers : UpdateWrites(k) \/ ClearWrites(k)
    BY <1>1, <2>1 DEF UpdateWrites, ClearWrites, Writes, TypeOK
  <2>2. CASE \E k \in Callers : CallTimesOut(k) \/ UpdateModelWeight(k) \/ ClearLoadWeight(k)
                                 \/ UpdateReads(k) \/ ClearReads(k)
                                 \/ UpdateReturns(k) \/ ClearReturns(k)
    BY <1>1, <2>2, CallerLeavesWord DEF TypeOK
  <2>3. CASE raced' = raced
    BY <1>1, <2>3 DEF TypeOK
  <2>4. \/ \E k \in Callers : UpdateModelWeight(k) \/ ClearLoadWeight(k) \/ CallerStep(k)
                              \/ CallTimesOut(k)
        \/ raced' = raced
    BY DEF Next, RankStep, vars, callerVars, WriteSignal, DetectTasks, SyncSignal, RunModel,
       WeightsBarrier, CheckSignal, WhileNotLoaded, IfUpdate, IfClear, InnerFinished, Test,
       InnerStopped, LoadParameters, ClearParameters, UpdateSharedStatus
  <2> QED BY <2>1, <2>2, <2>3, <2>4 DEF CallerStep
<1>3. SUFFICES ASSUME ~raced', InPhase PROVE InPhase'
  BY <1>1, <1>2 DEF IInv
<1>4. CASE \E k \in Callers : UpdateModelWeight(k) \/ ClearLoadWeight(k) \/ CallTimesOut(k)
  BY <1>3, <1>4, CallerLeavesWord, RanksUntouched
<1>5. CASE \E k \in Callers : CallerStep(k)
  BY <1>1, <1>3, <1>5, CallerLeavesWord, RanksUntouched, CallerWritesKeeps DEF CallerStep
<1>6. CASE WriteSignal \/ (\E found \in BOOLEAN : DetectTasks(found)) \/ SyncSignal
  BY <1>1, <1>3, <1>6, SignalKeeps
<1>7. CASE RunModel \/ WeightsBarrier
  BY <1>1, <1>3, <1>7, RunModelKeeps, WeightsBarrierKeeps
<1>8. CASE \E r \in Ranks : RankStep(r)
  BY <1>1, <1>3, <1>8, CheckSignalKeeps, TestKeeps, InnerStoppedKeeps, ParametersKeep,
     UpdateSharedStatusKeeps DEF RankStep
<1>9. CASE UNCHANGED vars
  BY <1>3, <1>9, RanksUntouched DEF vars
<1> QED BY <1>4, <1>5, <1>6, <1>7, <1>8, <1>9 DEF Next

LEMMA InitIInv == Init => IInv
BY InitTyped, WeightsAssumption DEF Init, IInv, InPhase, NoStaleSignal, Loaded, Clearing, Cleared,
   Loading, Serving

(* The inductive invariant: until a wish is written out of turn, word,     *)
(* signal and ranks agree on the phase of the weight change.               *)
THEOREM Invariance == Spec => []IInv
BY InitIInv, StepKeepsIInv, PTL DEF Spec

(* However calls overlap, no model step runs while the weights of any rank *)
(* are cleared, until a wish is written out of turn.                       *)
THEOREM NeverRunsCleared == Spec => []RunsWithWeights
<1>1. IInv => RunsWithWeights
  BY WeightsAssumption DEF IInv, InPhase, TypeOK, RunsWithWeights, Loaded, Clearing, Cleared,
     Loading, ToClear, ClearedNow, ToLoad, LoadedNow, Serving, Asking, Waiting
<1> QED BY <1>1, Invariance, PTL

(* However calls overlap, the answers of update_model_weight and           *)
(* clear_load_weight are true of all ranks when they are given, until a    *)
(* wish is written out of turn.                                            *)
THEOREM AnswersAreTrue == Spec => TrueAnswers
<1> DEFINE True ==
      raced \/ \A k \in Callers : call[k] # "idle" /\ call'[k] = "idle" =>
        /\ answer'[k] = "updated" => \A r \in Ranks : loaded[r]
        /\ answer'[k] = "cleared" => \A r \in Ranks : ~loaded[r]
<1>1. ASSUME IInv, [Next]_vars PROVE [True]_vars
  <2> SUFFICES ASSUME NEW k \in Callers, ~raced, call[k] # "idle", call'[k] = "idle"
               PROVE  /\ answer'[k] = "updated" => status = 0
                      /\ answer'[k] = "cleared" => status = -2
    BY <1>1 DEF IInv, InPhase, Loaded, Cleared
  <2>0. TypeOK
    BY <1>1 DEF IInv
  <2>1. PICK j \in Callers : CallerStep(j) \/ CallTimesOut(j)
    BY <1>1, <2>0 DEF Next, RankStep, vars, callerVars, UpdateModelWeight, ClearLoadWeight,
       Begin, TypeOK, WriteSignal, DetectTasks, SyncSignal, RunModel,
       WeightsBarrier, CheckSignal, WhileNotLoaded, IfUpdate, IfClear, InnerFinished,
       Test, InnerStopped, LoadParameters, ClearParameters, UpdateSharedStatus
  <2>2. ASSUME NEW a, Return(j, a) PROVE j = k /\ answer'[k] = a
    BY <2>0, <2>2 DEF Return, TypeOK
  <2>3. CASE CallTimesOut(j) \/ UpdateReturns(j) \/ ClearReturns(j)
    BY <2>2, <2>3 DEF CallTimesOut, UpdateReturns, ClearReturns
  <2>4. CASE UpdateReads(j)
    <3>1. Reads(j, "u_read", 0, 1, "u_write", "updated")
      BY <2>4 DEF UpdateReads
    <3>2. call' # [call EXCEPT ![j] = "u_write"]
      BY <2>0 DEF TypeOK
    <3> QED BY <2>2, <3>1, <3>2, ReadsCases
  <2>5. CASE ClearReads(j)
    <3>1. Reads(j, "c_read", -2, -1, "c_write", "cleared")
      BY <2>5 DEF ClearReads
    <3>2. call' # [call EXCEPT ![j] = "c_write"]
      BY <2>0 DEF TypeOK
    <3> QED BY <2>2, <3>1, <3>2, ReadsCases
  <2>6. CASE UpdateWrites(j) \/ ClearWrites(j)
    BY <2>0, <2>6 DEF UpdateWrites, ClearWrites, Writes, TypeOK
  <2> QED BY <2>1, <2>3, <2>4, <2>5, <2>6 DEF CallerStep
<1> QED BY <1>1, Invariance, PTL DEF Spec, TrueAnswers
=============================================================================
