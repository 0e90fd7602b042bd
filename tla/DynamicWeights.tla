--------------------------- MODULE DynamicWeights ---------------------------
(***************************************************************************)
(* Clearing and reloading the model's weights in a running service: the    *)
(* shared word model_weights_status, written by the API server             *)
(* (EngineClient.clear_load_weight, update_model_weight) and by rank 0,    *)
(* and polled by every rank (DynamicWeightManager) between two model       *)
(* steps of event_loop_normal.                                             *)
(*                                                                         *)
(*    status  0 weights loaded      -1 a caller wants them cleared         *)
(*            1 a caller wants them -2 cleared                             *)
(*                                                                         *)
(* Every read and write of the word by a rank is a step of its own, and so *)
(* are a caller's tests at the head of a call, its write, and the test     *)
(* that ends its wait.  Barriers and the model's collectives are joint     *)
(* steps of all ranks.  Left out: how long the callers sleep, the process  *)
(* groups that are shut down after a clear and restarted before an update, *)
(* and the KV cache and graph capture after an update.                     *)
(***************************************************************************)
EXTENDS Integers, FiniteSets

CONSTANTS
    Ranks, Rank0,
    Callers,        \* threads of the API server
    MaxCalls        \* bound: calls that are made

ASSUME WeightsAssumption == IsFiniteSet(Ranks) /\ Rank0 \in Ranks /\ MaxCalls \in Nat

VARIABLES
    status,         \* model_weights_status.value[0]
    signal,         \* exist_task_signal.value[0]
    pc,             \* rank -> position in its loop
    is_stop,        \* rank -> is_stop of check_model_weights_status
    loaded,         \* rank -> are its parameters initialised?
    call,           \* caller -> position in its call
    answer,         \* caller -> what its last call returned
    calls,          \* calls made so far
    raced           \* history: a wish was not written in turn, see InTurn

rankVars == <<signal, pc, is_stop, loaded>>
callerVars == <<call, answer, calls, raced>>
vars == <<status, rankVars, callerVars>>

Init ==
    /\ status = 0 /\ signal = 0
    /\ pc = [r \in Ranks |-> "top"]
    /\ is_stop = [r \in Ranks |-> 0]
    /\ loaded = [r \in Ranks |-> TRUE]
    /\ call = [k \in Callers |-> "idle"]
    /\ answer = [k \in Callers |-> "none"]
    /\ calls = 0
    /\ raced = FALSE

-----------------------------------------------------------------------------
(* The API server.  A call reads the word, writes its wish, and polls.     *)
(* Nothing in the server orders the calls, and nobody knows when every     *)
(* rank has read an outcome.                                               *)
Begin(k, first) ==
    /\ call[k] = "idle" /\ calls < MaxCalls
    /\ calls' = calls + 1
    /\ call' = [call EXCEPT ![k] = first]
    /\ UNCHANGED <<status, rankVars, answer, raced>>

(* History: a wish is written in turn when it replaces the outcome that    *)
(* its call is meant to follow, and every rank has read that outcome.      *)
HasRead(r) ==
    \/ status = 0 /\ pc[r] \in {"top", "detect", "b2", "check", "run"}
    \/ status = -2 /\ is_stop[r] = 1
InTurn(outcome) == status = outcome /\ \A r \in Ranks : HasRead(r)

Return(k, a) ==
    /\ call' = [call EXCEPT ![k] = "idle"]
    /\ answer' = [answer EXCEPT ![k] = a]
    /\ UNCHANGED <<status, rankVars, calls, raced>>

UpdateModelWeight(k) == Begin(k, "u_read")
ClearLoadWeight(k) == Begin(k, "c_read")

\* the tests at the top: done already, asked for already, or go on
Reads(k, at, done, asked, next, a) ==
    /\ call[k] = at
    /\ CASE status = done -> Return(k, a)
         [] status = asked -> Return(k, "refused")
         [] OTHER -> /\ call' = [call EXCEPT ![k] = next]
                     /\ UNCHANGED <<status, rankVars, answer, calls, raced>>

UpdateReads(k) == Reads(k, "u_read", 0, 1, "u_write", "updated")
ClearReads(k) == Reads(k, "c_read", -2, -1, "c_write", "cleared")

Writes(k, at, outcome, value, next) ==
    /\ call[k] = at
    /\ status' = value
    /\ raced' = (raced \/ ~InTurn(outcome))
    /\ call' = [call EXCEPT ![k] = next]
    /\ UNCHANGED <<rankVars, answer, calls>>

UpdateWrites(k) == Writes(k, "u_write", -2, 1, "u_wait")
ClearWrites(k) == Writes(k, "c_write", 0, -1, "c_wait")

UpdateReturns(k) == call[k] = "u_wait" /\ status = 0 /\ Return(k, "updated")
ClearReturns(k) == call[k] = "c_wait" /\ status = -2 /\ Return(k, "cleared")
CallTimesOut(k) == call[k] \in {"u_wait", "c_wait"} /\ Return(k, "timeout")

CallerStep(k) ==
    \/ UpdateReads(k) \/ UpdateWrites(k) \/ UpdateReturns(k)
    \/ ClearReads(k) \/ ClearWrites(k) \/ ClearReturns(k)

-----------------------------------------------------------------------------
(* event_loop_normal: rank 0 turns the word into a signal that all ranks   *)
(* test after a barrier; a batch in the queue overwrites it.               *)
Goto(r, l) == pc' = [pc EXCEPT ![r] = l]

WriteSignal ==
    /\ pc[Rank0] = "top"
    /\ signal' = IF status # 0 THEN 2 ELSE 0
    /\ Goto(Rank0, "detect")
    /\ UNCHANGED <<status, is_stop, loaded, callerVars>>

\* variant used to show that a property can fail: the batch is announced on
\* top of the weight change
DetectTasksAdds(found) ==
    /\ pc[Rank0] = "detect" /\ \A r \in Ranks \ {Rank0} : pc[r] = "top"
    /\ signal' = IF found THEN signal + 1 ELSE signal
    /\ Goto(Rank0, "b2")
    /\ UNCHANGED <<status, is_stop, loaded, callerVars>>

\* the first barrier: the other ranks wait for it at "top"
DetectTasks(found) ==
    /\ pc[Rank0] = "detect" /\ \A r \in Ranks \ {Rank0} : pc[r] = "top"
    /\ signal' = IF found THEN 1 ELSE signal
    /\ Goto(Rank0, "b2")
    /\ UNCHANGED <<status, is_stop, loaded, callerVars>>

\* the second barrier
SyncSignal ==
    /\ pc[Rank0] = "b2" /\ \A r \in Ranks \ {Rank0} : pc[r] = "top"
    /\ pc' = [r \in Ranks |-> "check"]
    /\ UNCHANGED <<status, signal, is_stop, loaded, callerVars>>

CheckSignal(r) ==
    /\ pc[r] = "check"
    /\ Goto(r, IF signal = 2 THEN "while" ELSE "run")
    /\ is_stop' = [is_stop EXCEPT ![r] = 0]
    /\ UNCHANGED <<status, signal, loaded, callerVars>>

\* execute_model: the collectives of the model step
RunModel ==
    /\ \A r \in Ranks : pc[r] = "run"
    /\ pc' = [r \in Ranks |-> "top"]
    /\ UNCHANGED <<status, signal, is_stop, loaded, callerVars>>

-----------------------------------------------------------------------------
(* check_model_weights_status: the outer loop reads the word up to three   *)
(* times, the inner loop twice per round.                                  *)
Test(r, at, yes, no, value) ==
    /\ pc[r] = at
    /\ Goto(r, IF status = value THEN yes ELSE no)
    /\ UNCHANGED <<status, signal, is_stop, loaded, callerVars>>

\* variant used to show that a property can fail: cleared weights end the loop
WhileNotLoadedOrCleared(r) == IF status = -2 THEN Test(r, "while", "run", "run", 0)
                                             ELSE Test(r, "while", "run", "if", 0)

WhileNotLoaded(r) == Test(r, "while", "run", "if", 0)
IfUpdate(r) == Test(r, "if", "load", "elif", 1)
IfClear(r) == Test(r, "elif", "clear", "inner", -1)
InnerFinished(r) == Test(r, "inner", "while", "stopped", 0)

(* "break" leaves the inner loop only: the outer one tests again.  With    *)
(* is_stop = 0 only the value -2 ends the wait.                            *)
InnerStopped(r) ==
    /\ pc[r] = "stopped"
    /\ IF is_stop[r] = 1 \/ status = -2
       THEN Goto(r, "while") /\ is_stop' = [is_stop EXCEPT ![r] = 1]
       ELSE Goto(r, "inner") /\ UNCHANGED is_stop
    /\ UNCHANGED <<status, signal, loaded, callerVars>>

\* update_parameters and clear_parameters up to their barrier
LoadParameters(r) ==
    /\ pc[r] = "load"
    /\ loaded' = [loaded EXCEPT ![r] = TRUE]
    /\ Goto(r, "load_barrier")
    /\ UNCHANGED <<status, signal, is_stop, callerVars>>

ClearParameters(r) ==
    /\ pc[r] = "clear"
    /\ loaded' = [loaded EXCEPT ![r] = FALSE]
    /\ Goto(r, "clear_barrier")
    /\ UNCHANGED <<status, signal, is_stop, callerVars>>

\* variant used to show that properties can fail: the barrier is left out
WeightsBarrierMissing ==
    \E r \in Ranks :
        /\ pc[r] \in {"load_barrier", "clear_barrier"}
        /\ Goto(r, IF pc[r] = "load_barrier" THEN "set_0" ELSE "set_-2")
        /\ UNCHANGED <<status, signal, is_stop, loaded, callerVars>>

\* one barrier of the default group, whatever each rank is doing
WeightsBarrier ==
    /\ \A r \in Ranks : pc[r] \in {"load_barrier", "clear_barrier"}
    /\ pc' = [r \in Ranks |-> IF pc[r] = "load_barrier" THEN "set_0" ELSE "set_-2"]
    /\ UNCHANGED <<status, signal, is_stop, loaded, callerVars>>

\* _update_shared_status: only rank 0 writes
UpdateSharedStatus(r) ==
    /\ pc[r] \in {"set_0", "set_-2"}
    /\ status' = IF r = Rank0 THEN (IF pc[r] = "set_0" THEN 0 ELSE -2) ELSE status
    /\ Goto(r, "inner")
    /\ UNCHANGED <<signal, is_stop, loaded, callerVars>>

RankStep(r) ==
    \/ CheckSignal(r) \/ WhileNotLoaded(r) \/ IfUpdate(r) \/ IfClear(r)
    \/ InnerFinished(r) \/ InnerStopped(r)
    \/ LoadParameters(r) \/ ClearParameters(r) \/ UpdateSharedStatus(r)

Next ==
    \/ \E k \in Callers : \/ UpdateModelWeight(k) \/ ClearLoadWeight(k)
                          \/ CallerStep(k) \/ CallTimesOut(k)
    \/ WriteSignal \/ (\E found \in BOOLEAN : DetectTasks(found)) \/ SyncSignal
    \/ RunModel \/ WeightsBarrier
    \/ \E r \in Ranks : RankStep(r)

(* Ranks and callers keep running, and the queue is empty infinitely often *)
(* when rank 0 looks.                                                      *)
Fairness ==
    /\ \A k \in Callers : WF_vars(CallerStep(k))
    /\ \A r \in Ranks : WF_vars(RankStep(r))
    /\ WF_vars(WriteSignal) /\ SF_vars(DetectTasks(FALSE)) /\ WF_vars(SyncSignal)
    /\ WF_vars(RunModel) /\ WF_vars(WeightsBarrier)

Spec == Init /\ [][Next]_vars
FairSpec == Spec /\ Fairness

-----------------------------------------------------------------------------
(* Properties.                                                             *)

(* The word holds one of the values that the two calls and rank 0 write    *)
(* (the docstring of update_model_weight has 2 for a finished update, the  *)
(* code 0), and callers and ranks are somewhere in their loops.            *)
TypeOK ==
    /\ status \in {0, 1, -1, -2} /\ signal \in {0, 1, 2}
    /\ pc \in [Ranks -> {"top", "detect", "b2", "check", "run", "while", "if", "elif",
                         "load", "clear", "load_barrier", "clear_barrier", "set_0",
                         "set_-2", "inner", "stopped"}]
    /\ is_stop \in [Ranks -> {0, 1}] /\ loaded \in [Ranks -> BOOLEAN]
    /\ call \in [Callers -> {"idle", "u_read", "u_write", "u_wait",
                                     "c_read", "c_write", "c_wait"}]
    /\ answer \in [Callers -> {"none", "updated", "cleared", "refused", "timeout"}]
    /\ calls \in Nat /\ raced \in BOOLEAN

(* The ranks never run a model step with parameters cleared on any of      *)
(* them, also when a batch overwrites the signal that announces a weight   *)
(* change.  Claimed until a wish is written out of turn.                   *)
RunsWithWeights ==
    raced \/ ((\A r \in Ranks : pc[r] = "run") => \A r \in Ranks : loaded[r])

(* A caller that is told "updated" finds the weights loaded on all ranks,  *)
(* one that is told "cleared" finds them cleared on all ranks.  Claimed    *)
(* until a wish is written out of turn.                                    *)
TrueAnswers ==
    [][raced \/ \A k \in Callers : call[k] # "idle" /\ call'[k] = "idle" =>
        /\ answer'[k] = "updated" => \A r \in Ranks : loaded[r]
        /\ answer'[k] = "cleared" => \A r \in Ranks : ~loaded[r]]_vars

(* "-2 : worker clear finish and notify client" (clear_load_weight): when  *)
(* the word says so, every rank has cleared its weights.                   *)
ClearIsFinished == status = -2 => \A r \in Ranks : ~loaded[r]

(* "worker update finish and notify client" (update_model_weight): an      *)
(* update that a caller has asked for is finished.                         *)
UpdateFinishes == status = 1 ~> status = 0

(* is_workers_alive reports the server healthy while the word is 0: then   *)
(* the ranks come to a model step, unless a next call intervenes.  Claimed *)
(* until a wish is written out of turn.                                    *)
ServiceResumes ==
    (status = 0 /\ ~raced) ~> (status # 0 \/ raced \/ \A r \in Ranks : pc[r] = "run")
=============================================================================
