--------------------------- MODULE GlobalScheduler ---------------------------
(***************************************************************************)
(* fastdeploy/scheduler/global_scheduler.py: schedulers of several engines *)
(* that share Redis.  Requests wait in the queue of the scheduler that     *)
(* received them (their home); an idle scheduler steals from a loaded one; *)
(* responses go back to the home.                                          *)
(*                                                                         *)
(* Each Redis command is a step, and so is each section under self.mutex.  *)
(* Per scheduler five threads are modelled: the put_requests worker, the   *)
(* engine's get_requests, the put_results worker, _get_results_worker, and *)
(* the caller of get_results.  A process may crash; its instance key then  *)
(* expires, while its queue stays in Redis and can still be stolen from.   *)
(*                                                                         *)
(* A request id is a model value, unique in the cluster.  Which of the     *)
(* pulled requests fit the engine (blocks, token budget, chunk limits) is  *)
(* a choice: the arithmetic is that of LocalScheduler!GetRequests.  The    *)
(* two lpop calls for half a batch each are one.  TTLs are left out.       *)
(***************************************************************************)
EXTENDS Integers, Sequences, FiniteSets, SequencesExt, ListOps

CONSTANTS
    Scheds,         \* scheduler instances
    Reqs, Home,     \* requests, and the scheduler each is put to
    Batch,          \* batch of get_requests
    MinLoad,        \* min_load_score
    Length,         \* request -> its responses, the last of them finished
    Resets, Crashes,\* bound: schedulers that may be reset once, or crash
    Nothing         \* no request, no scheduler

ASSUME GlobalAssumption ==
    /\ Nothing \notin Reqs /\ Nothing \notin Scheds
    /\ Home \in [Reqs -> Scheds] /\ Batch \in Nat \ {0} /\ MinLoad \in Nat \ {0}
    /\ Length \in [Reqs -> Nat \ {0}] /\ Resets \subseteq Scheds /\ Crashes \subseteq Scheds

VARIABLES
    req_queue,      \* Redis: {topic}.req.{name}
    resp_queue,     \* Redis: {topic}.resp.{name}
    load,           \* Redis: {topic}.load, 0 when the member is absent
    instance,       \* Redis: the names whose {topic}.ins.{name} exists
    mem,            \* local_responses (its keys and contents), stolen_requests
    put,            \* the put_requests worker
    get,            \* get_requests: where it is, the queue it read, what it took
    engine,         \* requests the engine works on
    out,            \* put_results_workers: tasks, current batch, what to rpush
    alive,          \* processes that have not crashed
    emitted,        \* history: request -> responses produced
    delivered,      \* history: request -> responses its client has got
    begun,          \* history: requests put so far
    hurt,           \* history: requests that a reset or crash has struck
    skewed,         \* history: schedulers whose load a fault has falsified
    was_reset       \* history: schedulers that have been reset

redis == <<req_queue, resp_queue, load, instance>>
faults == <<alive, hurt, skewed, was_reset>>
vars == <<redis, mem, put, get, engine, out, emitted, delivered, begun, faults>>

NoBatch == [results |-> << >>, batch |-> << >>, local |-> {}, stolen |-> {}, pushing |-> << >>]
IdleGet == [pc |-> "idle", from |-> Nothing, names |-> {}, taken |-> << >>]
IdlePut == [pc |-> "idle", req |-> Nothing]
Empty == [tracked |-> {}, responses |-> << >>, stolen |-> {}]

Init ==
    /\ req_queue = [s \in Scheds |-> << >>] /\ resp_queue = [s \in Scheds |-> << >>]
    /\ load = [s \in Scheds |-> 0] /\ instance = Scheds
    /\ mem = [s \in Scheds |-> Empty] /\ put = [s \in Scheds |-> IdlePut]
    /\ get = [s \in Scheds |-> IdleGet] /\ engine = [s \in Scheds |-> {}]
    /\ out = [s \in Scheds |-> NoBatch]
    /\ alive = Scheds /\ begun = {}
    /\ emitted = [r \in Reqs |-> 0] /\ delivered = [r \in Reqs |-> << >>]
    /\ hurt = {} /\ skewed = {} /\ was_reset = {}

-----------------------------------------------------------------------------
(* put_requests: register the request, rpush it, count it.                 *)
PutRequests(r) ==
    LET s == Home[r]
    IN  /\ s \in alive /\ r \notin begun /\ put[s].pc = "idle"
        /\ begun' = begun \cup {r}
        /\ mem' = [mem EXCEPT ![s].tracked = @ \cup {r}]
        /\ put' = [put EXCEPT ![s] = [pc |-> "push", req |-> r]]
        /\ UNCHANGED <<redis, get, engine, out, emitted, delivered, faults>>

PutPush(s) ==
    /\ put[s].pc = "push"
    /\ req_queue' = [req_queue EXCEPT ![s] = Append(@, put[s].req)]
    /\ put' = [put EXCEPT ![s].pc = "count"]
    /\ UNCHANGED <<resp_queue, load, instance, mem, get, engine, out,
                   emitted, delivered, begun, faults>>

PutCount(s) ==
    /\ put[s].pc = "count"
    /\ load' = [load EXCEPT ![s] = @ + 1]
    /\ put' = [put EXCEPT ![s] = IdlePut]
    /\ UNCHANGED <<req_queue, resp_queue, instance, mem, get, engine, out,
                   emitted, delivered, begun, faults>>

-----------------------------------------------------------------------------
(* get_requests.                                                           *)
getFrame == <<resp_queue, instance, mem, put, engine, out, emitted,
              delivered, begun, alive, hurt, was_reset>>

\* a range is read but not trimmed
PopPeeks(s, q, n, otherwise) ==
    LET k == IF Len(req_queue[q]) < n THEN Len(req_queue[q]) ELSE n
    IN  /\ get' = [get EXCEPT ![s] =
                     IF k = 0 THEN [@ EXCEPT !.pc = otherwise]
                     ELSE [@ EXCEPT !.pc = "count", !.from = q, !.taken = SubSeq(req_queue[q], 1, k)]]
        /\ UNCHANGED <<req_queue, load, getFrame, skewed>>

\* lpop: up to n requests of q, to be subtracted from its load; or go on
Pop(s, q, n, otherwise) ==
    LET k == IF Len(req_queue[q]) < n THEN Len(req_queue[q]) ELSE n
    IN  /\ req_queue' = [req_queue EXCEPT ![q] = SubSeq(@, k + 1, Len(@))]
        /\ get' = [get EXCEPT ![s] =
                     IF k = 0 THEN [@ EXCEPT !.pc = otherwise]
                     ELSE [@ EXCEPT !.pc = "count", !.from = q, !.taken = SubSeq(req_queue[q], 1, k)]]
        /\ UNCHANGED <<load, getFrame, skewed>>

GetLocal(s) == s \in alive /\ get[s].pc = "idle" /\ Pop(s, s, Batch, "lookup")

\* the scheduler itself is not left out
LookupSelf(s) ==
    /\ get[s].pc = "lookup"
    /\ \E q \in Scheds : /\ load[q] >= MinLoad
                         /\ get' = [get EXCEPT ![s].pc = "steal", ![s].from = q]
    /\ UNCHANGED <<req_queue, load, getFrame, skewed>>

\* zrangebyscore and the choice of the lucky one
Lookup(s) ==
    /\ get[s].pc = "lookup"
    /\ LET others == {q \in Scheds \ {s} : load[q] >= MinLoad}
       IN  IF others = {}
           THEN get' = [get EXCEPT ![s].pc = "block"]
           ELSE \E q \in others :
                    get' = [get EXCEPT ![s].pc = "steal", ![s].from = q, ![s].names = others]
    /\ UNCHANGED <<req_queue, load, getFrame, skewed>>

Steal(s) == get[s].pc = "steal" /\ Pop(s, get[s].from, (Batch + 1) \div 2, "exists")

\* the lucky one's queue was empty: forget it if its process is gone
RemoveDead(s) ==
    /\ get[s].pc = "exists"
    /\ LET q == get[s].from
       IN  /\ load' = IF q \in instance THEN load ELSE [load EXCEPT ![q] = 0]
           /\ skewed' = IF q \in instance THEN skewed ELSE skewed \cup {q}
    /\ get' = [get EXCEPT ![s].pc = "block"]
    /\ UNCHANGED <<req_queue, getFrame>>

\* blpop on its own queue, then on those it has just looked up
BlockingPop(s) ==
    /\ get[s].pc = "block"
    /\ LET ready == {q \in get[s].names \cup {s} : req_queue[q] # << >>}
       IN  CASE s \in ready -> Pop(s, s, 1, "idle")
             [] s \notin ready /\ ready # {} -> \E q \in ready : Pop(s, q, 1, "idle")
             [] ready = {} -> /\ get' = [get EXCEPT ![s] = IdleGet]
                              /\ UNCHANGED <<req_queue, load, getFrame, skewed>>

(* zincrby; then the first k fit, and those of another scheduler are       *)
(* entered in stolen_requests.                                             *)
CountAndFit(s, k) ==
    LET mine == {get[s].taken[i] : i \in 1 .. k}
        rest == SubSeq(get[s].taken, k + 1, Len(get[s].taken))
    IN  /\ get[s].pc = "count" /\ k <= Len(get[s].taken)
        /\ load' = [load EXCEPT ![get[s].from] = @ - Len(get[s].taken)]
        /\ mem' = [mem EXCEPT ![s].stolen = @ \cup {r \in mine : Home[r] # s}]
        /\ engine' = [engine EXCEPT ![s] = @ \cup mine]
        /\ get' = [get EXCEPT ![s] = IF rest = << >> THEN IdleGet
                                     ELSE [@ EXCEPT !.pc = "back", !.taken = rest]]
        /\ UNCHANGED <<req_queue, resp_queue, instance, put, out, emitted,
                       delivered, begun, faults>>

\* pushed back to its own queue instead of the one it was taken from
PutBackToSelf(s) ==
    /\ get[s].pc = "back"
    /\ req_queue' = [req_queue EXCEPT ![s] = Reverse(get[s].taken) \o @]
    /\ get' = [get EXCEPT ![s].pc = "recount"]
    /\ UNCHANGED <<load, getFrame, skewed>>

\* lpush with several values leaves the last of them in front
PutBack(s) ==
    /\ get[s].pc = "back"
    /\ req_queue' = [req_queue EXCEPT ![get[s].from] = Reverse(get[s].taken) \o @]
    /\ get' = [get EXCEPT ![s].pc = "recount"]
    /\ UNCHANGED <<load, getFrame, skewed>>

Recount(s) ==
    /\ get[s].pc = "recount"
    /\ load' = [load EXCEPT ![get[s].from] = @ + Len(get[s].taken)]
    /\ get' = [get EXCEPT ![s] = IdleGet]
    /\ UNCHANGED <<req_queue, getFrame, skewed>>

-----------------------------------------------------------------------------
(* The engine produces a response (external), and put_results hands it to  *)
(* the worker.                                                             *)
PutResults(s, r) ==
    /\ s \in alive /\ r \in engine[s]
    /\ emitted' = [emitted EXCEPT ![r] = @ + 1]
    /\ out' = [out EXCEPT ![s].results = Append(@, [req |-> r, n |-> emitted[r] + 1])]
    /\ engine' = [engine EXCEPT ![s] = IF emitted[r] + 1 = Length[r] THEN @ \ {r} ELSE @]
    /\ UNCHANGED <<redis, mem, put, get, delivered, begun, faults>>

Of(seq, R) == Kept(seq, [req : R, n : Nat])
Numbers(seq) == [i \in DOMAIN seq |-> seq[i].n]
Finished(seq) == {r \in Reqs : \E i \in DOMAIN seq : seq[i] = [req |-> r, n |-> Length[r]]}

\* _put_results_worker: which requests are local, and which are stolen
TakeBatch(s) ==
    /\ s \in alive /\ out[s].results # << >> /\ out[s].batch = << >> /\ out[s].pushing = << >>
    /\ out' = [out EXCEPT ![s] = [@ EXCEPT !.results = << >>, !.batch = out[s].results,
                                           !.local = mem[s].tracked, !.stolen = mem[s].stolen]]
    /\ UNCHANGED <<redis, mem, put, get, engine, emitted, delivered, begun, faults>>

\* a stolen request is forgotten with its first response
ApplyBatchForgets(s) ==
    LET b == out[s].batch
        mine == Of(b, out[s].local)
    IN  /\ b # << >> /\ \A i \in DOMAIN mine : mine[i].req \in mem[s].tracked
        /\ mem' = [mem EXCEPT ![s].responses = @ \o mine,
                              ![s].stolen = @ \ {b[i].req : i \in DOMAIN b}]
        /\ out' = [out EXCEPT ![s].batch = << >>,
                              ![s].pushing = Of(b, out[s].stolen \ out[s].local)]
        /\ UNCHANGED <<redis, put, get, engine, emitted, delivered, begun, faults>>

(* The second section.  A request that was local and is not tracked any    *)
(* more raises KeyError, and the whole batch is gone.  A response of an    *)
(* unknown request is dropped.                                             *)
ApplyBatch(s) ==
    LET b == out[s].batch
        mine == Of(b, out[s].local)
        raises == \E i \in DOMAIN mine : mine[i].req \notin mem[s].tracked
    IN  /\ b # << >>
        /\ IF raises
           THEN out' = [out EXCEPT ![s].batch = << >>] /\ UNCHANGED mem
           ELSE /\ mem' = [mem EXCEPT ![s].responses = @ \o mine,
                                      ![s].stolen = @ \ Finished(b)]
                /\ out' = [out EXCEPT ![s].batch = << >>,
                                      ![s].pushing = Of(b, out[s].stolen \ out[s].local)]
        /\ UNCHANGED <<redis, put, get, engine, emitted, delivered, begun, faults>>

\* rpush of the responses that go to one home
PushStolen(s, h) ==
    LET there == {r \in Reqs : Home[r] = h}
    IN  /\ Of(out[s].pushing, there) # << >>
        /\ resp_queue' = [resp_queue EXCEPT ![h] = @ \o Of(out[s].pushing, there)]
        /\ out' = [out EXCEPT ![s].pushing = Of(@, Reqs \ there)]
        /\ UNCHANGED <<req_queue, load, instance, mem, put, get, engine,
                       emitted, delivered, begun, faults>>

\* _get_results_worker: lpop, and keep what belongs to a tracked request
GetResultsWorker(s) ==
    /\ s \in alive /\ resp_queue[s] # << >>
    /\ mem' = [mem EXCEPT ![s].responses = @ \o Of(resp_queue[s], mem[s].tracked)]
    /\ resp_queue' = [resp_queue EXCEPT ![s] = << >>]
    /\ UNCHANGED <<req_queue, load, instance, put, get, engine, out,
                   emitted, delivered, begun, faults>>

\* get_results: everything there is; finished requests are tracked no more
GetResults(s) ==
    /\ s \in alive /\ mem[s].responses # << >>
    /\ delivered' = [r \in Reqs |-> delivered[r] \o Numbers(Of(mem[s].responses, {r}))]
    /\ mem' = [mem EXCEPT ![s].responses = << >>,
                          ![s].tracked = @ \ Finished(mem[s].responses)]
    /\ UNCHANGED <<redis, put, get, engine, out, emitted, begun, faults>>

-----------------------------------------------------------------------------
(* reset, called from the control endpoint of the API server, and a crash. *)
RequestsOf(s) == {r \in Reqs : Home[r] = s}
InHand(s) ==    \* what a scheduler would leave unanswered
    engine[s] \cup (IF get[s].pc = "recount" THEN {} ELSE Range(get[s].taken))
      \cup {x.req : x \in Range(out[s].results \o out[s].batch \o out[s].pushing)}

Reset(s) ==
    /\ s \in (Resets \cap alive) \ was_reset
    /\ req_queue' = [req_queue EXCEPT ![s] = << >>]
    /\ resp_queue' = [resp_queue EXCEPT ![s] = << >>]
    /\ load' = [load EXCEPT ![s] = 0]
    /\ mem' = [mem EXCEPT ![s] = Empty]
    /\ was_reset' = was_reset \cup {s}
    /\ hurt' = hurt \cup (begun \cap RequestsOf(s)) \cup InHand(s)
    /\ skewed' = skewed \cup {s}
    /\ UNCHANGED <<instance, put, get, engine, out, emitted, delivered, begun, alive>>

Crash(s) ==
    /\ s \in Crashes \cap alive
    /\ alive' = alive \ {s}
    /\ mem' = [mem EXCEPT ![s] = Empty] /\ put' = [put EXCEPT ![s] = IdlePut]
    /\ get' = [get EXCEPT ![s] = IdleGet] /\ engine' = [engine EXCEPT ![s] = {}]
    /\ out' = [out EXCEPT ![s] = NoBatch]
    /\ hurt' = hurt \cup RequestsOf(s) \cup InHand(s)
    /\ skewed' = skewed \cup (IF get[s].pc \in {"count", "recount"} THEN {get[s].from} ELSE {})
                        \cup (IF put[s].pc = "count" THEN {s} ELSE {})
    /\ UNCHANGED <<redis, emitted, delivered, begun, was_reset>>

\* _keep_alive renews the instance key while the process lives
Expire(s) ==
    /\ s \in instance \ alive
    /\ instance' = instance \ {s}
    /\ UNCHANGED <<req_queue, resp_queue, load, mem, put, get, engine, out,
                   emitted, delivered, begun, faults>>

-----------------------------------------------------------------------------
Next ==
    \/ \E r \in Reqs : PutRequests(r)
    \/ \E s \in Scheds :
        \/ PutPush(s) \/ PutCount(s)
        \/ GetLocal(s) \/ Lookup(s) \/ Steal(s) \/ RemoveDead(s) \/ BlockingPop(s)
        \/ \E k \in 0 .. Batch : CountAndFit(s, k)
        \/ PutBack(s) \/ Recount(s)
        \/ \E r \in Reqs : PutResults(s, r)
        \/ TakeBatch(s) \/ ApplyBatch(s) \/ \E h \in Scheds : PushStolen(s, h)
        \/ GetResultsWorker(s) \/ GetResults(s)
        \/ Reset(s) \/ Crash(s) \/ Expire(s)

Spec == Init /\ [][Next]_vars

-----------------------------------------------------------------------------
(* Properties.                                                             *)
Response == UNION {[req : {r}, n : 1 .. Length[r]] : r \in Reqs}

PutState == [pc : {"idle", "push", "count"}, req : Reqs \cup {Nothing}]
GetSteps == {"idle", "lookup", "steal", "exists", "block", "count", "back", "recount"}
GetState == [pc : GetSteps,
             from : Scheds \cup {Nothing}, names : SUBSET Scheds, taken : Seq(Reqs)]
OutState == [results : Seq(Response), batch : Seq(Response), pushing : Seq(Response),
             local : SUBSET Reqs, stolen : SUBSET Reqs]
MemState == [tracked : SUBSET Reqs, responses : Seq(Response), stolen : SUBSET Reqs]

(* Types of the Redis keys, of the schedulers' dictionaries and of their   *)
(* threads; nobody steals from itself.                                     *)
TypeOK ==
    /\ req_queue \in [Scheds -> Seq(Reqs)] /\ resp_queue \in [Scheds -> Seq(Response)]
    /\ load \in [Scheds -> Int] /\ instance \in SUBSET Scheds
    /\ mem \in [Scheds -> MemState] /\ put \in [Scheds -> PutState]
    /\ get \in [Scheds -> GetState] /\ out \in [Scheds -> OutState]
    /\ engine \in [Scheds -> SUBSET Reqs]
    /\ emitted \in [Reqs -> Nat] /\ \A r \in Reqs : emitted[r] <= Length[r]
    /\ delivered \in [Reqs -> Seq(Nat)] /\ begun \in SUBSET Reqs /\ hurt \in SUBSET Reqs
    /\ alive \in SUBSET Scheds /\ skewed \in SUBSET Scheds /\ was_reset \in SUBSET Scheds
    /\ \A s \in Scheds : /\ put[s].pc # "idle" => put[s].req \in Reqs
                         /\ s \notin get[s].names
                         /\ get[s].pc = "steal" => get[s].from \in Scheds \ {s}
                         /\ get[s].pc \in {"exists", "count", "back", "recount"} =>
                                get[s].from \in Scheds

\* where a request can be: the places of a scheduler, and what they hold
Kinds == {"put", "queue", "pulled", "engine", "answered"}
Pulled(s) == IF get[s].pc = "recount" THEN << >> ELSE get[s].taken
At(kind, s) ==
    CASE kind = "put" -> {r \in Reqs : put[s] = [pc |-> "push", req |-> r]}
      [] kind = "queue" -> Range(req_queue[s])
      [] kind = "pulled" -> Range(Pulled(s))
      [] kind = "engine" -> engine[s]
      [] kind = "answered" -> {r \in Reqs : Home[r] = s /\ emitted[r] = Length[r]}
Holders(r) == {p \in Kinds \X Scheds : r \in At(p[1], p[2])}
Once(seq) == \A i, j \in DOMAIN seq : i # j => seq[i] # seq[j]

(* Until it is answered, a request that no reset or crash has struck is in *)
(* exactly one place: being put, in one queue, pulled by one scheduler, or *)
(* in one engine, whatever several schedulers pull, steal and put back.    *)
(* No list ever names a request twice.                                     *)
InOnePlace ==
    /\ \A r \in begun \ hurt : \E p \in Kinds \X Scheds : Holders(r) = {p}
    /\ \A s \in Scheds : Once(req_queue[s]) /\ Once(Pulled(s))

(* The responses of such a request pass, complete and in order, through    *)
(* the executing scheduler, Redis and the home to the client.              *)
AtExecutor(r, s) == Of(out[s].pushing \o out[s].batch \o out[s].results, {r})
AtHome(r) == Of(mem[Home[r]].responses \o resp_queue[Home[r]], {r})
Stream(r) ==
    LET from == {s \in Scheds : AtExecutor(r, s) # << >>}
    IN  delivered[r] \o Numbers(AtHome(r))
          \o (IF from = {} THEN << >> ELSE Numbers(AtExecutor(r, CHOOSE s \in from : TRUE)))

StreamsIntact == \A r \in begun \ hurt : Stream(r) = [i \in 1 .. emitted[r] |-> i]

(* The load by which others choose whom to steal from is the length of the *)
(* queue, up to the commands that are still on their way: no interleaving  *)
(* of pushes, pops, thefts and puts back makes it drift.                   *)
OnTheWay(q, pc) ==
    UNION {{s} \X DOMAIN get[s].taken : s \in {t \in Scheds : get[t].from = q /\ get[t].pc = pc}}
LoadIsQueueLength ==
    \A q \in Scheds \ skewed :
        load[q] = Len(req_queue[q]) + Cardinality(OnTheWay(q, "count"))
                    - Cardinality(OnTheWay(q, "recount")) - (IF put[q].pc = "count" THEN 1 ELSE 0)
=============================================================================
