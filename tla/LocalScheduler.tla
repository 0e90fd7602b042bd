--------------------------- MODULE LocalScheduler ---------------------------
(***************************************************************************)
(* fastdeploy/scheduler/local_scheduler.py: the queue between the clients, *)
(* who put requests and collect results, and the engine, which gets        *)
(* requests as its resources allow and puts results back.                  *)
(*                                                                         *)
(* Every method holds self.mutex, so a call is one step; the four callers  *)
(* are threads that interleave.  Clients never reuse the id of an earlier  *)
(* request (the API server draws a uuid).  A response is its number in the *)
(* request's stream.                                                       *)
(***************************************************************************)
EXTENDS Integers, Sequences, FiniteSets, ListOps

CONSTANTS
    Ids,            \* request ids that may arrive
    PromptLen,      \* id -> number of prompt tokens
    MaxSize,        \* max_size, 0 for unlimited
    BlockSize,      \* block_size
    Reserved,       \* reserved_output_blocks
    MaxBatched,     \* max_num_batched_tokens
    Chunked,        \* enable_chunked_prefill
    MaxPartial,     \* max_num_partial_prefills
    MaxLong,        \* max_long_partial_prefills
    LongThreshold,  \* long_prefill_token_threshold
    MaxBlocks,      \* blocks of the engine
    MaxBatch,       \* positions of the engine
    MaxResponses,   \* bound: responses to one request
    MaxResets       \* bound: calls of reset

ASSUME SizesAssumption ==
    /\ PromptLen \in [Ids -> Nat \ {0}] /\ IsFiniteSet(Ids)
    /\ MaxSize \in Nat /\ BlockSize \in Nat \ {0} /\ Reserved \in Nat /\ MaxBatched \in Nat
    /\ Chunked \in BOOLEAN /\ MaxPartial \in Nat /\ MaxLong \in Nat /\ LongThreshold \in Nat
    /\ MaxBlocks \in Nat /\ MaxBatch \in Nat /\ MaxResponses \in Nat \ {0} /\ MaxResets \in Nat

VARIABLES
    ids,            \* self.ids
    ids_read_cursor,\* self.ids_read_cursor: ids before it have been handed out
    requests,       \* keys of self.requests
    responses,      \* self.responses: id -> numbers of its responses
    accepted,       \* history: ids ever accepted
    handed,         \* engine: id -> times get_requests returned it
    produced,       \* engine: id -> responses put
    done,           \* engine: ids it has finished
    delivered,      \* client: id -> numbers of the responses it got
    dropped,        \* history: ids known to the scheduler when it was reset
    resets          \* calls of reset so far

schedulerVars == <<ids, ids_read_cursor, requests, responses>>
vars == <<schedulerVars, accepted, handed, produced, done, delivered, dropped, resets>>

Init ==
    /\ ids = << >> /\ ids_read_cursor = 0 /\ requests = {}
    /\ responses = [r \in Ids |-> << >>]
    /\ accepted = {}
    /\ handed = [r \in Ids |-> 0] /\ produced = [r \in Ids |-> 0] /\ done = {}
    /\ delivered = [r \in Ids |-> << >>]
    /\ dropped = {} /\ resets = 0

-----------------------------------------------------------------------------
(* Mutant: the room is not checked against the new request. *)
RoomForOneMore == MaxSize = 0 \/ Cardinality(requests) <= MaxSize

(* put_requests of one request: refused when there is no room, ignored when  *)
(* its id is known; neither changes anything.  _recycle() comes first and    *)
(* returns at once: it would only go on to the expired requests with more    *)
(* than max_size of them, which SizeBounded excludes.                        *)
Room == MaxSize = 0 \/ Cardinality(requests) + 1 <= MaxSize

PutRequests(r) ==
    /\ Room
    /\ r \notin accepted
    /\ requests' = requests \cup {r}
    /\ ids' = Append(ids, r)
    /\ accepted' = accepted \cup {r}
    /\ UNCHANGED <<ids_read_cursor, responses, handed, produced, done, delivered,
                   dropped, resets>>

(* calc_required_blocks, with the blocks reserved for output. *)
Required(r) == (PromptLen[r] + BlockSize - 1) \div BlockSize + Reserved

(* The sum of f over the first k ids from the cursor on. *)
Total(f, k) ==
    LET sum[i \in 0 .. k] == IF i = 0 THEN 0 ELSE sum[i - 1] + f[ids[ids_read_cursor + i]]
    IN  sum[k]

(* The first k ids from the cursor on can be handed out together. *)
Fits(k, blocks) ==
    /\ Total([r \in Ids |-> Required(r)], k) <= blocks
    /\ IF Chunked
       THEN /\ Total([r \in Ids |-> IF PromptLen[r] > LongThreshold THEN 1 ELSE 0], k) <= MaxLong
            /\ k <= MaxPartial
       ELSE Total(PromptLen, k) <= MaxBatched

(* get_requests: as many of the next batch ids as fit.  With no blocks to    *)
(* spare it returns at once.                                                 *)
GetRequests(blocks, batch) ==
    /\ blocks > Reserved /\ batch >= 1
    /\ \E k \in 1 .. batch :
          /\ ids_read_cursor + k <= Len(ids)
          /\ Fits(k, blocks)
          /\ k # batch /\ ids_read_cursor + k # Len(ids) => ~Fits(k + 1, blocks)
          /\ ids_read_cursor' = ids_read_cursor + k
          /\ handed' = [r \in Ids |-> handed[r] +
                Cardinality({i \in 1 .. k : ids[ids_read_cursor + i] = r})]
    /\ UNCHANGED <<ids, requests, responses, accepted, produced, done, delivered,
                   dropped, resets>>

-----------------------------------------------------------------------------
(* Mutant: a second response replaces the first. *)
AddedReplaces(r, n) == <<n>>

(* self.responses[id] = [response], or .append(response). *)
Added(r, n) == Append(responses[r], n)

(* The token processor puts one response for each of a batch of requests it  *)
(* works on, the last one for those that finish.  What belongs to no known   *)
(* request is dropped.                                                       *)
Working == {r \in Ids : handed[r] > 0} \ done
PutResults(batch, finished) ==
    /\ batch # {} /\ finished \subseteq batch
    /\ \A r \in batch : produced[r] + 1 = MaxResponses => r \in finished
    /\ produced' = [r \in Ids |-> IF r \in batch THEN produced[r] + 1 ELSE produced[r]]
    /\ done' = done \cup finished
    /\ responses' = [r \in Ids |->
          IF r \in batch \cap requests THEN Added(r, produced[r] + 1) ELSE responses[r]]
    /\ UNCHANGED <<ids, ids_read_cursor, requests, accepted, handed, delivered,
                   dropped, resets>>

(* Mutant: the cursor does not move back. *)
CursorStays(n) == ids_read_cursor

(* _recycle(id) for n ids: each moves the cursor back by one. *)
CursorBack(n) == ids_read_cursor - n

(* get_results: hands over all responses, and recycles the requests whose    *)
(* last response is among them.                                              *)
GetResults ==
    LET got == {r \in Ids : responses[r] # << >>}
        over == got \cap done
    IN  /\ got # {}
        /\ delivered' = [r \in Ids |-> delivered[r] \o responses[r]]
        /\ responses' = [r \in Ids |-> << >>]
        /\ requests' = requests \ over
        /\ ids' = Kept(ids, Ids \ over)
        /\ ids_read_cursor' = CursorBack(Cardinality(over))
        /\ UNCHANGED <<accepted, handed, produced, done, dropped, resets>>

(* Mutant: the cursor keeps its place. *)
ResetKeepsCursor ==
    /\ resets < MaxResets /\ resets' = resets + 1
    /\ ids' = << >> /\ requests' = {} /\ responses' = [r \in Ids |-> << >>]
    /\ dropped' = dropped \cup requests
    /\ UNCHANGED <<ids_read_cursor, accepted, handed, produced, done, delivered>>

(* reset, which /controller/reset_scheduler calls while the engine works. *)
Reset ==
    /\ resets < MaxResets /\ resets' = resets + 1
    /\ ids' = << >> /\ ids_read_cursor' = 0 /\ requests' = {}
    /\ responses' = [r \in Ids |-> << >>]
    /\ dropped' = dropped \cup requests
    /\ UNCHANGED <<accepted, handed, produced, done, delivered>>

Next ==
    \/ \E r \in Ids : PutRequests(r)
    \/ \E blocks \in 0 .. MaxBlocks, batch \in 0 .. MaxBatch : GetRequests(blocks, batch)
    \/ \E batch \in SUBSET Working : \E finished \in SUBSET batch : PutResults(batch, finished)
    \/ GetResults
    \/ Reset

Spec == Init /\ [][Next]_vars

(* The engine's threads keep running, and its blocks and positions become    *)
(* free again and again.                                                     *)
Fairness ==
    /\ SF_vars(GetRequests(MaxBlocks, MaxBatch))
    /\ \A r \in Ids : WF_vars(\E batch \in SUBSET Working :
          r \in batch /\ \E finished \in SUBSET batch : PutResults(batch, finished))
    /\ WF_vars(GetResults)
FairSpec == Spec /\ Fairness

-----------------------------------------------------------------------------
Members(seq) == {seq[i] : i \in 1 .. Len(seq)}

(* Types of the state. *)
TypeOK ==
    /\ ids \in Seq(Ids) /\ ids_read_cursor \in 0 .. Len(ids)
    /\ requests \in SUBSET Ids /\ responses \in [Ids -> Seq(1 .. MaxResponses)]
    /\ accepted \in SUBSET Ids /\ done \in SUBSET Ids
    /\ handed \in [Ids -> Nat] /\ produced \in [Ids -> 0 .. MaxResponses]
    /\ delivered \in [Ids -> Seq(1 .. MaxResponses)]
    /\ dropped \in SUBSET Ids /\ resets \in 0 .. MaxResets

(* The ids before the cursor are the ones handed out, each once, and the ids *)
(* from the cursor on have not been, whatever finishes, and in whatever      *)
(* order, in between: no request is skipped or run twice.                    *)
HandedOutOnce ==
    /\ \A i \in 1 .. Len(ids) : handed[ids[i]] = IF i <= ids_read_cursor THEN 1 ELSE 0
    /\ \A i, j \in 1 .. Len(ids) : i # j => ids[i] # ids[j]
    /\ Members(ids) = requests

(* The client of a request that was not dropped by a reset gets the          *)
(* responses of its stream, each once and in order, and only those.          *)
StreamsIntact ==
    \A r \in Ids : r \notin dropped =>
        delivered[r] \o responses[r] = [i \in 1 .. produced[r] |-> i]

(* The scheduler never holds more than max_size requests.  (So _recycle()    *)
(* never gets to its expired requests.)                                      *)
SizeBounded == MaxSize > 0 => Cardinality(requests) <= MaxSize

(* A request that put_requests accepts is in the end handed out, and its     *)
(* last response delivered, unless a reset drops it.                         *)
EveryRequestAnswered ==
    \A r \in Ids : r \in accepted ~>
        (r \in dropped \/ (r \in done /\ Len(delivered[r]) = produced[r] /\ r \notin requests))
=============================================================================
