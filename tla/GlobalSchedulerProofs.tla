----------------------- MODULE GlobalSchedulerProofs -----------------------
(***************************************************************************)
(* GlobalScheduler for any schedulers, requests, batches and lengths.      *)
(***************************************************************************)
EXTENDS GlobalScheduler, ListOpsProofs

-----------------------------------------------------------------------------
(* Lists of requests without repetitions. *)
LEMMA OnceEmpty == Once(<< >>) /\ Range(<< >>) = {}
  BY DEF Once, Range

LEMMA OnceAppend ==
    ASSUME NEW q \in Seq(Reqs), NEW r \in Reqs, Once(q), r \notin Range(q)
    PROVE  Once(Append(q, r)) /\ Range(Append(q, r)) = Range(q) \cup {r}
<1>1. /\ Len(Append(q, r)) = Len(q) + 1 /\ Len(q) \in Nat /\ DOMAIN q = 1 .. Len(q)
      /\ Append(q, r) \in Seq(Reqs) /\ DOMAIN Append(q, r) = 1 .. Len(q) + 1
      /\ \A i \in 1 .. Len(q) : Append(q, r)[i] = q[i]
      /\ Append(q, r)[Len(q) + 1] = r
  OBVIOUS
<1>2. Once(Append(q, r))
  BY <1>1 DEF Once, Range
<1>3. Range(Append(q, r)) = Range(q) \cup {r}
  BY <1>1 DEF Range
<1> QED BY <1>2, <1>3

(* A list cut in two. *)
LEMMA OnceCut ==
    ASSUME NEW q \in Seq(Reqs), Once(q), NEW k \in 0 .. Len(q)
    PROVE  /\ SubSeq(q, 1, k) \in Seq(Reqs) /\ SubSeq(q, k + 1, Len(q)) \in Seq(Reqs)
           /\ Len(SubSeq(q, 1, k)) = k /\ Len(SubSeq(q, k + 1, Len(q))) = Len(q) - k
           /\ Once(SubSeq(q, 1, k)) /\ Once(SubSeq(q, k + 1, Len(q)))
           /\ Range(SubSeq(q, 1, k)) = {q[i] : i \in 1 .. k}
           /\ Range(SubSeq(q, 1, k)) \subseteq Range(q)
           /\ Range(SubSeq(q, k + 1, Len(q))) = Range(q) \ Range(SubSeq(q, 1, k))
<1> DEFINE a == SubSeq(q, 1, k)
           b == SubSeq(q, k + 1, Len(q))
<1>1. /\ Len(q) \in Nat /\ Len(a) = k /\ Len(b) = Len(q) - k
      /\ a \in Seq(Reqs) /\ b \in Seq(Reqs)
      /\ DOMAIN q = 1 .. Len(q) /\ DOMAIN a = 1 .. k /\ DOMAIN b = 1 .. Len(q) - k
      /\ \A i \in 1 .. k : a[i] = q[i]
      /\ \A i \in 1 .. Len(q) - k : b[i] = q[k + i]
  OBVIOUS
<1>2. \A i \in k + 1 .. Len(q) : i - k \in 1 .. Len(q) - k /\ b[i - k] = q[i]
  <2> HIDE DEF a, b
  <2>1. \A i \in k + 1 .. Len(q) : i - k \in 1 .. Len(q) - k /\ k + (i - k) = i
    BY <1>1
  <2> QED BY <1>1, <2>1
<1> HIDE DEF a, b
<1>3. Once(a)
  BY <1>1 DEF Once
<1>4. Once(b)
  <2>1. ASSUME NEW i \in DOMAIN b, NEW j \in DOMAIN b, i # j PROVE b[i] # b[j]
    <3>1. k + i \in 1 .. Len(q) /\ k + j \in 1 .. Len(q) /\ k + i # k + j
      BY <1>1, <2>1
    <3> QED BY <3>1, <1>1 DEF Once
  <2> QED BY <2>1 DEF Once
<1>5. Range(a) = {q[i] : i \in 1 .. k}
  <2>1. Range(a) = {a[i] : i \in 1 .. k}
    BY <1>1 DEF Range
  <2> QED BY <1>1, <2>1
<1>6. Range(a) \subseteq Range(q)
  BY <1>1, <1>5 DEF Range
<1>7. Range(b) \subseteq Range(q) \ Range(a)
  <2> SUFFICES ASSUME NEW i \in 1 .. Len(q) - k PROVE b[i] \in Range(q) /\ b[i] \notin Range(a)
    BY <1>1 DEF Range
  <2>1. k + i \in 1 .. Len(q) /\ b[i] = q[k + i] /\ \A j \in 1 .. k : j # k + i /\ j \in 1 .. Len(q)
    BY <1>1
  <2>2. \A j \in 1 .. k : q[j] # q[k + i]
    BY <1>1, <2>1 DEF Once
  <2> QED BY <1>1, <1>5, <2>1, <2>2 DEF Range
<1>8. ASSUME NEW r \in Range(q), r \notin Range(a) PROVE r \in Range(b)
  <2>1. PICK i \in 1 .. Len(q) : q[i] = r
    BY <1>1 DEF Range
  <2>2. i \in k + 1 .. Len(q)
    BY <1>1, <1>5, <1>8, <2>1
  <2> QED BY <1>1, <1>2, <2>1, <2>2 DEF Range
<1> QED BY <1>1, <1>3, <1>4, <1>5, <1>6, <1>7, <1>8 DEF a, b

(* lpush: the elements of p, reversed, in front of q. *)
LEMMA OncePutBack ==
    ASSUME NEW p \in Seq(Reqs), NEW q \in Seq(Reqs), Once(p), Once(q), Range(p) \cap Range(q) = {}
    PROVE  /\ Reverse(p) \o q \in Seq(Reqs) /\ Len(Reverse(p) \o q) = Len(p) + Len(q)
           /\ Once(Reverse(p) \o q) /\ Range(Reverse(p) \o q) = Range(p) \cup Range(q)
<1> DEFINE a == Reverse(p)
           c == a \o q
<1>1. /\ Len(p) \in Nat /\ Len(q) \in Nat /\ DOMAIN p = 1 .. Len(p) /\ DOMAIN q = 1 .. Len(q)
  OBVIOUS
<1>2. /\ a \in Seq(Reqs) /\ Len(a) = Len(p)
      /\ \A i \in 1 .. Len(p) : a[i] = p[(Len(p) - i) + 1] /\ (Len(p) - i) + 1 \in 1 .. Len(p)
  <2>1. \A i \in 1 .. Len(p) : (Len(p) - i) + 1 \in 1 .. Len(p)
    BY <1>1
  <2>2. \A i \in 1 .. Len(p) : p[(Len(p) - i) + 1] \in Reqs
    BY <2>1, ElementOfSeq
  <2>3. a = [i \in 1 .. Len(p) |-> p[(Len(p) - i) + 1]]
    BY DEF Reverse
  <2>4. a \in [1 .. Len(p) -> Reqs]
    BY <2>2, <2>3
  <2> QED BY <1>1, <2>1, <2>3, <2>4
<1> HIDE DEF a
<1>3. /\ c \in Seq(Reqs) /\ Len(c) = Len(p) + Len(q) /\ DOMAIN c = 1 .. Len(p) + Len(q)
      /\ \A i \in 1 .. Len(p) + Len(q) : c[i] = IF i <= Len(p) THEN a[i] ELSE q[i - Len(p)]
  <2>1. /\ c \in Seq(Reqs) /\ Len(c) = Len(a) + Len(q)
        /\ \A i \in 1 .. Len(a) + Len(q) : c[i] = IF i <= Len(a) THEN a[i] ELSE q[i - Len(a)]
    BY <1>2, ConcatProperties
  <2> QED BY <1>2, <2>1
<1> HIDE DEF c
<1>f. \A i \in DOMAIN c : i <= Len(p) =>
        /\ (Len(p) - i) + 1 \in DOMAIN p /\ c[i] = p[(Len(p) - i) + 1]
  <2> SUFFICES ASSUME NEW i \in DOMAIN c, i <= Len(p)
               PROVE  (Len(p) - i) + 1 \in DOMAIN p /\ c[i] = p[(Len(p) - i) + 1]
    OBVIOUS
  <2>1. i \in 1 .. Len(p) /\ i \in 1 .. Len(p) + Len(q)
    BY <1>1, <1>3
  <2>2. c[i] = a[i]
    BY <1>3, <2>1
  <2> QED BY <1>1, <1>2, <2>1, <2>2
<1>g. \A i \in DOMAIN c : i > Len(p) => i - Len(p) \in DOMAIN q /\ c[i] = q[i - Len(p)]
  BY <1>1, <1>3
<1>4. \A i \in 1 .. Len(p) + Len(q) :
        \/ (Len(p) - i) + 1 \in DOMAIN p /\ c[i] = p[(Len(p) - i) + 1]
        \/ i > Len(p) /\ i - Len(p) \in DOMAIN q /\ c[i] = q[i - Len(p)]
  <2> SUFFICES ASSUME NEW i \in 1 .. Len(p) + Len(q)
               PROVE  \/ (Len(p) - i) + 1 \in DOMAIN p /\ c[i] = p[(Len(p) - i) + 1]
                      \/ i > Len(p) /\ i - Len(p) \in DOMAIN q /\ c[i] = q[i - Len(p)]
    OBVIOUS
  <2>1. i \in DOMAIN c /\ (i <= Len(p) \/ i > Len(p))
    BY <1>1, <1>3
  <2> QED BY <1>f, <1>g, <2>1
<1>5. Range(c) \subseteq Range(p) \cup Range(q)
  BY <1>3, <1>4 DEF Range
<1>6. ASSUME NEW r \in Range(p) PROVE r \in Range(c)
  <2>1. PICK i \in 1 .. Len(p) : p[i] = r
    BY <1>1 DEF Range
  <2> DEFINE j == (Len(p) - i) + 1
  <2>2. j \in 1 .. Len(p) /\ (Len(p) - j) + 1 = i /\ j \in 1 .. Len(p) + Len(q)
    BY <1>1, <2>1
  <2>3. c[j] = r
    <3>1. j \in DOMAIN c /\ j <= Len(p)
      BY <1>1, <1>3, <2>2
    <3>2. c[j] = p[(Len(p) - j) + 1]
      BY <1>f, <3>1
    <3> QED BY <2>1, <2>2, <3>2
  <2> QED BY <1>3, <2>2, <2>3 DEF Range
<1>7. ASSUME NEW r \in Range(q) PROVE r \in Range(c)
  <2>1. PICK i \in 1 .. Len(q) : q[i] = r
    BY <1>1 DEF Range
  <2>2. Len(p) + i \in 1 .. Len(p) + Len(q) /\ ~(Len(p) + i <= Len(p)) /\ (Len(p) + i) - Len(p) = i
    BY <1>1
  <2>3. c[Len(p) + i] = r
    BY <1>3, <2>1, <2>2
  <2> QED BY <1>3, <2>2, <2>3 DEF Range
<1>8. ASSUME NEW i \in DOMAIN c, NEW j \in DOMAIN c, i # j PROVE c[i] # c[j]
  <2>1. CASE i <= Len(p) /\ j <= Len(p)
    <3>1. /\ (Len(p) - i) + 1 \in DOMAIN p /\ c[i] = p[(Len(p) - i) + 1]
          /\ (Len(p) - j) + 1 \in DOMAIN p /\ c[j] = p[(Len(p) - j) + 1]
          /\ (Len(p) - i) + 1 # (Len(p) - j) + 1
      BY <1>1, <1>3, <1>f, <1>8, <2>1
    <3> QED BY <3>1 DEF Once
  <2>2. CASE i > Len(p) /\ j > Len(p)
    <3>1. /\ i - Len(p) \in DOMAIN q /\ c[i] = q[i - Len(p)]
          /\ j - Len(p) \in DOMAIN q /\ c[j] = q[j - Len(p)] /\ i - Len(p) # j - Len(p)
      BY <1>1, <1>3, <1>8, <2>2
    <3> QED BY <3>1 DEF Once
  <2>3. CASE i <= Len(p) /\ j > Len(p)
    BY <1>f, <1>g, <2>3 DEF Range
  <2>4. CASE i > Len(p) /\ j <= Len(p)
    BY <1>f, <1>g, <2>4 DEF Range
  <2> QED BY <1>1, <1>3, <2>1, <2>2, <2>3, <2>4
<1> QED BY <1>3, <1>5, <1>6, <1>7, <1>8 DEF c, a, Once

-----------------------------------------------------------------------------
(* Types. *)
EngineOpen == \A s \in Scheds : \A r \in engine[s] : emitted[r] # Length[r]

LEMMA LengthType == Length \in [Reqs -> Nat \ {0}] /\ Home \in [Reqs -> Scheds]
  BY GlobalAssumption

LEMMA OfType ==
    ASSUME NEW seq \in Seq(Response), NEW R
    PROVE  Of(seq, R) \in Seq(Response)
  BY KeptFacts DEF Of

LEMMA NumbersType ==
    ASSUME NEW seq \in Seq(Response)
    PROVE  Numbers(seq) \in Seq(Nat) /\ Len(Numbers(seq)) = Len(seq)
<1>1. \A x \in Response : x.n \in Nat
  BY LengthType DEF Response
<1>2. Len(seq) \in Nat /\ DOMAIN seq = 1 .. Len(seq) /\ \A i \in 1 .. Len(seq) : seq[i] \in Response
  OBVIOUS
<1>3. Numbers(seq) = [i \in 1 .. Len(seq) |-> seq[i].n]
  BY <1>2 DEF Numbers
<1>4. Numbers(seq) \in [1 .. Len(seq) -> Nat]
  BY <1>1, <1>2, <1>3
<1> QED BY <1>2, <1>4

(* put_requests. *)
LEMMA PutTypes ==
    ASSUME TypeOK, NEW s \in Scheds,
           (\E r \in Reqs : PutRequests(r)) \/ PutPush(s) \/ PutCount(s)
    PROVE  TypeOK'
<1> USE LengthType
<1>1. ASSUME NEW r \in Reqs, PutRequests(r) PROVE TypeOK'
  <2> USE <1>1 DEF PutRequests, redis, faults
  <2>1. mem' \in [Scheds -> MemState]
    <3>1. mem \in [Scheds -> MemState] /\ Home[r] \in Scheds
      BY DEF TypeOK
    <3>2. [mem[Home[r]] EXCEPT !.tracked = @ \cup {r}] \in MemState
      BY <3>1 DEF MemState
    <3> QED BY <3>1, <3>2
  <2>2. put' \in [Scheds -> PutState] /\ \A t \in Scheds : put'[t].pc # "idle" => put'[t].req \in Reqs
    BY DEF TypeOK, PutState
  <2>3. begun' \in SUBSET Reqs
    BY DEF TypeOK
  <2> QED BY <2>1, <2>2, <2>3 DEF TypeOK
<1>2. CASE PutPush(s)
  <2> USE <1>2 DEF PutPush, faults
  <2>1. put' \in [Scheds -> PutState] /\ \A t \in Scheds : put'[t].pc # "idle" => put'[t].req \in Reqs
    <3>1. put \in [Scheds -> PutState] /\ put[s].req \in Reqs
      BY DEF TypeOK
    <3>2. [put[s] EXCEPT !.pc = "count"] \in PutState /\ [put[s] EXCEPT !.pc = "count"].req = put[s].req
      BY <3>1 DEF PutState
    <3>3. put' = [put EXCEPT ![s] = [put[s] EXCEPT !.pc = "count"]]
      OBVIOUS
    <3> QED BY <3>1, <3>2, <3>3 DEF TypeOK
  <2>2. req_queue' \in [Scheds -> Seq(Reqs)]
    BY DEF TypeOK, PutState
  <2> QED BY <2>1, <2>2 DEF TypeOK
<1>3. CASE PutCount(s)
  <2> USE <1>3 DEF PutCount, faults
  <2>1. put' \in [Scheds -> PutState] /\ \A t \in Scheds : put'[t].pc # "idle" => put'[t].req \in Reqs
    BY DEF TypeOK, PutState, IdlePut
  <2>2. load' \in [Scheds -> Int]
    BY DEF TypeOK
  <2> QED BY <2>1, <2>2 DEF TypeOK
<1> QED BY <1>1, <1>2, <1>3

(* What TypeOK says of get_requests. *)
GetTypeOK ==
    /\ get \in [Scheds -> GetState]
    /\ \A s \in Scheds : /\ s \notin get[s].names
                         /\ get[s].pc = "steal" => get[s].from \in Scheds \ {s}
                         /\ get[s].pc \in {"exists", "count", "back", "recount"} =>
                                get[s].from \in Scheds

LEMMA GetUpdates ==
    ASSUME NEW g \in GetState, NEW pc \in GetSteps, NEW from \in Scheds, NEW names \in SUBSET Scheds,
           NEW taken \in Seq(Reqs)
    PROVE  /\ [g EXCEPT !.pc = pc] \in GetState
           /\ [g EXCEPT !.pc = pc, !.from = from, !.taken = taken] \in GetState
           /\ [g EXCEPT !.pc = pc, !.from = from, !.names = names] \in GetState
           /\ [g EXCEPT !.pc = pc, !.taken = taken] \in GetState
<1>0. from \in Scheds \cup {Nothing}
  OBVIOUS
<1>1. [g EXCEPT !.pc = pc] \in GetState
  BY DEF GetState
<1>2. [g EXCEPT !.pc = pc, !.from = from, !.taken = taken] \in GetState
  BY <1>0 DEF GetState
<1>3. [g EXCEPT !.pc = pc, !.from = from, !.names = names] \in GetState
  BY <1>0 DEF GetState
<1>4. [g EXCEPT !.pc = pc, !.taken = taken] \in GetState
  BY DEF GetState
<1> QED BY <1>1, <1>2, <1>3, <1>4

LEMMA PopTypes ==
    ASSUME TypeOK, NEW s \in Scheds, NEW q \in Scheds, NEW n \in Nat,
           NEW otherwise \in {"idle", "lookup", "exists"},
           otherwise = "exists" => get[s].from \in Scheds,
           Pop(s, q, n, otherwise)
    PROVE  TypeOK'
<1> DEFINE k == IF Len(req_queue[q]) < n THEN Len(req_queue[q]) ELSE n
<1>0. req_queue[q] \in Seq(Reqs) /\ Len(req_queue[q]) \in Nat /\ k \in 0 .. Len(req_queue[q])
  BY DEF TypeOK
<1>1. /\ req_queue' = [req_queue EXCEPT ![q] = SubSeq(@, k + 1, Len(@))]
      /\ get' = [get EXCEPT ![s] =
                   IF k = 0 THEN [@ EXCEPT !.pc = otherwise]
                   ELSE [@ EXCEPT !.pc = "count", !.from = q, !.taken = SubSeq(req_queue[q], 1, k)]]
      /\ UNCHANGED <<load, getFrame, skewed>>
  BY DEF Pop
<1> HIDE DEF k
<1>2. SubSeq(req_queue[q], k + 1, Len(req_queue[q])) \in Seq(Reqs)
      /\ SubSeq(req_queue[q], 1, k) \in Seq(Reqs)
  BY <1>0
<1>3. req_queue' \in [Scheds -> Seq(Reqs)]
  BY <1>1, <1>2 DEF TypeOK
<1>4. get' \in [Scheds -> GetState]
  <2>1. get \in [Scheds -> GetState]
    BY DEF TypeOK
  <2>2. [get[s] EXCEPT !.pc = otherwise] \in GetState
    <3>1. otherwise \in GetSteps
      BY DEF GetSteps
    <3> QED BY <2>1, <3>1 DEF GetState
  <2>3. ASSUME NEW seq \in Seq(Reqs)
        PROVE  [get[s] EXCEPT !.pc = "count", !.from = q, !.taken = seq] \in GetState
    <3>1. "count" \in GetSteps /\ get[s] \in GetState
      BY <2>1 DEF GetSteps
    <3> QED BY <3>1, GetUpdates
  <2> QED BY <1>1, <1>2, <2>1, <2>2, <2>3
<1>5. \A t \in Scheds : t # s => get'[t] = get[t]
  BY <1>1 DEF TypeOK
<1>6. get'[s] = IF k = 0 THEN [get[s] EXCEPT !.pc = otherwise]
                ELSE [get[s] EXCEPT !.pc = "count", !.from = q, !.taken = SubSeq(req_queue[q], 1, k)]
  BY <1>1 DEF TypeOK
<1>7. get[s] \in GetState
  BY DEF TypeOK
<1>8. /\ get'[s].names = get[s].names
      /\ get'[s].pc = IF k = 0 THEN otherwise ELSE "count"
      /\ get'[s].from = IF k = 0 THEN get[s].from ELSE q
  BY <1>6, <1>7 DEF GetState
<1>9. GetTypeOK'
  BY <1>4, <1>5, <1>8 DEF TypeOK, GetTypeOK
<1> QED BY <1>1, <1>3, <1>9 DEF TypeOK, getFrame, GetTypeOK

(* get_requests. *)
LEMMA GetTypes ==
    ASSUME TypeOK, NEW s \in Scheds,
           \/ GetLocal(s) \/ Lookup(s) \/ Steal(s) \/ RemoveDead(s) \/ BlockingPop(s)
           \/ PutBack(s) \/ Recount(s)
    PROVE  TypeOK'
<1>0. /\ get \in [Scheds -> GetState] /\ get[s] \in GetState
      /\ load \in [Scheds -> Int] /\ req_queue \in [Scheds -> Seq(Reqs)] /\ skewed \in SUBSET Scheds
      /\ Batch \in Nat \ {0}
      /\ \A t \in Scheds : /\ t \notin get[t].names
                           /\ get[t].pc = "steal" => get[t].from \in Scheds \ {t}
                           /\ get[t].pc \in {"exists", "count", "back", "recount"} => get[t].from \in Scheds
  BY GlobalAssumption DEF TypeOK
<1>g. /\ get[s].taken \in Seq(Reqs) /\ get[s].names \in SUBSET Scheds
      /\ \A pc : [get[s] EXCEPT !.pc = pc].names = get[s].names
      /\ \A pc : [get[s] EXCEPT !.pc = pc].from = get[s].from
      /\ \A pc : [get[s] EXCEPT !.pc = pc].pc = pc
      /\ \A pc, from, names :
            /\ [get[s] EXCEPT !.pc = pc, !.from = from, !.names = names].pc = pc
            /\ [get[s] EXCEPT !.pc = pc, !.from = from, !.names = names].names = names
            /\ [get[s] EXCEPT !.pc = pc, !.from = from, !.names = names].from = from
  BY <1>0 DEF GetState
<1>i. /\ IdleGet \in GetState /\ IdleGet.names = {} /\ IdleGet.pc = "idle"
      /\ "block" \in GetSteps /\ "steal" \in GetSteps /\ "recount" \in GetSteps
  BY DEF GetState, GetSteps, IdleGet
\* a step that sets get[s] to g
<1> DEFINE GoesTo(g) == /\ g \in GetState /\ get' = [get EXCEPT ![s] = g] /\ s \notin g.names
                        /\ g.pc = "steal" => g.from \in Scheds \ {s}
                        /\ g.pc \in {"exists", "count", "back", "recount"} => g.from \in Scheds
<1>t. ASSUME NEW g, GoesTo(g), UNCHANGED getFrame,
             req_queue' \in [Scheds -> Seq(Reqs)], load' \in [Scheds -> Int], skewed' \in SUBSET Scheds
      PROVE  TypeOK'
  <2>1. get' \in [Scheds -> GetState] /\ \A t \in Scheds : get'[t] = IF t = s THEN g ELSE get[t]
    BY <1>0, <1>t
  <2>2. GetTypeOK'
    BY <1>0, <1>t, <2>1 DEF GetTypeOK
  <2> QED BY <1>t, <2>2 DEF TypeOK, GetTypeOK, getFrame
<1>1. CASE GetLocal(s)
  <2>1. Pop(s, s, Batch, "lookup")
    BY <1>1 DEF GetLocal
  <2> QED BY <1>0, <2>1, PopTypes
<1>2. CASE Lookup(s)
  <2> DEFINE others == {q \in Scheds \ {s} : load[q] >= MinLoad}
  <2>0. UNCHANGED <<req_queue, load, getFrame, skewed>>
    BY <1>2 DEF Lookup
  <2>1. CASE others = {}
    <3>1. get' = [get EXCEPT ![s] = [get[s] EXCEPT !.pc = "block"]]
      BY <1>2, <2>1 DEF Lookup
    <3>2. GoesTo([get[s] EXCEPT !.pc = "block"])
      BY <1>0, <1>g, <1>i, <3>1, GetUpdates
    <3> HIDE DEF GoesTo
    <3> QED BY <1>0, <1>t, <2>0, <3>2
  <2>2. CASE others # {}
    <3>1. PICK q \in others :
            get' = [get EXCEPT ![s] = [get[s] EXCEPT !.pc = "steal", !.from = q, !.names = others]]
      BY <1>2, <2>2 DEF Lookup
    <3>2. q \in Scheds \ {s} /\ others \in SUBSET Scheds /\ s \notin others
      BY <3>1
    <3> HIDE DEF others
    <3>3. GoesTo([get[s] EXCEPT !.pc = "steal", !.from = q, !.names = others])
      <4>1. [get[s] EXCEPT !.pc = "steal", !.from = q, !.names = others] \in GetState
        BY <1>0, <1>i, <3>2, GetUpdates
      <4> QED BY <1>g, <3>1, <3>2, <4>1
    <3> HIDE DEF GoesTo
    <3> QED BY <1>0, <1>t, <2>0, <3>3
  <2> QED BY <2>1, <2>2
<1>3. CASE Steal(s)
  <2>1. Pop(s, get[s].from, (Batch + 1) \div 2, "exists") /\ get[s].pc = "steal"
    BY <1>3 DEF Steal
  <2>2. (Batch + 1) \div 2 \in Nat
    BY <1>0
  <2> QED BY <1>0, <2>1, <2>2, PopTypes
<1>4. CASE RemoveDead(s)
  <2>1. get' = [get EXCEPT ![s] = [get[s] EXCEPT !.pc = "block"]]
    BY <1>4 DEF RemoveDead
  <2>2. GoesTo([get[s] EXCEPT !.pc = "block"])
    BY <1>0, <1>g, <1>i, <2>1, GetUpdates
  <2>3. get[s].pc = "exists" /\ get[s].from \in Scheds
    BY <1>0, <1>4 DEF RemoveDead
  <2>4. load' \in [Scheds -> Int] /\ skewed' \in SUBSET Scheds
    BY <1>0, <1>4, <2>3 DEF RemoveDead
  <2>5. req_queue' = req_queue /\ UNCHANGED getFrame
    BY <1>4 DEF RemoveDead
  <2> HIDE DEF GoesTo
  <2> QED BY <1>0, <1>t, <2>2, <2>4, <2>5
<1>5. CASE BlockingPop(s)
  <2>1. \/ \E q \in get[s].names \cup {s} : Pop(s, q, 1, "idle")
        \/ get' = [get EXCEPT ![s] = IdleGet] /\ UNCHANGED <<req_queue, load, getFrame, skewed>>
    BY <1>5 DEF BlockingPop
  <2>2. CASE \E q \in get[s].names \cup {s} : Pop(s, q, 1, "idle")
    BY <1>g, <2>2, PopTypes
  <2>3. CASE get' = [get EXCEPT ![s] = IdleGet] /\ UNCHANGED <<req_queue, load, getFrame, skewed>>
    <3>1. GoesTo(IdleGet)
      BY <1>i, <2>3
    <3> HIDE DEF GoesTo
    <3> QED BY <1>0, <1>t, <2>3, <3>1
  <2> QED BY <2>1, <2>2, <2>3
<1>6. CASE PutBack(s)
  <2>1. get' = [get EXCEPT ![s] = [get[s] EXCEPT !.pc = "recount"]] /\ get[s].from \in Scheds
    BY <1>0, <1>6 DEF PutBack
  <2>2. GoesTo([get[s] EXCEPT !.pc = "recount"])
    BY <1>0, <1>g, <1>i, <2>1, GetUpdates
  <2>3. Reverse(get[s].taken) \in Seq(Reqs)
    <3>1. \A i \in 1 .. Len(get[s].taken) : (Len(get[s].taken) - i) + 1 \in 1 .. Len(get[s].taken)
      BY <1>g
    <3>2. \A i \in 1 .. Len(get[s].taken) : get[s].taken[(Len(get[s].taken) - i) + 1] \in Reqs
      BY <1>g, <3>1, ElementOfSeq
    <3>3. Reverse(get[s].taken) \in [1 .. Len(get[s].taken) -> Reqs] /\ Len(get[s].taken) \in Nat
      BY <1>g, <3>2 DEF Reverse
    <3> QED BY <3>3
  <2>4. req_queue' \in [Scheds -> Seq(Reqs)]
    <3>1. Reverse(get[s].taken) \o req_queue[get[s].from] \in Seq(Reqs)
      BY <1>0, <2>1, <2>3, ConcatProperties
    <3> QED BY <1>0, <1>6, <2>1, <3>1 DEF PutBack
  <2>5. load' = load /\ skewed' = skewed /\ UNCHANGED getFrame
    BY <1>6 DEF PutBack
  <2> HIDE DEF GoesTo
  <2> QED BY <1>0, <1>t, <2>2, <2>4, <2>5
<1>7. CASE Recount(s)
  <2>1. get' = [get EXCEPT ![s] = IdleGet] /\ get[s].from \in Scheds
    BY <1>0, <1>7 DEF Recount
  <2>2. GoesTo(IdleGet)
    BY <1>i, <2>1
  <2>3. load' \in [Scheds -> Int]
    BY <1>0, <1>g, <1>7, <2>1 DEF Recount
  <2>4. req_queue' = req_queue /\ skewed' = skewed /\ UNCHANGED getFrame
    BY <1>7 DEF Recount
  <2> HIDE DEF GoesTo
  <2> QED BY <1>0, <1>t, <2>2, <2>3, <2>4
<1> QED BY <1>1, <1>2, <1>3, <1>4, <1>5, <1>6, <1>7

LEMMA FitTypes ==
    ASSUME TypeOK, NEW s \in Scheds, NEW k \in 0 .. Batch, CountAndFit(s, k)
    PROVE  TypeOK'
<1> DEFINE mine == {get[s].taken[i] : i \in 1 .. k}
           rest == SubSeq(get[s].taken, k + 1, Len(get[s].taken))
<1>0. /\ get \in [Scheds -> GetState] /\ get[s] \in GetState /\ get[s].taken \in Seq(Reqs)
      /\ get[s].from \in Scheds /\ k \in 0 .. Len(get[s].taken) /\ Batch \in Nat
      /\ mem \in [Scheds -> MemState] /\ load \in [Scheds -> Int] /\ engine \in [Scheds -> SUBSET Reqs]
  <2>1. get[s].pc = "count" /\ k <= Len(get[s].taken)
    BY DEF CountAndFit
  <2>2. get \in [Scheds -> GetState] /\ get[s] \in GetState /\ get[s].taken \in Seq(Reqs)
    BY DEF TypeOK, GetState
  <2> QED BY <2>1, <2>2, GlobalAssumption DEF TypeOK
<1>1. mine \subseteq Reqs /\ rest \in Seq(Reqs)
  BY <1>0
<1>2. /\ load' = [load EXCEPT ![get[s].from] = @ - Len(get[s].taken)]
      /\ mem' = [mem EXCEPT ![s].stolen = @ \cup {r \in mine : Home[r] # s}]
      /\ engine' = [engine EXCEPT ![s] = @ \cup mine]
      /\ get' = [get EXCEPT ![s] = IF rest = << >> THEN IdleGet
                                   ELSE [@ EXCEPT !.pc = "back", !.taken = rest]]
      /\ UNCHANGED <<req_queue, resp_queue, instance, put, out, emitted, delivered, begun, faults>>
  BY DEF CountAndFit
<1> HIDE DEF mine, rest
<1>3. load' \in [Scheds -> Int] /\ engine' \in [Scheds -> SUBSET Reqs]
  BY <1>0, <1>1, <1>2
<1>4. mem' \in [Scheds -> MemState]
  <2>1. [mem[s] EXCEPT !.stolen = @ \cup {r \in mine : Home[r] # s}] \in MemState
    BY <1>0, <1>1 DEF MemState
  <2> QED BY <1>0, <1>2, <2>1
<1>5. GetTypeOK'
  <2>1. "back" \in GetSteps /\ IdleGet \in GetState
    BY DEF GetSteps, IdleGet, GetState
  <2>2. [get[s] EXCEPT !.pc = "back", !.taken = rest] \in GetState
    BY <1>0, <1>1, <2>1, GetUpdates
  <2>3. /\ get' \in [Scheds -> GetState]
        /\ \A t \in Scheds : t # s => get'[t] = get[t]
        /\ get'[s] = IF rest = << >> THEN IdleGet ELSE [get[s] EXCEPT !.pc = "back", !.taken = rest]
    BY <1>0, <1>2, <2>1, <2>2
  <2>4. get'[s].names \in {{}, get[s].names} /\ get'[s].pc \in {"idle", "back"}
        /\ (get'[s].pc = "back" => get'[s].from = get[s].from)
    BY <1>0, <2>3 DEF IdleGet, GetState
  <2> QED BY <1>0, <2>3, <2>4 DEF TypeOK, GetTypeOK
<1> QED BY <1>2, <1>3, <1>4, <1>5 DEF TypeOK, GetTypeOK, faults

(* put_results and the two threads that move responses, get_results. *)
LEMMA MemUpdates ==
    ASSUME NEW m \in MemState, NEW tracked \in SUBSET Reqs, NEW stolen \in SUBSET Reqs,
           NEW responses \in Seq(Response)
    PROVE  /\ [m EXCEPT !.responses = responses, !.stolen = stolen] \in MemState
           /\ [m EXCEPT !.responses = responses, !.tracked = tracked] \in MemState
           /\ [m EXCEPT !.responses = responses] \in MemState
<1>1. [m EXCEPT !.responses = responses, !.stolen = stolen] \in MemState
  BY DEF MemState
<1>2. [m EXCEPT !.responses = responses, !.tracked = tracked] \in MemState
  BY DEF MemState
<1>3. [m EXCEPT !.responses = responses] \in MemState
  BY DEF MemState
<1> QED BY <1>1, <1>2, <1>3

LEMMA OutUpdates ==
    ASSUME NEW o \in OutState, NEW results \in Seq(Response), NEW batch \in Seq(Response),
           NEW pushing \in Seq(Response), NEW local \in SUBSET Reqs, NEW stolen \in SUBSET Reqs
    PROVE  /\ [o EXCEPT !.results = results] \in OutState
           /\ [o EXCEPT !.results = results, !.batch = batch, !.local = local, !.stolen = stolen] \in OutState
           /\ [o EXCEPT !.batch = batch] \in OutState
           /\ [o EXCEPT !.batch = batch, !.pushing = pushing] \in OutState
           /\ [o EXCEPT !.pushing = pushing] \in OutState
<1>1. [o EXCEPT !.results = results] \in OutState
  BY DEF OutState
<1>2. [o EXCEPT !.results = results, !.batch = batch, !.local = local, !.stolen = stolen] \in OutState
  BY DEF OutState
<1>3. [o EXCEPT !.batch = batch] \in OutState
  BY DEF OutState
<1>4. [o EXCEPT !.batch = batch, !.pushing = pushing] \in OutState
  BY DEF OutState
<1>5. [o EXCEPT !.pushing = pushing] \in OutState
  BY DEF OutState
<1> QED BY <1>1, <1>2, <1>3, <1>4, <1>5

LEMMA PutResultsTypes ==
    ASSUME TypeOK, EngineOpen, NEW s \in Scheds, NEW r \in Reqs, PutResults(s, r)
    PROVE  TypeOK'
<1>0. /\ out \in [Scheds -> OutState] /\ out[s] \in OutState /\ out[s].results \in Seq(Response)
      /\ emitted \in [Reqs -> Nat] /\ engine \in [Scheds -> SUBSET Reqs]
      /\ r \in engine[s] /\ emitted[r] <= Length[r] /\ emitted[r] # Length[r] /\ Length[r] \in Nat
  <2>1. out \in [Scheds -> OutState] /\ out[s] \in OutState /\ out[s].results \in Seq(Response)
    BY DEF TypeOK, OutState
  <2> QED BY <2>1, LengthType DEF TypeOK, EngineOpen, PutResults
<1>1. [req |-> r, n |-> emitted[r] + 1] \in Response
  <2>1. emitted[r] + 1 \in 1 .. Length[r]
    BY <1>0
  <2>2. [req |-> r, n |-> emitted[r] + 1] \in [req : {r}, n : 1 .. Length[r]]
    BY <2>1
  <2> QED BY <2>2 DEF Response
<1>2. Append(out[s].results, [req |-> r, n |-> emitted[r] + 1]) \in Seq(Response)
  BY <1>0, <1>1, AppendProperties
<1>3. out' \in [Scheds -> OutState]
  <2>1. [out[s] EXCEPT !.results = Append(@, [req |-> r, n |-> emitted[r] + 1])] \in OutState
    BY <1>0, <1>2, OutUpdates
  <2>2. out' = [out EXCEPT ![s] = [out[s] EXCEPT !.results = Append(@, [req |-> r, n |-> emitted[r] + 1])]]
    BY DEF PutResults
  <2> QED BY <1>0, <2>1, <2>2
<1>4. emitted' \in [Reqs -> Nat] /\ \A q \in Reqs : emitted'[q] <= Length[q]
  <2>1. emitted' = [emitted EXCEPT ![r] = @ + 1]
    BY DEF PutResults
  <2>2. emitted[r] + 1 <= Length[r]
    BY <1>0
  <2> QED BY <1>0, <2>1, <2>2 DEF TypeOK
<1>5. engine' \in [Scheds -> SUBSET Reqs]
  BY <1>0 DEF PutResults
<1> QED BY <1>3, <1>4, <1>5 DEF TypeOK, PutResults, redis, faults

LEMMA ResponseTypes ==
    ASSUME TypeOK, NEW s \in Scheds,
           TakeBatch(s) \/ ApplyBatch(s) \/ (\E h \in Scheds : PushStolen(s, h))
             \/ GetResultsWorker(s) \/ GetResults(s)
    PROVE  TypeOK'
<1>0. /\ out \in [Scheds -> OutState] /\ out[s] \in OutState
      /\ out[s].results \in Seq(Response) /\ out[s].batch \in Seq(Response)
      /\ out[s].pushing \in Seq(Response) /\ out[s].local \in SUBSET Reqs /\ out[s].stolen \in SUBSET Reqs
  BY DEF TypeOK, OutState
<1>1. /\ mem \in [Scheds -> MemState] /\ mem[s] \in MemState /\ mem[s].responses \in Seq(Response)
      /\ mem[s].tracked \in SUBSET Reqs /\ mem[s].stolen \in SUBSET Reqs
  BY DEF TypeOK, MemState
<1>2. resp_queue \in [Scheds -> Seq(Response)] /\ << >> \in Seq(Response)
  BY DEF TypeOK
<1>3. CASE TakeBatch(s)
  <2>1. out' = [out EXCEPT ![s] = [out[s] EXCEPT !.results = << >>, !.batch = out[s].results,
                                             !.local = mem[s].tracked, !.stolen = mem[s].stolen]]
    BY <1>3 DEF TakeBatch
  <2>2. [out[s] EXCEPT !.results = << >>, !.batch = out[s].results,
                       !.local = mem[s].tracked, !.stolen = mem[s].stolen] \in OutState
    BY <1>0, <1>1, <1>2, OutUpdates
  <2>3. out' \in [Scheds -> OutState]
    BY <1>0, <2>1, <2>2
  <2> QED BY <1>3, <2>3 DEF TypeOK, TakeBatch, redis, faults
<1>4. CASE ApplyBatch(s)
  <2> DEFINE b == out[s].batch
             mine == Of(b, out[s].local)
             push == Of(b, out[s].stolen \ out[s].local)
             raises == \E i \in DOMAIN mine : mine[i].req \notin mem[s].tracked
  <2>0. mine \in Seq(Response) /\ push \in Seq(Response) /\ mem[s].responses \o mine \in Seq(Response)
    BY <1>0, <1>1, OfType, ConcatProperties
  <2>a. /\ IF raises
           THEN out' = [out EXCEPT ![s].batch = << >>] /\ UNCHANGED mem
           ELSE /\ mem' = [mem EXCEPT ![s].responses = @ \o mine, ![s].stolen = @ \ Finished(b)]
                /\ out' = [out EXCEPT ![s].batch = << >>, ![s].pushing = push]
        /\ UNCHANGED <<redis, put, get, engine, emitted, delivered, begun, faults>>
    BY <1>4 DEF ApplyBatch
  <2> HIDE DEF b, mine, push, raises
  <2>1. CASE raises
    <3>1. out' = [out EXCEPT ![s] = [out[s] EXCEPT !.batch = << >>]] /\ mem' = mem
      BY <2>a, <2>1
    <3>2. [out[s] EXCEPT !.batch = << >>] \in OutState
      BY <1>0, <1>2, OutUpdates
    <3>3. out' \in [Scheds -> OutState]
      BY <1>0, <3>1, <3>2
    <3> QED BY <2>a, <3>1, <3>3 DEF TypeOK, redis, faults
  <2>2. CASE ~raises
    <3>1. /\ out' = [out EXCEPT ![s] = [out[s] EXCEPT !.batch = << >>, !.pushing = push]]
          /\ mem' = [mem EXCEPT ![s] = [mem[s] EXCEPT !.responses = mem[s].responses \o mine,
                                                      !.stolen = mem[s].stolen \ Finished(b)]]
      BY <2>a, <2>2
    <3>2. [out[s] EXCEPT !.batch = << >>, !.pushing = push] \in OutState
      BY <1>0, <1>2, <2>0, OutUpdates
    <3>3. [mem[s] EXCEPT !.responses = mem[s].responses \o mine,
                         !.stolen = mem[s].stolen \ Finished(b)] \in MemState
      <4>1. mem[s].stolen \ Finished(b) \in SUBSET Reqs
        BY <1>1
      <4> QED BY <1>1, <2>0, <4>1, MemUpdates
    <3>4. out' \in [Scheds -> OutState] /\ mem' \in [Scheds -> MemState]
      BY <1>0, <1>1, <3>1, <3>2, <3>3
    <3> QED BY <2>a, <3>4 DEF TypeOK, redis, faults
  <2> QED BY <2>1, <2>2
<1>5. ASSUME NEW h \in Scheds, PushStolen(s, h) PROVE TypeOK'
  <2> DEFINE there == {r \in Reqs : Home[r] = h}
             gone == Of(out[s].pushing, there)
             left == Of(out[s].pushing, Reqs \ there)
  <2>0. gone \in Seq(Response) /\ left \in Seq(Response) /\ resp_queue[h] \o gone \in Seq(Response)
    BY <1>0, <1>2, OfType, ConcatProperties
  <2>1. /\ resp_queue' = [resp_queue EXCEPT ![h] = @ \o gone]
        /\ out' = [out EXCEPT ![s] = [out[s] EXCEPT !.pushing = left]]
    BY <1>5 DEF PushStolen
  <2> HIDE DEF there, gone, left
  <2>2. [out[s] EXCEPT !.pushing = left] \in OutState
    BY <1>0, <2>0, OutUpdates
  <2>3. out' \in [Scheds -> OutState] /\ resp_queue' \in [Scheds -> Seq(Response)]
    BY <1>0, <1>2, <2>0, <2>1, <2>2
  <2> QED BY <1>5, <2>3 DEF TypeOK, PushStolen, faults
<1>6. CASE GetResultsWorker(s)
  <2> DEFINE got == Of(resp_queue[s], mem[s].tracked)
  <2>0. got \in Seq(Response) /\ mem[s].responses \o got \in Seq(Response)
    BY <1>1, <1>2, OfType, ConcatProperties
  <2>1. /\ mem' = [mem EXCEPT ![s] = [mem[s] EXCEPT !.responses = mem[s].responses \o got]]
        /\ resp_queue' = [resp_queue EXCEPT ![s] = << >>]
    BY <1>6 DEF GetResultsWorker
  <2> HIDE DEF got
  <2>2. [mem[s] EXCEPT !.responses = mem[s].responses \o got] \in MemState
    BY <1>1, <2>0, MemUpdates
  <2>3. mem' \in [Scheds -> MemState] /\ resp_queue' \in [Scheds -> Seq(Response)]
    BY <1>1, <1>2, <2>1, <2>2
  <2> QED BY <1>6, <2>3 DEF TypeOK, GetResultsWorker, faults
<1>7. CASE GetResults(s)
  <2>1. mem' = [mem EXCEPT ![s] = [mem[s] EXCEPT !.responses = << >>,
                                      !.tracked = mem[s].tracked \ Finished(mem[s].responses)]]
    BY <1>7 DEF GetResults
  <2>2. mem[s].tracked \ Finished(mem[s].responses) \in SUBSET Reqs
    BY <1>1
  <2>3. [mem[s] EXCEPT !.responses = << >>, !.tracked = mem[s].tracked \ Finished(mem[s].responses)]
          \in MemState
    BY <1>1, <1>2, <2>2, MemUpdates
  <2>4. mem' \in [Scheds -> MemState]
    BY <1>1, <2>1, <2>3
  <2>5. delivered' \in [Reqs -> Seq(Nat)]
    <3>1. ASSUME NEW r \in Reqs
          PROVE  delivered[r] \o Numbers(Of(mem[s].responses, {r})) \in Seq(Nat)
      <4>1. Numbers(Of(mem[s].responses, {r})) \in Seq(Nat)
        BY <1>1, OfType, NumbersType
      <4>2. delivered[r] \in Seq(Nat)
        BY DEF TypeOK
      <4> QED BY <4>1, <4>2, ConcatProperties
    <3>2. delivered' = [r \in Reqs |-> delivered[r] \o Numbers(Of(mem[s].responses, {r}))]
      BY <1>7 DEF GetResults
    <3> QED BY <3>1, <3>2
  <2> QED BY <1>7, <2>4, <2>5 DEF TypeOK, GetResults, redis, faults
<1> QED BY <1>3, <1>4, <1>5, <1>6, <1>7

(* reset, a crash and the expiry of the instance key. *)
LEMMA InHandType ==
    ASSUME TypeOK, NEW s \in Scheds
    PROVE  InHand(s) \subseteq Reqs
<1>1. engine[s] \subseteq Reqs /\ get[s].taken \in Seq(Reqs)
  BY DEF TypeOK, GetState
<1>2. Range(get[s].taken) \subseteq Reqs
  BY <1>1 DEF Range
<1>3. /\ out[s].results \in Seq(Response) /\ out[s].batch \in Seq(Response)
      /\ out[s].pushing \in Seq(Response)
  BY DEF TypeOK, OutState
<1> DEFINE all == out[s].results \o out[s].batch \o out[s].pushing
<1>4. all \in Seq(Response)
  <2>1. out[s].results \o out[s].batch \in Seq(Response)
    BY <1>3, ConcatProperties
  <2> QED BY <1>3, <2>1, ConcatProperties
<1> HIDE DEF all
<1>5. Range(all) \subseteq Response /\ \A x \in Response : x.req \in Reqs
  BY <1>4 DEF Range, Response
<1> QED BY <1>1, <1>2, <1>5 DEF InHand, all

LEMMA FaultTypes ==
    ASSUME TypeOK, NEW s \in Scheds, Reset(s) \/ Crash(s) \/ Expire(s)
    PROVE  TypeOK'
<1>0. << >> \in Seq(Response) /\ << >> \in Seq(Reqs) /\ InHand(s) \subseteq Reqs
  BY InHandType
<1>1. Empty \in MemState /\ IdlePut \in PutState /\ IdleGet \in GetState /\ NoBatch \in OutState
  BY DEF Empty, MemState, IdlePut, PutState, IdleGet, GetState, GetSteps, NoBatch, OutState
<1>2. CASE Reset(s)
  <2>1. mem' \in [Scheds -> MemState]
    BY <1>1, <1>2 DEF TypeOK, Reset
  <2>2. req_queue' \in [Scheds -> Seq(Reqs)] /\ resp_queue' \in [Scheds -> Seq(Response)]
    BY <1>0, <1>2 DEF TypeOK, Reset
  <2>3. load' \in [Scheds -> Int]
    BY <1>2 DEF TypeOK, Reset
  <2>4. hurt' \in SUBSET Reqs /\ skewed' \in SUBSET Scheds /\ was_reset' \in SUBSET Scheds
    BY <1>0, <1>2 DEF TypeOK, Reset, RequestsOf
  <2> QED BY <1>2, <2>1, <2>2, <2>3, <2>4 DEF TypeOK, Reset
<1>3. CASE Crash(s)
  <2>1. mem' \in [Scheds -> MemState] /\ out' \in [Scheds -> OutState]
    BY <1>1, <1>3 DEF TypeOK, Crash
  <2>2. put' \in [Scheds -> PutState] /\ \A t \in Scheds : put'[t].pc # "idle" => put'[t].req \in Reqs
    <3>1. put' = [put EXCEPT ![s] = IdlePut] /\ IdlePut.pc = "idle"
      BY <1>3 DEF Crash, IdlePut
    <3> QED BY <1>1, <3>1 DEF TypeOK
  <2>3. GetTypeOK'
    <3>1. get' = [get EXCEPT ![s] = IdleGet] /\ IdleGet.pc = "idle" /\ IdleGet.names = {}
      BY <1>3 DEF Crash, IdleGet
    <3>2. get' \in [Scheds -> GetState] /\ \A t \in Scheds : get'[t] = IF t = s THEN IdleGet ELSE get[t]
      BY <1>1, <3>1 DEF TypeOK
    <3> QED BY <3>1, <3>2 DEF TypeOK, GetTypeOK
  <2>4. engine' \in [Scheds -> SUBSET Reqs] /\ alive' \in SUBSET Scheds /\ hurt' \in SUBSET Reqs
    BY <1>0, <1>3 DEF TypeOK, Crash, RequestsOf
  <2>5. skewed' \in SUBSET Scheds
    <3>1. get[s].pc \in {"count", "recount"} => get[s].from \in Scheds
      BY DEF TypeOK
    <3> QED BY <1>3, <3>1 DEF TypeOK, Crash
  <2> QED BY <1>3, <2>1, <2>2, <2>3, <2>4, <2>5 DEF TypeOK, Crash, GetTypeOK, redis
<1>4. CASE Expire(s)
  <2>1. instance' \in SUBSET Scheds
    BY <1>4 DEF TypeOK, Expire
  <2> QED BY <1>4, <2>1 DEF TypeOK, Expire, faults
<1> QED BY <1>2, <1>3, <1>4

(* Every step preserves the types. *)
LEMMA TypesPreserved ==
    ASSUME TypeOK, EngineOpen, [Next]_vars
    PROVE  TypeOK'
<1>1. ASSUME NEW r \in Reqs, PutRequests(r) PROVE TypeOK'
  <2>1. Home[r] \in Scheds
    BY LengthType
  <2> QED BY <1>1, <2>1, PutTypes
<1>2. ASSUME NEW s \in Scheds, PutPush(s) \/ PutCount(s) PROVE TypeOK'
  BY <1>2, PutTypes
<1>3. ASSUME NEW s \in Scheds, \/ GetLocal(s) \/ Lookup(s) \/ Steal(s) \/ RemoveDead(s) \/ BlockingPop(s)
                               \/ PutBack(s) \/ Recount(s)
      PROVE  TypeOK'
  BY <1>3, GetTypes
<1>4. ASSUME NEW s \in Scheds, NEW k \in 0 .. Batch, CountAndFit(s, k) PROVE TypeOK'
  BY <1>4, FitTypes
<1>5. ASSUME NEW s \in Scheds, NEW r \in Reqs, PutResults(s, r) PROVE TypeOK'
  BY <1>5, PutResultsTypes
<1>6. ASSUME NEW s \in Scheds,
             TakeBatch(s) \/ ApplyBatch(s) \/ (\E h \in Scheds : PushStolen(s, h))
               \/ GetResultsWorker(s) \/ GetResults(s)
      PROVE  TypeOK'
  BY <1>6, ResponseTypes
<1>7. ASSUME NEW s \in Scheds, Reset(s) \/ Crash(s) \/ Expire(s) PROVE TypeOK'
  BY <1>7, FaultTypes
<1>8. CASE UNCHANGED vars
  BY <1>8 DEF TypeOK, vars, redis, faults
<1> QED BY <1>1, <1>2, <1>3, <1>4, <1>5, <1>6, <1>7, <1>8 DEF Next

-----------------------------------------------------------------------------
(* Where the requests are.  The layout gives the requests in each place; in  *)
(* a step a set of requests moves from one place to another, appears in one, *)
(* or disappears with a fault.                                               *)
Place == Kinds \X Scheds
Layout == [p \in Place |-> At(p[1], p[2])]
Apart(L) == \A p, q \in Place : p # q => L[p] \cap L[q] = {}
Somewhere(r, L) == \E p \in Place : r \in L[p]

PlaceInv ==
    /\ Apart(Layout)
    /\ \A p \in Place : Layout[p] \subseteq begun
    /\ \A r \in begun \ hurt : Somewhere(r, Layout)

(* The lists behind the places: a queue holds requests of its own scheduler, *)
(* what was pulled is of the scheduler it was pulled from.                   *)
ListInv ==
    \A s \in Scheds :
        /\ Once(req_queue[s]) /\ Once(get[s].taken)
        /\ get[s].pc \in {"idle", "lookup", "steal", "exists", "block"} => get[s].taken = << >>
        /\ \A r \in Range(req_queue[s]) : Home[r] = s
        /\ \A r \in Range(get[s].taken) : Home[r] = get[s].from
        /\ put[s].pc # "idle" => Home[put[s].req] = s

Moves(L, M, p, S, q) ==
    /\ S \subseteq L[p] /\ M[p] = L[p] \ S /\ M[q] = L[q] \cup S
    /\ \A o \in Place \ {p, q} : M[o] = L[o]

LEMMA MoveKeeps ==
    ASSUME NEW L, NEW M, NEW p \in Place, NEW q \in Place, p # q, NEW S,
           Moves(L, M, p, S, q), Apart(L)
    PROVE  /\ Apart(M)
           /\ \A r : Somewhere(r, L) => Somewhere(r, M)
           /\ \A B : (\A o \in Place : L[o] \subseteq B) => \A o \in Place : M[o] \subseteq B
<1>1. /\ S \subseteq L[p] /\ M[p] = L[p] \ S /\ M[q] = L[q] \cup S
      /\ \A o \in Place \ {p, q} : M[o] = L[o]
  BY DEF Moves
<1>2. Apart(M)
  <2> SUFFICES ASSUME NEW a \in Place, NEW b \in Place, a # b PROVE M[a] \cap M[b] = {}
    BY DEF Apart
  <2>1. L[a] \cap L[b] = {} /\ (a # p => L[a] \cap L[p] = {}) /\ (b # p => L[b] \cap L[p] = {})
    BY DEF Apart
  <2> QED BY <1>1, <2>1
<1>3. ASSUME NEW r, Somewhere(r, L) PROVE Somewhere(r, M)
  BY <1>1, <1>3 DEF Somewhere
<1>4. ASSUME NEW B, \A o \in Place : L[o] \subseteq B PROVE \A o \in Place : M[o] \subseteq B
  BY <1>1, <1>4
<1> QED BY <1>2, <1>3, <1>4

(* The layout, kind by kind, before and after a step. *)
LEMMA LayoutAt ==
    /\ \A p \in Place : \E k \in Kinds, s \in Scheds : p = <<k, s>>
    /\ \A k \in Kinds, s \in Scheds : <<k, s>> \in Place
    /\ \A s \in Scheds :
        /\ Layout[<<"put", s>>] = {r \in Reqs : put[s] = [pc |-> "push", req |-> r]}
        /\ Layout[<<"queue", s>>] = Range(req_queue[s])
        /\ Layout[<<"pulled", s>>] = Range(Pulled(s))
        /\ Layout[<<"engine", s>>] = engine[s]
        /\ Layout[<<"answered", s>>] = {r \in Reqs : Home[r] = s /\ emitted[r] = Length[r]}
<1>1. \A k \in Kinds, s \in Scheds : <<k, s>> \in Place /\ Layout[<<k, s>>] = At(k, s)
  BY DEF Place, Layout
<1>2. \A p \in Place : \E k \in Kinds, s \in Scheds : p = <<k, s>>
  BY DEF Place
<1>3. {"put", "queue", "pulled", "engine", "answered"} \subseteq Kinds
  BY DEF Kinds
<1> QED BY <1>1, <1>2, <1>3 DEF At

LEMMA LayoutNext ==
    \A s \in Scheds :
        /\ Layout'[<<"put", s>>] = {r \in Reqs : put'[s] = [pc |-> "push", req |-> r]}
        /\ Layout'[<<"queue", s>>] = Range(req_queue'[s])
        /\ Layout'[<<"pulled", s>>] = Range(Pulled(s)')
        /\ Layout'[<<"engine", s>>] = engine'[s]
        /\ Layout'[<<"answered", s>>] = {r \in Reqs : Home[r] = s /\ emitted'[r] = Length[r]}
<1>1. \A k \in Kinds, s \in Scheds : Layout'[<<k, s>>] = At(k, s)'
  BY DEF Place, Layout
<1>3. {"put", "queue", "pulled", "engine", "answered"} \subseteq Kinds
  BY DEF Kinds
<1> QED BY <1>1, <1>3 DEF At

LEMMA SameKinds ==
    ASSUME NEW s \in Scheds
    PROVE  /\ put'[s] = put[s] => Layout'[<<"put", s>>] = Layout[<<"put", s>>]
           /\ req_queue'[s] = req_queue[s] => Layout'[<<"queue", s>>] = Layout[<<"queue", s>>]
           /\ Pulled(s)' = Pulled(s) => Layout'[<<"pulled", s>>] = Layout[<<"pulled", s>>]
           /\ engine'[s] = engine[s] => Layout'[<<"engine", s>>] = Layout[<<"engine", s>>]
           /\ emitted' = emitted => Layout'[<<"answered", s>>] = Layout[<<"answered", s>>]
<1>1. ASSUME put'[s] = put[s] PROVE Layout'[<<"put", s>>] = Layout[<<"put", s>>]
  <2>1. Layout[<<"put", s>>] = {r \in Reqs : put[s] = [pc |-> "push", req |-> r]}
    BY LayoutAt
  <2>2. Layout'[<<"put", s>>] = {r \in Reqs : put'[s] = [pc |-> "push", req |-> r]}
    BY LayoutNext
  <2> QED BY <1>1, <2>1, <2>2
<1>2. ASSUME req_queue'[s] = req_queue[s] PROVE Layout'[<<"queue", s>>] = Layout[<<"queue", s>>]
  <2>1. Layout[<<"queue", s>>] = Range(req_queue[s]) /\ Layout'[<<"queue", s>>] = Range(req_queue'[s])
    BY LayoutAt, LayoutNext
  <2> QED BY <1>2, <2>1
<1>3. ASSUME Pulled(s)' = Pulled(s) PROVE Layout'[<<"pulled", s>>] = Layout[<<"pulled", s>>]
  <2>1. Layout[<<"pulled", s>>] = Range(Pulled(s)) /\ Layout'[<<"pulled", s>>] = Range(Pulled(s)')
    BY LayoutAt, LayoutNext
  <2> QED BY <1>3, <2>1
<1>4. ASSUME engine'[s] = engine[s] PROVE Layout'[<<"engine", s>>] = Layout[<<"engine", s>>]
  <2>1. Layout[<<"engine", s>>] = engine[s] /\ Layout'[<<"engine", s>>] = engine'[s]
    BY LayoutAt, LayoutNext
  <2> QED BY <1>4, <2>1
<1>5. ASSUME emitted' = emitted PROVE Layout'[<<"answered", s>>] = Layout[<<"answered", s>>]
  <2>1. Layout[<<"answered", s>>] = {r \in Reqs : Home[r] = s /\ emitted[r] = Length[r]}
    BY LayoutAt
  <2>2. Layout'[<<"answered", s>>] = {r \in Reqs : Home[r] = s /\ emitted'[r] = Length[r]}
    BY LayoutNext
  <2> QED BY <1>5, <2>1, <2>2
<1> QED BY <1>1, <1>2, <1>3, <1>4, <1>5

(* Two layouts that agree, kind by kind, outside one or two places. *)
LEMMA SameOutside ==
    ASSUME NEW p, NEW q,
           \A s \in Scheds : <<"put", s>> \notin {p, q} => Layout'[<<"put", s>>] = Layout[<<"put", s>>],
           \A s \in Scheds : <<"queue", s>> \notin {p, q} => Layout'[<<"queue", s>>] = Layout[<<"queue", s>>],
           \A s \in Scheds : <<"pulled", s>> \notin {p, q} => Layout'[<<"pulled", s>>] = Layout[<<"pulled", s>>],
           \A s \in Scheds : <<"engine", s>> \notin {p, q} => Layout'[<<"engine", s>>] = Layout[<<"engine", s>>],
           \A s \in Scheds : <<"answered", s>> \notin {p, q} =>
                Layout'[<<"answered", s>>] = Layout[<<"answered", s>>]
    PROVE  \A o \in Place \ {p, q} : Layout'[o] = Layout[o]
<1> SUFFICES ASSUME NEW o \in Place \ {p, q} PROVE Layout'[o] = Layout[o]
  OBVIOUS
<1>1. PICK k \in Kinds, s \in Scheds : o = <<k, s>>
  BY LayoutAt
<1>2. k \in {"put", "queue", "pulled", "engine", "answered"}
  BY DEF Kinds
<1> QED BY <1>1, <1>2

LEMMA SamePlaces ==
    ASSUME PlaceInv, \A o \in Place : Layout'[o] = Layout[o], begun' = begun, hurt' = hurt
    PROVE  PlaceInv'
<1>1. Apart(Layout')
  BY DEF PlaceInv, Apart
<1>2. \A r \in begun' \ hurt' : Somewhere(r, Layout')
  BY DEF PlaceInv, Somewhere
<1> QED BY <1>1, <1>2 DEF PlaceInv, Apart, Somewhere

LEMMA MovedPlaces ==
    ASSUME PlaceInv, NEW p \in Place, NEW q \in Place, p # q, NEW S, Moves(Layout, Layout', p, S, q),
           begun' = begun, hurt' = hurt
    PROVE  PlaceInv'
<1>1. /\ Apart(Layout')
      /\ \A r : Somewhere(r, Layout) => Somewhere(r, Layout')
      /\ \A B : (\A o \in Place : Layout[o] \subseteq B) => \A o \in Place : Layout'[o] \subseteq B
  BY MoveKeeps DEF PlaceInv
<1>2. \A o \in Place : Layout'[o] \subseteq begun'
  BY <1>1 DEF PlaceInv
<1>3. \A r \in begun' \ hurt' : Somewhere(r, Layout')
  BY <1>1 DEF PlaceInv
<1> QED BY <1>1, <1>2, <1>3 DEF PlaceInv, Apart, Somewhere

(* A step that leaves every place as it is. *)
LEMMA Still ==
    ASSUME PlaceInv, UNCHANGED <<req_queue, engine, emitted, begun, hurt>>,
           \A s \in Scheds : Layout'[<<"put", s>>] = Layout[<<"put", s>>],
           \A s \in Scheds : Layout'[<<"pulled", s>>] = Layout[<<"pulled", s>>]
    PROVE  PlaceInv'
<1>1. \A o \in Place : Layout'[o] = Layout[o]
  <2>1. \A s \in Scheds : /\ Layout'[<<"queue", s>>] = Layout[<<"queue", s>>]
                          /\ Layout'[<<"engine", s>>] = Layout[<<"engine", s>>]
                          /\ Layout'[<<"answered", s>>] = Layout[<<"answered", s>>]
    BY SameKinds
  <2>2. PICK z : z \notin Place
    BY NoSetContainsEverything
  <2>3. \A o \in Place \ {z, z} : Layout'[o] = Layout[o]
    BY <2>1, SameOutside
  <2> QED BY <2>2, <2>3
<1> QED BY <1>1, SamePlaces

(* Steps of the threads that move responses, and others, leave everything.   *)
LEMMA QuietStep ==
    ASSUME PlaceInv, ListInv, UNCHANGED <<req_queue, put, get, engine, emitted, begun, hurt>>
    PROVE  PlaceInv' /\ ListInv'
<1>1. \A s \in Scheds : Layout'[<<"put", s>>] = Layout[<<"put", s>>]
  BY SameKinds
<1>2. \A s \in Scheds : Layout'[<<"pulled", s>>] = Layout[<<"pulled", s>>]
  <2>1. \A s \in Scheds : Pulled(s)' = Pulled(s)
    BY DEF Pulled
  <2> QED BY <2>1, SameKinds
<1>3. ListInv'
  BY DEF ListInv
<1> QED BY <1>1, <1>2, <1>3, Still

LEMMA PutRequestsPlaces ==
    ASSUME TypeOK, PlaceInv, ListInv, NEW r \in Reqs, PutRequests(r)
    PROVE  PlaceInv' /\ ListInv'
<1> DEFINE h == Home[r]
           p == <<"put", h>>
<1>0. /\ h \in Scheds /\ put \in [Scheds -> PutState] /\ put[h].pc = "idle" /\ r \notin begun
      /\ put' = [put EXCEPT ![h] = [pc |-> "push", req |-> r]] /\ begun' = begun \cup {r}
      /\ UNCHANGED <<req_queue, get, engine, emitted, hurt>>
  BY LengthType DEF TypeOK, PutRequests, redis, faults
<1>1. Layout[p] = {} /\ Layout'[p] = {r}
  <2>1. Layout[p] = {q \in Reqs : put[h] = [pc |-> "push", req |-> q]}
    BY <1>0, LayoutAt
  <2>2. Layout'[p] = {q \in Reqs : put'[h] = [pc |-> "push", req |-> q]}
    BY <1>0, LayoutNext
  <2>3. put'[h] = [pc |-> "push", req |-> r]
    BY <1>0
  <2>4. \A q \in Reqs : put[h] # [pc |-> "push", req |-> q]
    BY <1>0
  <2>5. \A q \in Reqs : put'[h] = [pc |-> "push", req |-> q] <=> q = r
    <3>1. ASSUME NEW q \in Reqs, put'[h] = [pc |-> "push", req |-> q] PROVE q = r
      <4>1. put'[h].req = q /\ put'[h].req = r
        BY <2>3, <3>1
      <4> QED BY <4>1
    <3> QED BY <2>3, <3>1
  <2> QED BY <2>1, <2>2, <2>4, <2>5
<1>2. \A o \in Place \ {p, p} : Layout'[o] = Layout[o]
  <2>1. \A s \in Scheds : s # h => put'[s] = put[s]
    BY <1>0
  <2>2. \A s \in Scheds : <<"put", s>> \notin {p, p} => Layout'[<<"put", s>>] = Layout[<<"put", s>>]
    BY <2>1, SameKinds
  <2>3. \A s \in Scheds : Pulled(s)' = Pulled(s)
    BY <1>0 DEF Pulled
  <2>4. \A s \in Scheds : /\ Layout'[<<"queue", s>>] = Layout[<<"queue", s>>]
                          /\ Layout'[<<"pulled", s>>] = Layout[<<"pulled", s>>]
                          /\ Layout'[<<"engine", s>>] = Layout[<<"engine", s>>]
                          /\ Layout'[<<"answered", s>>] = Layout[<<"answered", s>>]
    BY <1>0, <2>3, SameKinds
  <2> QED BY <2>2, <2>4, SameOutside
<1>3. p \in Place
  BY <1>0, LayoutAt DEF Kinds
<1>4. Apart(Layout')
  <2> SUFFICES ASSUME NEW a \in Place, NEW b \in Place, a # b PROVE Layout'[a] \cap Layout'[b] = {}
    BY DEF Apart
  <2>1. Layout[a] \cap Layout[b] = {} /\ Layout[a] \subseteq begun /\ Layout[b] \subseteq begun
    BY DEF PlaceInv, Apart
  <2> QED BY <1>0, <1>1, <1>2, <2>1
<1>5. \A o \in Place : Layout'[o] \subseteq begun'
  BY <1>0, <1>1, <1>2 DEF PlaceInv
<1>6. \A q \in begun' \ hurt' : Somewhere(q, Layout')
  <2> SUFFICES ASSUME NEW q \in begun' \ hurt' PROVE Somewhere(q, Layout')
    OBVIOUS
  <2>1. CASE q = r
    BY <1>1, <1>3, <2>1 DEF Somewhere
  <2>2. CASE q # r
    <3>1. PICK o \in Place : q \in Layout[o]
      BY <1>0, <2>2 DEF PlaceInv, Somewhere
    <3>2. q \in Layout'[o]
      BY <1>1, <1>2, <3>1
    <3> QED BY <3>1, <3>2 DEF Somewhere
  <2> QED BY <2>1, <2>2
<1>7. ListInv'
  <2>1. \A s \in Scheds : put'[s] = IF s = h THEN [pc |-> "push", req |-> r] ELSE put[s]
    BY <1>0
  <2> QED BY <1>0, <2>1 DEF ListInv
<1> QED BY <1>4, <1>5, <1>6, <1>7 DEF PlaceInv, Apart, Somewhere

LEMMA PutPushPlaces ==
    ASSUME TypeOK, PlaceInv, ListInv, NEW s \in Scheds, PutPush(s)
    PROVE  PlaceInv' /\ ListInv'
<1> DEFINE p == <<"put", s>>
           q == <<"queue", s>>
           r == put[s].req
<1>0. /\ put \in [Scheds -> PutState] /\ put[s] \in PutState /\ put[s].pc = "push" /\ r \in Reqs
      /\ put' = [put EXCEPT ![s] = [put[s] EXCEPT !.pc = "count"]]
      /\ req_queue \in [Scheds -> Seq(Reqs)]
      /\ req_queue' = [req_queue EXCEPT ![s] = Append(@, r)]
      /\ UNCHANGED <<get, engine, emitted, begun, hurt>>
  BY DEF TypeOK, PutPush, faults
<1>1. p \in Place /\ q \in Place /\ p # q
  BY LayoutAt DEF Kinds
<1>2. Layout[p] = {r}
  <2>1. Layout[p] = {x \in Reqs : put[s] = [pc |-> "push", req |-> x]}
    BY LayoutAt
  <2>2. put[s] = [pc |-> "push", req |-> r]
    BY <1>0 DEF PutState
  <2>3. \A x \in Reqs : put[s] = [pc |-> "push", req |-> x] <=> x = r
    BY <2>2
  <2> QED BY <1>0, <2>1, <2>3
<1>3. Layout'[p] = {}
  <2>1. put'[s].pc = "count"
    BY <1>0 DEF PutState
  <2>2. \A x \in Reqs : put'[s] # [pc |-> "push", req |-> x]
    BY <2>1
  <2> QED BY <2>2, LayoutNext
<1>4. r \notin Range(req_queue[s])
  <2>1. Layout[q] = Range(req_queue[s]) /\ Layout[p] \cap Layout[q] = {}
    BY <1>1, LayoutAt DEF PlaceInv, Apart
  <2> QED BY <1>2, <2>1
<1>5. Once(req_queue'[s]) /\ Range(req_queue'[s]) = Range(req_queue[s]) \cup {r}
  <2>1. req_queue'[s] = Append(req_queue[s], r) /\ req_queue[s] \in Seq(Reqs)
    BY <1>0
  <2> QED BY <1>0, <1>4, <2>1, OnceAppend DEF ListInv
<1>6. \A o \in Place \ {p, q} : Layout'[o] = Layout[o]
  <2>1. \A t \in Scheds : t # s => put'[t] = put[t] /\ req_queue'[t] = req_queue[t]
    BY <1>0
  <2>2. \A t \in Scheds : Pulled(t)' = Pulled(t)
    BY <1>0 DEF Pulled
  <2>3. \A t \in Scheds : <<"put", t>> \notin {p, q} => Layout'[<<"put", t>>] = Layout[<<"put", t>>]
    BY <2>1, SameKinds
  <2>4. \A t \in Scheds : <<"queue", t>> \notin {p, q} => Layout'[<<"queue", t>>] = Layout[<<"queue", t>>]
    BY <2>1, SameKinds
  <2> QED BY <1>0, <2>2, <2>3, <2>4, SameKinds, SameOutside, ZenonT(40)
<1>7. Moves(Layout, Layout', p, {r}, q)
  BY <1>2, <1>3, <1>5, <1>6, LayoutAt, LayoutNext DEF Moves
<1>8. PlaceInv'
  BY <1>0, <1>1, <1>7, MovedPlaces
<1>9. ListInv'
  <2> SUFFICES ASSUME NEW t \in Scheds PROVE
        /\ Once(req_queue'[t]) /\ \A x \in Range(req_queue'[t]) : Home[x] = t
        /\ put'[t].pc # "idle" => Home[put'[t].req] = t
    BY <1>0 DEF ListInv
  <2>1. CASE t = s
    <3>1. put'[s].req = r /\ Home[r] = s
      BY <1>0 DEF PutState, ListInv
    <3> QED BY <1>5, <2>1, <3>1 DEF ListInv
  <2>2. CASE t # s
    <3>1. put'[t] = put[t] /\ req_queue'[t] = req_queue[t]
      BY <1>0, <2>2
    <3> QED BY <3>1 DEF ListInv
  <2> QED BY <2>1, <2>2
<1> QED BY <1>8, <1>9

LEMMA PutCountPlaces ==
    ASSUME TypeOK, PlaceInv, ListInv, NEW s \in Scheds, PutCount(s)
    PROVE  PlaceInv' /\ ListInv'
<1>0. /\ put \in [Scheds -> PutState] /\ put[s].pc = "count" /\ put' = [put EXCEPT ![s] = IdlePut]
      /\ UNCHANGED <<req_queue, get, engine, emitted, begun, hurt>>
  BY DEF TypeOK, PutCount, faults
<1>1. \A t \in Scheds : put'[t] = IF t = s THEN IdlePut ELSE put[t]
  BY <1>0
<1>2. \A x \in Reqs : put[s] # [pc |-> "push", req |-> x] /\ IdlePut # [pc |-> "push", req |-> x]
  BY <1>0 DEF IdlePut
<1>3. \A t \in Scheds : Layout'[<<"put", t>>] = Layout[<<"put", t>>]
  <2> TAKE t \in Scheds
  <2>1. CASE t # s
    BY <1>1, <2>1, SameKinds
  <2>2. CASE t = s
    <3>1. /\ Layout[<<"put", s>>] = {r \in Reqs : put[s] = [pc |-> "push", req |-> r]}
          /\ Layout'[<<"put", s>>] = {r \in Reqs : put'[s] = [pc |-> "push", req |-> r]}
      BY LayoutAt, LayoutNext
    <3>2. Layout[<<"put", s>>] = {} /\ Layout'[<<"put", s>>] = {}
      BY <1>1, <1>2, <3>1
    <3> QED BY <2>2, <3>2
  <2> QED BY <2>1, <2>2
<1>4. \A t \in Scheds : Layout'[<<"pulled", t>>] = Layout[<<"pulled", t>>]
  <2>1. \A t \in Scheds : Pulled(t)' = Pulled(t)
    BY <1>0 DEF Pulled
  <2> QED BY <2>1, SameKinds
<1>5. ListInv'
  BY <1>0, <1>1 DEF ListInv, IdlePut
<1> QED BY <1>0, <1>3, <1>4, <1>5, Still

(* A pop moves the head of a queue into the hand of a scheduler. *)
LEMMA PopPlaces ==
    ASSUME TypeOK, PlaceInv, ListInv, NEW s \in Scheds, NEW q \in Scheds, NEW n \in Nat,
           NEW otherwise \in {"idle", "lookup", "exists"},
           get[s].pc \in {"idle", "steal", "block"}, Pop(s, q, n, otherwise)
    PROVE  PlaceInv' /\ ListInv'
<1> DEFINE k == IF Len(req_queue[q]) < n THEN Len(req_queue[q]) ELSE n
           a == SubSeq(req_queue[q], 1, k)
           b == SubSeq(req_queue[q], k + 1, Len(req_queue[q]))
           from == <<"queue", q>>
           to == <<"pulled", s>>
<1>0. /\ req_queue \in [Scheds -> Seq(Reqs)] /\ req_queue[q] \in Seq(Reqs)
      /\ get \in [Scheds -> GetState] /\ get[s] \in GetState
      /\ Len(req_queue[q]) \in Nat /\ k \in 0 .. Len(req_queue[q])
  BY DEF TypeOK
<1>1. /\ req_queue' = [req_queue EXCEPT ![q] = b]
      /\ get' = [get EXCEPT ![s] = IF k = 0 THEN [get[s] EXCEPT !.pc = otherwise]
                                   ELSE [get[s] EXCEPT !.pc = "count", !.from = q, !.taken = a]]
      /\ UNCHANGED <<put, engine, emitted, begun, hurt>>
  BY DEF Pop, getFrame
<1>2. /\ a \in Seq(Reqs) /\ b \in Seq(Reqs) /\ Len(a) = k /\ Len(b) = Len(req_queue[q]) - k
      /\ Once(a) /\ Once(b) /\ Range(a) \subseteq Range(req_queue[q])
      /\ Range(b) = Range(req_queue[q]) \ Range(a)
  <2>1. Once(req_queue[q])
    BY DEF ListInv
  <2> HIDE DEF k
  <2> QED BY ONLY <1>0, <2>1, OnceCut
<1> HIDE DEF k, a, b
<1>3. get[s].taken = << >> /\ get[s].pc # "recount"
  BY DEF ListInv
<1>4. /\ \A t \in Scheds : t # s => get'[t] = get[t]
      /\ \A t \in Scheds : t # q => req_queue'[t] = req_queue[t]
      /\ req_queue'[q] = b
  BY <1>0, <1>1
<1>5. /\ k = 0 => get'[s].pc = otherwise /\ get'[s].taken = << >>
      /\ k # 0 => get'[s].pc = "count" /\ get'[s].from = q /\ get'[s].taken = a
  BY <1>0, <1>1, <1>3 DEF GetState
<1>6. /\ get'[s].taken = IF k = 0 THEN << >> ELSE a
      /\ get'[s].pc # "recount" /\ Range(get'[s].taken) = Range(a)
  <2>1. k = 0 => Range(a) = {}
    BY <1>2 DEF Range
  <2> QED BY <1>5, <2>1, OnceEmpty
<1>7. from \in Place /\ to \in Place /\ from # to
  BY LayoutAt DEF Kinds
<1>8. Layout[to] = {} /\ Layout'[to] = Range(a)
  <2>1. Layout[to] = Range(Pulled(s)) /\ Layout'[to] = Range(Pulled(s)')
    BY LayoutAt, LayoutNext
  <2>2. Pulled(s) = << >> /\ Pulled(s)' = get'[s].taken
    BY <1>3, <1>6 DEF Pulled
  <2> QED BY <1>6, <2>1, <2>2, OnceEmpty
<1>9. Layout[from] = Range(req_queue[q]) /\ Layout'[from] = Range(b)
  BY <1>4, LayoutAt, LayoutNext
<1>10. \A o \in Place \ {from, to} : Layout'[o] = Layout[o]
  <2>1. \A t \in Scheds : t # s => Pulled(t)' = Pulled(t)
    BY <1>4 DEF Pulled
  <2>2. \A t \in Scheds : <<"queue", t>> \notin {from, to} =>
            Layout'[<<"queue", t>>] = Layout[<<"queue", t>>]
    BY <1>4, SameKinds
  <2>3. \A t \in Scheds : <<"pulled", t>> \notin {from, to} =>
            Layout'[<<"pulled", t>>] = Layout[<<"pulled", t>>]
    BY <2>1, SameKinds
  <2>4. \A t \in Scheds : /\ Layout'[<<"put", t>>] = Layout[<<"put", t>>]
                          /\ Layout'[<<"engine", t>>] = Layout[<<"engine", t>>]
                          /\ Layout'[<<"answered", t>>] = Layout[<<"answered", t>>]
    BY <1>1, SameKinds
  <2> HIDE DEF from, to
  <2> QED BY ONLY <2>2, <2>3, <2>4, SameOutside, ZenonT(40)
<1>11. Moves(Layout, Layout', from, Range(a), to)
  BY <1>2, <1>8, <1>9, <1>10 DEF Moves
<1>12. PlaceInv'
  BY <1>1, <1>7, <1>11, MovedPlaces
<1>13. ListInv'
  <2> SUFFICES ASSUME NEW t \in Scheds PROVE
        /\ Once(req_queue'[t]) /\ Once(get'[t].taken)
        /\ get'[t].pc \in {"idle", "lookup", "steal", "exists", "block"} => get'[t].taken = << >>
        /\ \A r \in Range(req_queue'[t]) : Home[r] = t
        /\ \A r \in Range(get'[t].taken) : Home[r] = get'[t].from
    BY <1>1 DEF ListInv
  <2>1. Once(req_queue'[t]) /\ \A r \in Range(req_queue'[t]) : Home[r] = t
    BY <1>2, <1>4 DEF ListInv
  <2>2. CASE t # s
    <3>1. get'[t] = get[t]
      BY <1>4, <2>2
    <3> QED BY <2>1, <3>1 DEF ListInv
  <2>3. CASE t = s /\ k = 0
    BY <1>5, <2>1, <2>3, OnceEmpty
  <2>4. CASE t = s /\ k # 0
    BY <1>2, <1>5, <2>1, <2>4 DEF ListInv
  <2> QED BY <2>2, <2>3, <2>4
<1> QED BY <1>12, <1>13

(* A step of get_requests that moves nothing. *)
LEMMA GetMovesNothing ==
    ASSUME TypeOK, PlaceInv, ListInv, NEW s \in Scheds, NEW g, get' = [get EXCEPT ![s] = g],
           g.taken = << >>, Pulled(s) = << >>, UNCHANGED <<req_queue, put, engine, emitted, begun, hurt>>
    PROVE  PlaceInv' /\ ListInv'
<1>1. \A t \in Scheds : get'[t] = IF t = s THEN g ELSE get[t]
  BY DEF TypeOK
<1>2. \A t \in Scheds : Layout'[<<"put", t>>] = Layout[<<"put", t>>]
  BY SameKinds
<1>3. \A t \in Scheds : Pulled(t)' = Pulled(t)
  BY <1>1 DEF Pulled
<1>4. \A t \in Scheds : Layout'[<<"pulled", t>>] = Layout[<<"pulled", t>>]
  BY <1>3, SameKinds
<1>5. ListInv'
  BY <1>1, OnceEmpty DEF ListInv
<1> QED BY <1>2, <1>4, <1>5, Still

LEMMA GetPlaces ==
    ASSUME TypeOK, PlaceInv, ListInv, NEW s \in Scheds,
           \/ GetLocal(s) \/ Lookup(s) \/ Steal(s) \/ RemoveDead(s) \/ BlockingPop(s) \/ Recount(s)
    PROVE  PlaceInv' /\ ListInv'
<1>0. Batch \in Nat \ {0} /\ get[s] \in GetState
  BY GlobalAssumption DEF TypeOK
<1>1. CASE GetLocal(s)
  BY <1>0, <1>1, PopPlaces DEF GetLocal
<1>2. CASE Steal(s)
  <2>1. Pop(s, get[s].from, (Batch + 1) \div 2, "exists") /\ get[s].pc = "steal"
    BY <1>2 DEF Steal
  <2>2. (Batch + 1) \div 2 \in Nat /\ get[s].from \in Scheds
    BY <1>0, <2>1 DEF TypeOK
  <2> QED BY <2>1, <2>2, PopPlaces
<1>3. CASE Lookup(s) \/ RemoveDead(s)
  <2>1. /\ get[s].taken = << >> /\ Pulled(s) = << >>
        /\ UNCHANGED <<req_queue, put, engine, emitted, begun, hurt>>
    BY <1>3 DEF Lookup, RemoveDead, ListInv, Pulled, getFrame
  <2>2. \E g : get' = [get EXCEPT ![s] = g] /\ g.taken = << >>
    <3>1. \A pc, q, names : /\ [get[s] EXCEPT !.pc = pc].taken = << >>
                            /\ [get[s] EXCEPT !.pc = pc, !.from = q, !.names = names].taken = << >>
      BY <1>0, <2>1 DEF GetState
    <3>2. CASE RemoveDead(s)
      BY <3>1, <3>2 DEF RemoveDead
    <3>3. CASE Lookup(s)
      <4> DEFINE others == {q \in Scheds \ {s} : load[q] >= MinLoad}
      <4>1. CASE others = {}
        <5>1. get' = [get EXCEPT ![s] = [get[s] EXCEPT !.pc = "block"]]
          BY <3>3, <4>1 DEF Lookup
        <5> QED BY <3>1, <5>1
      <4>2. CASE others # {}
        <5>1. PICK q \in others :
                get' = [get EXCEPT ![s] = [get[s] EXCEPT !.pc = "steal", !.from = q, !.names = others]]
          BY <3>3, <4>2 DEF Lookup
        <5> HIDE DEF others
        <5> QED BY <3>1, <5>1
      <4> QED BY <4>1, <4>2
    <3> QED BY <1>3, <3>2, <3>3
  <2> QED BY <2>1, <2>2, GetMovesNothing
<1>4. CASE BlockingPop(s)
  <2>0. get[s].pc = "block" /\ get[s].names \subseteq Scheds
    BY <1>0, <1>4 DEF BlockingPop, GetState
  <2>1. \/ \E q \in get[s].names \cup {s} : Pop(s, q, 1, "idle")
        \/ get' = [get EXCEPT ![s] = IdleGet] /\ UNCHANGED <<req_queue, load, getFrame, skewed>>
    BY <1>4 DEF BlockingPop
  <2>2. CASE \E q \in get[s].names \cup {s} : Pop(s, q, 1, "idle")
    BY <2>0, <2>2, PopPlaces
  <2>3. CASE get' = [get EXCEPT ![s] = IdleGet] /\ UNCHANGED <<req_queue, load, getFrame, skewed>>
    <3>1. IdleGet.taken = << >> /\ Pulled(s) = << >>
      BY <2>0 DEF IdleGet, Pulled, ListInv
    <3> QED BY <2>3, <3>1, GetMovesNothing DEF getFrame
  <2> QED BY <2>1, <2>2, <2>3
<1>5. CASE Recount(s)
  <2>1. /\ IdleGet.taken = << >> /\ Pulled(s) = << >> /\ get' = [get EXCEPT ![s] = IdleGet]
        /\ UNCHANGED <<req_queue, put, engine, emitted, begun, hurt>>
    BY <1>5 DEF IdleGet, Pulled, Recount, getFrame
  <2> QED BY <2>1, GetMovesNothing
<1> QED BY <1>1, <1>2, <1>3, <1>4, <1>5

(* What fits goes to the engine, the rest stays in hand. *)
LEMMA FitPlaces ==
    ASSUME TypeOK, PlaceInv, ListInv, NEW s \in Scheds, NEW k \in 0 .. Batch, CountAndFit(s, k)
    PROVE  PlaceInv' /\ ListInv'
<1> DEFINE taken == get[s].taken
           mine == {taken[i] : i \in 1 .. k}
           rest == SubSeq(taken, k + 1, Len(taken))
           from == <<"pulled", s>>
           to == <<"engine", s>>
<1>0. /\ get \in [Scheds -> GetState] /\ get[s] \in GetState /\ taken \in Seq(Reqs)
      /\ k \in 0 .. Len(taken) /\ get[s].pc = "count" /\ engine \in [Scheds -> SUBSET Reqs]
  <2>1. get[s].pc = "count" /\ k <= Len(get[s].taken) /\ Batch \in Nat
    BY GlobalAssumption DEF CountAndFit
  <2>2. get \in [Scheds -> GetState] /\ get[s] \in GetState /\ get[s].taken \in Seq(Reqs)
    BY DEF TypeOK, GetState
  <2> QED BY <2>1, <2>2 DEF TypeOK
<1>1. /\ engine' = [engine EXCEPT ![s] = @ \cup mine]
      /\ get' = [get EXCEPT ![s] = IF rest = << >> THEN IdleGet
                                   ELSE [get[s] EXCEPT !.pc = "back", !.taken = rest]]
      /\ UNCHANGED <<req_queue, put, emitted, begun, hurt>>
  BY DEF CountAndFit, faults
<1>2. /\ rest \in Seq(Reqs) /\ Once(rest) /\ mine \subseteq Range(taken)
      /\ Range(rest) = Range(taken) \ mine
  <2>1. Once(taken)
    BY DEF ListInv
  <2> HIDE DEF taken
  <2>2. /\ rest \in Seq(Reqs) /\ Once(rest) /\ Range(SubSeq(taken, 1, k)) = mine
        /\ Range(SubSeq(taken, 1, k)) \subseteq Range(taken)
        /\ Range(rest) = Range(taken) \ Range(SubSeq(taken, 1, k))
    BY ONLY <1>0, <2>1, OnceCut
  <2> QED BY <2>2
<1> HIDE DEF mine, rest
<1>3. /\ \A t \in Scheds : t # s => get'[t] = get[t] /\ engine'[t] = engine[t]
      /\ engine'[s] = engine[s] \cup mine
  BY <1>0, <1>1
<1>4. get'[s].taken = rest /\ get'[s].pc \in {"idle", "back"}
      /\ (get'[s].pc = "idle" => rest = << >>)
      /\ (get'[s].pc = "back" => get'[s].from = get[s].from)
  BY <1>0, <1>1 DEF IdleGet, GetState
<1>5. from \in Place /\ to \in Place /\ from # to
  BY LayoutAt DEF Kinds
<1>6. Layout[from] = Range(taken) /\ Layout'[from] = Range(rest)
  <2>1. Layout[from] = Range(Pulled(s)) /\ Layout'[from] = Range(Pulled(s)')
    BY LayoutAt, LayoutNext
  <2>2. Pulled(s) = taken /\ Pulled(s)' = rest
    BY <1>0, <1>4 DEF Pulled
  <2> QED BY <2>1, <2>2
<1>7. Layout[to] = engine[s] /\ Layout'[to] = engine[s] \cup mine
  BY <1>3, LayoutAt, LayoutNext
<1>8. \A o \in Place \ {from, to} : Layout'[o] = Layout[o]
  <2>1. \A t \in Scheds : t # s => Pulled(t)' = Pulled(t)
    BY <1>3 DEF Pulled
  <2>2. \A t \in Scheds : <<"engine", t>> \notin {from, to} =>
            Layout'[<<"engine", t>>] = Layout[<<"engine", t>>]
    BY <1>3, SameKinds
  <2>3. \A t \in Scheds : <<"pulled", t>> \notin {from, to} =>
            Layout'[<<"pulled", t>>] = Layout[<<"pulled", t>>]
    BY <2>1, SameKinds
  <2>4. \A t \in Scheds : /\ Layout'[<<"put", t>>] = Layout[<<"put", t>>]
                          /\ Layout'[<<"queue", t>>] = Layout[<<"queue", t>>]
                          /\ Layout'[<<"answered", t>>] = Layout[<<"answered", t>>]
    BY <1>1, SameKinds
  <2> QED BY <2>2, <2>3, <2>4, SameOutside
<1>9. Moves(Layout, Layout', from, mine, to)
  BY <1>2, <1>6, <1>7, <1>8 DEF Moves
<1>10. PlaceInv'
  BY <1>1, <1>5, <1>9, MovedPlaces
<1>11. ListInv'
  <2> SUFFICES ASSUME NEW t \in Scheds PROVE
        /\ Once(get'[t].taken)
        /\ get'[t].pc \in {"idle", "lookup", "steal", "exists", "block"} => get'[t].taken = << >>
        /\ \A r \in Range(get'[t].taken) : Home[r] = get'[t].from
    BY <1>1 DEF ListInv
  <2>1. CASE t # s
    <3>1. get'[t] = get[t]
      BY <1>3, <2>1
    <3> QED BY <3>1 DEF ListInv
  <2>2. CASE t = s
    <3>1. rest = << >> => Range(rest) = {}
      BY OnceEmpty
    <3> QED BY <1>2, <1>4, <2>2, <3>1 DEF ListInv
  <2> QED BY <2>1, <2>2
<1> QED BY <1>10, <1>11

(* What does not fit goes back to the queue it came from. *)
LEMMA PutBackPlaces ==
    ASSUME TypeOK, PlaceInv, ListInv, NEW s \in Scheds, PutBack(s)
    PROVE  PlaceInv' /\ ListInv'
<1> DEFINE q == get[s].from
           taken == get[s].taken
           new == Reverse(taken) \o req_queue[q]
           from == <<"pulled", s>>
           to == <<"queue", q>>
<1>0. /\ get \in [Scheds -> GetState] /\ get[s] \in GetState /\ taken \in Seq(Reqs)
      /\ get[s].pc = "back" /\ q \in Scheds /\ req_queue \in [Scheds -> Seq(Reqs)]
      /\ req_queue[q] \in Seq(Reqs)
  <2>1. get[s].pc = "back"
    BY DEF PutBack
  <2>2. get \in [Scheds -> GetState] /\ get[s] \in GetState /\ get[s].taken \in Seq(Reqs)
    BY DEF TypeOK, GetState
  <2> QED BY <2>1, <2>2 DEF TypeOK
<1>1. /\ req_queue' = [req_queue EXCEPT ![q] = new]
      /\ get' = [get EXCEPT ![s] = [get[s] EXCEPT !.pc = "recount"]]
      /\ UNCHANGED <<put, engine, emitted, begun, hurt>>
  BY DEF PutBack, getFrame
<1>2. from \in Place /\ to \in Place /\ from # to
  BY <1>0, LayoutAt DEF Kinds
<1>3. Layout[from] = Range(taken) /\ Layout[to] = Range(req_queue[q]) /\ Range(taken) \cap Range(req_queue[q]) = {}
  <2>1. Layout[from] = Range(Pulled(s)) /\ Layout[to] = Range(req_queue[q])
    BY <1>0, LayoutAt
  <2>2. Pulled(s) = taken
    BY <1>0 DEF Pulled
  <2>3. Layout[from] \cap Layout[to] = {}
    BY <1>2 DEF PlaceInv, Apart
  <2> QED BY <2>1, <2>2, <2>3
<1>4. new \in Seq(Reqs) /\ Once(new) /\ Range(new) = Range(taken) \cup Range(req_queue[q])
  BY <1>0, <1>3, OncePutBack DEF ListInv
<1> HIDE DEF new
<1>5. /\ \A t \in Scheds : t # s => get'[t] = get[t]
      /\ \A t \in Scheds : t # q => req_queue'[t] = req_queue[t]
      /\ req_queue'[q] = new
      /\ get'[s].pc = "recount" /\ get'[s].taken = taken /\ get'[s].from = q
  BY <1>0, <1>1 DEF GetState
<1>6. Layout'[from] = {} /\ Layout'[to] = Range(new)
  <2>1. Layout'[from] = Range(Pulled(s)') /\ Layout'[to] = Range(req_queue'[q])
    BY <1>0, LayoutNext
  <2>2. Pulled(s)' = << >>
    BY <1>5 DEF Pulled
  <2> QED BY <1>5, <2>1, <2>2, OnceEmpty
<1>7. \A o \in Place \ {from, to} : Layout'[o] = Layout[o]
  <2>1. \A t \in Scheds : t # s => Pulled(t)' = Pulled(t)
    BY <1>5 DEF Pulled
  <2>2. \A t \in Scheds : <<"queue", t>> \notin {from, to} =>
            Layout'[<<"queue", t>>] = Layout[<<"queue", t>>]
    BY <1>5, SameKinds
  <2>3. \A t \in Scheds : <<"pulled", t>> \notin {from, to} =>
            Layout'[<<"pulled", t>>] = Layout[<<"pulled", t>>]
    BY <2>1, SameKinds
  <2>4. \A t \in Scheds : /\ Layout'[<<"put", t>>] = Layout[<<"put", t>>]
                          /\ Layout'[<<"engine", t>>] = Layout[<<"engine", t>>]
                          /\ Layout'[<<"answered", t>>] = Layout[<<"answered", t>>]
    BY <1>1, SameKinds
  <2> HIDE DEF from, to
  <2> QED BY <2>2, <2>3, <2>4, SameOutside
<1>8. Moves(Layout, Layout', from, Range(taken), to)
  BY <1>3, <1>4, <1>6, <1>7 DEF Moves
<1>9. PlaceInv'
  BY <1>1, <1>2, <1>8, MovedPlaces
<1>10. ListInv'
  <2> SUFFICES ASSUME NEW t \in Scheds PROVE
        /\ Once(req_queue'[t]) /\ Once(get'[t].taken)
        /\ get'[t].pc \in {"idle", "lookup", "steal", "exists", "block"} => get'[t].taken = << >>
        /\ \A r \in Range(req_queue'[t]) : Home[r] = t
        /\ \A r \in Range(get'[t].taken) : Home[r] = get'[t].from
    BY <1>1 DEF ListInv
  <2>1. Once(req_queue'[t]) /\ \A r \in Range(req_queue'[t]) : Home[r] = t
    BY <1>4, <1>5 DEF ListInv
  <2>2. CASE t # s
    <3>1. get'[t] = get[t]
      BY <1>5, <2>2
    <3> QED BY <2>1, <3>1 DEF ListInv
  <2>3. CASE t = s
    BY <1>5, <2>1, <2>3 DEF ListInv
  <2> QED BY <2>2, <2>3
<1> QED BY <1>9, <1>10

(* A response leaves every request where it is; the last one takes it from   *)
(* the engine to those that are answered.                                    *)
LEMMA OpenEngines ==
    ASSUME TypeOK, PlaceInv
    PROVE  EngineOpen
<1> SUFFICES ASSUME NEW s \in Scheds, NEW r \in engine[s] PROVE emitted[r] # Length[r]
  BY DEF EngineOpen
<1>1. r \in Reqs /\ emitted[r] <= Length[r] /\ emitted[r] \in Nat /\ Length[r] \in Nat /\ Home[r] \in Scheds
  BY LengthType DEF TypeOK
<1> DEFINE p == <<"engine", s>>
           q == <<"answered", Home[r]>>
<1>2. p \in Place /\ q \in Place /\ p # q
  BY <1>1, LayoutAt DEF Kinds
<1>3. r \in Layout[p]
  BY LayoutAt
<1>4. r \notin Layout[q]
  BY <1>2, <1>3 DEF PlaceInv, Apart
<1>5. emitted[r] # Length[r]
  BY <1>1, <1>4, LayoutAt
<1> QED BY <1>1, <1>5

LEMMA PutResultsPlaces ==
    ASSUME TypeOK, PlaceInv, ListInv, NEW s \in Scheds, NEW r \in Reqs, PutResults(s, r)
    PROVE  PlaceInv' /\ ListInv'
<1> DEFINE h == Home[r]
           from == <<"engine", s>>
           to == <<"answered", h>>
<1>0. /\ r \in engine[s] /\ emitted \in [Reqs -> Nat] /\ engine \in [Scheds -> SUBSET Reqs]
      /\ emitted' = [emitted EXCEPT ![r] = @ + 1] /\ h \in Scheds
      /\ engine' = [engine EXCEPT ![s] = IF emitted[r] + 1 = Length[r] THEN @ \ {r} ELSE @]
      /\ UNCHANGED <<req_queue, put, get, begun, hurt>>
  BY LengthType DEF TypeOK, PutResults, redis, faults
<1>1. emitted[r] # Length[r] /\ emitted[r] \in Nat /\ Length[r] \in Nat
  BY <1>0, OpenEngines, LengthType DEF EngineOpen
<1>2. \A x \in Reqs : emitted'[x] = IF x = r THEN emitted[r] + 1 ELSE emitted[x]
  BY <1>0
<1>3. ListInv'
  BY <1>0 DEF ListInv
<1>4. \A t \in Scheds : /\ Layout'[<<"put", t>>] = Layout[<<"put", t>>]
                        /\ Layout'[<<"queue", t>>] = Layout[<<"queue", t>>]
                        /\ Layout'[<<"pulled", t>>] = Layout[<<"pulled", t>>]
  <2>1. \A t \in Scheds : Pulled(t)' = Pulled(t)
    BY <1>0 DEF Pulled
  <2> QED BY <1>0, <2>1, SameKinds
<1>5. \A t \in Scheds : t # h => Layout'[<<"answered", t>>] = Layout[<<"answered", t>>]
  <2> SUFFICES ASSUME NEW t \in Scheds, t # h PROVE Layout'[<<"answered", t>>] = Layout[<<"answered", t>>]
    OBVIOUS
  <2>1. /\ Layout[<<"answered", t>>] = {x \in Reqs : Home[x] = t /\ emitted[x] = Length[x]}
        /\ Layout'[<<"answered", t>>] = {x \in Reqs : Home[x] = t /\ emitted'[x] = Length[x]}
    BY LayoutAt, LayoutNext
  <2>2. \A x \in Reqs : Home[x] = t => emitted'[x] = emitted[x]
    BY <1>2
  <2> QED BY <2>1, <2>2
<1>6. /\ Layout[to] = {x \in Reqs : Home[x] = h /\ emitted[x] = Length[x]}
      /\ Layout'[to] = {x \in Reqs : Home[x] = h /\ emitted'[x] = Length[x]}
  BY <1>0, LayoutAt, LayoutNext
<1>7. \A t \in Scheds : t # s => Layout'[<<"engine", t>>] = Layout[<<"engine", t>>]
  BY <1>0, SameKinds
<1>8. CASE emitted[r] + 1 = Length[r]
  <2>1. Layout[from] = engine[s] /\ Layout'[from] = engine[s] \ {r}
    BY <1>0, <1>8, LayoutAt, LayoutNext
  <2>2. Layout'[to] = Layout[to] \cup {r}
    <3>1. \A x \in Reqs : (Home[x] = h /\ emitted'[x] = Length[x])
                            <=> (Home[x] = h /\ emitted[x] = Length[x]) \/ x = r
      BY <1>1, <1>2, <1>8
    <3> QED BY <1>6, <3>1
  <2>3. from \in Place /\ to \in Place /\ from # to
    BY <1>0, LayoutAt DEF Kinds
  <2>4. \A o \in Place \ {from, to} : Layout'[o] = Layout[o]
    <3>1. \A t \in Scheds : <<"engine", t>> \notin {from, to} =>
              Layout'[<<"engine", t>>] = Layout[<<"engine", t>>]
      BY <1>7
    <3>2. \A t \in Scheds : <<"answered", t>> \notin {from, to} =>
              Layout'[<<"answered", t>>] = Layout[<<"answered", t>>]
      BY <1>5
    <3> HIDE DEF from, to
    <3> QED BY ONLY <1>4, <3>1, <3>2, SameOutside
  <2>5. Moves(Layout, Layout', from, {r}, to)
    BY <1>0, <2>1, <2>2, <2>4 DEF Moves
  <2> QED BY <1>0, <1>3, <2>3, <2>5, MovedPlaces
<1>9. CASE emitted[r] + 1 # Length[r]
  <2>1. Layout'[from] = Layout[from]
    <3>1. engine'[s] = engine[s]
      BY <1>0, <1>9
    <3> QED BY <3>1, SameKinds
  <2>2. Layout'[to] = Layout[to]
    <3>1. \A x \in Reqs : (Home[x] = h /\ emitted'[x] = Length[x])
                            <=> (Home[x] = h /\ emitted[x] = Length[x])
      BY <1>1, <1>2, <1>9
    <3> QED BY <1>6, <3>1
  <2>3. PICK z : z \notin Place
    BY NoSetContainsEverything
  <2>4. \A o \in Place \ {z, z} : Layout'[o] = Layout[o]
    <3>1. \A t \in Scheds : /\ Layout'[<<"engine", t>>] = Layout[<<"engine", t>>]
                            /\ Layout'[<<"answered", t>>] = Layout[<<"answered", t>>]
      BY <1>5, <1>7, <2>1, <2>2
    <3>2. \A t \in Scheds : <<"engine", t>> \notin {z, z} =>
              Layout'[<<"engine", t>>] = Layout[<<"engine", t>>]
      BY <3>1
    <3>3. \A t \in Scheds : <<"answered", t>> \notin {z, z} =>
              Layout'[<<"answered", t>>] = Layout[<<"answered", t>>]
      BY <3>1
    <3> QED BY ONLY <1>4, <3>2, <3>3, SameOutside
  <2> QED BY <1>0, <1>3, <2>3, <2>4, SamePlaces
<1> QED BY <1>8, <1>9

(* A fault empties places, and what was in them it has struck. *)
LEMMA FaultKeeps ==
    ASSUME PlaceInv, begun' = begun, hurt \subseteq hurt',
           \A o \in Place : Layout'[o] \subseteq Layout[o] /\ Layout[o] \subseteq Layout'[o] \cup hurt'
    PROVE  PlaceInv'
<1>1. Apart(Layout')
  BY DEF PlaceInv, Apart
<1>2. \A o \in Place : Layout'[o] \subseteq begun'
  BY DEF PlaceInv
<1>3. \A r \in begun' \ hurt' : Somewhere(r, Layout')
  BY DEF PlaceInv, Somewhere
<1> QED BY <1>1, <1>2, <1>3 DEF PlaceInv, Apart, Somewhere

LEMMA ResetPlaces ==
    ASSUME TypeOK, PlaceInv, ListInv, NEW s \in Scheds, Reset(s)
    PROVE  PlaceInv' /\ ListInv'
<1> DEFINE p == <<"queue", s>>
<1>0. /\ req_queue' = [req_queue EXCEPT ![s] = << >>] /\ req_queue \in [Scheds -> Seq(Reqs)]
      /\ hurt' = hurt \cup (begun \cap RequestsOf(s)) \cup InHand(s)
      /\ UNCHANGED <<put, get, engine, emitted, begun>>
  BY DEF TypeOK, Reset
<1>1. p \in Place
  BY LayoutAt DEF Kinds
<1>2. Layout'[p] = {} /\ Layout[p] = Range(req_queue[s])
  BY <1>0, OnceEmpty, LayoutAt, LayoutNext
<1>3. Layout[p] \subseteq begun \cap RequestsOf(s)
  <2>1. \A r \in Range(req_queue[s]) : r \in Reqs /\ Home[r] = s
    <3>1. req_queue[s] \in Seq(Reqs)
      BY <1>0
    <3>2. Range(req_queue[s]) \subseteq Reqs
      BY <3>1 DEF Range
    <3> QED BY <3>2 DEF ListInv
  <2>2. Layout[p] \subseteq begun
    BY <1>1 DEF PlaceInv
  <2> QED BY <1>2, <2>1, <2>2 DEF RequestsOf
<1>4. \A o \in Place \ {p, p} : Layout'[o] = Layout[o]
  <2>1. \A t \in Scheds : Pulled(t)' = Pulled(t)
    BY <1>0 DEF Pulled
  <2>2. \A t \in Scheds : <<"queue", t>> \notin {p, p} => Layout'[<<"queue", t>>] = Layout[<<"queue", t>>]
    BY <1>0, SameKinds
  <2>3. \A t \in Scheds : /\ Layout'[<<"put", t>>] = Layout[<<"put", t>>]
                          /\ Layout'[<<"pulled", t>>] = Layout[<<"pulled", t>>]
                          /\ Layout'[<<"engine", t>>] = Layout[<<"engine", t>>]
                          /\ Layout'[<<"answered", t>>] = Layout[<<"answered", t>>]
    BY <1>0, <2>1, SameKinds
  <2> HIDE DEF p
  <2> QED BY ONLY <2>2, <2>3, SameOutside, ZenonT(40)
<1>5. PlaceInv'
  BY <1>0, <1>2, <1>3, <1>4, FaultKeeps
<1>6. ListInv'
  <2>1. \A t \in Scheds : req_queue'[t] = IF t = s THEN << >> ELSE req_queue[t]
    BY <1>0
  <2> QED BY <1>0, <2>1, OnceEmpty DEF ListInv
<1> QED BY <1>5, <1>6

LEMMA CrashPlaces ==
    ASSUME TypeOK, PlaceInv, ListInv, NEW s \in Scheds, Crash(s)
    PROVE  PlaceInv' /\ ListInv'
<1>0. /\ put' = [put EXCEPT ![s] = IdlePut] /\ get' = [get EXCEPT ![s] = IdleGet]
      /\ engine' = [engine EXCEPT ![s] = {}] /\ put \in [Scheds -> PutState]
      /\ get \in [Scheds -> GetState] /\ engine \in [Scheds -> SUBSET Reqs]
      /\ hurt' = hurt \cup RequestsOf(s) \cup InHand(s)
      /\ UNCHANGED <<req_queue, emitted, begun>>
  BY DEF TypeOK, Crash, redis
<1>1. \A t \in Scheds : /\ put'[t] = IF t = s THEN IdlePut ELSE put[t]
                        /\ get'[t] = IF t = s THEN IdleGet ELSE get[t]
                        /\ engine'[t] = IF t = s THEN {} ELSE engine[t]
  BY <1>0
<1>2. \A t \in Scheds : /\ Layout'[<<"put", t>>] \subseteq Layout[<<"put", t>>]
                        /\ Layout[<<"put", t>>] \subseteq Layout'[<<"put", t>>] \cup hurt'
  <2> TAKE t \in Scheds
  <2>1. CASE t # s
    BY <1>1, <2>1, SameKinds
  <2>2. CASE t = s
    <3>1. /\ Layout[<<"put", s>>] = {r \in Reqs : put[s] = [pc |-> "push", req |-> r]}
          /\ Layout'[<<"put", s>>] = {r \in Reqs : put'[s] = [pc |-> "push", req |-> r]}
      BY LayoutAt, LayoutNext
    <3>2. \A r \in Reqs : IdlePut # [pc |-> "push", req |-> r]
      BY DEF IdlePut
    <3>3. Layout'[<<"put", s>>] = {}
      BY <1>1, <3>1, <3>2
    <3>4. \A r \in Reqs : put[s] = [pc |-> "push", req |-> r] => Home[r] = s
      <4> SUFFICES ASSUME NEW r \in Reqs, put[s] = [pc |-> "push", req |-> r] PROVE Home[r] = s
        OBVIOUS
      <4>1. put[s].pc = "push" /\ put[s].req = r
        OBVIOUS
      <4> QED BY <4>1 DEF ListInv
    <3> QED BY <1>0, <2>2, <3>1, <3>3, <3>4 DEF RequestsOf
  <2> QED BY <2>1, <2>2
<1>3. \A t \in Scheds : /\ Layout'[<<"pulled", t>>] \subseteq Layout[<<"pulled", t>>]
                        /\ Layout[<<"pulled", t>>] \subseteq Layout'[<<"pulled", t>>] \cup hurt'
  <2> TAKE t \in Scheds
  <2>1. CASE t # s
    <3>1. Pulled(t)' = Pulled(t)
      BY <1>1, <2>1 DEF Pulled
    <3> QED BY <3>1, SameKinds
  <2>2. CASE t = s
    <3>1. Layout[<<"pulled", s>>] = Range(Pulled(s)) /\ Layout'[<<"pulled", s>>] = Range(Pulled(s)')
      BY LayoutAt, LayoutNext
    <3>2. Pulled(s)' = << >>
      BY <1>1 DEF Pulled, IdleGet
    <3>3. Range(Pulled(s)) \subseteq InHand(s)
      BY OnceEmpty DEF Pulled, InHand
    <3> QED BY <1>0, <2>2, <3>1, <3>2, <3>3, OnceEmpty
  <2> QED BY <2>1, <2>2
<1>4. \A t \in Scheds : /\ Layout'[<<"engine", t>>] \subseteq Layout[<<"engine", t>>]
                        /\ Layout[<<"engine", t>>] \subseteq Layout'[<<"engine", t>>] \cup hurt'
  <2> TAKE t \in Scheds
  <2>1. Layout[<<"engine", t>>] = engine[t] /\ Layout'[<<"engine", t>>] = engine'[t]
    BY LayoutAt, LayoutNext
  <2>2. engine[s] \subseteq InHand(s)
    BY DEF InHand
  <2> QED BY <1>0, <1>1, <2>1, <2>2
<1>5. \A t \in Scheds : /\ Layout'[<<"queue", t>>] = Layout[<<"queue", t>>]
                        /\ Layout'[<<"answered", t>>] = Layout[<<"answered", t>>]
  BY <1>0, SameKinds
<1>6. \A o \in Place : Layout'[o] \subseteq Layout[o] /\ Layout[o] \subseteq Layout'[o] \cup hurt'
  <2> TAKE o \in Place
  <2>1. PICK k \in Kinds, t \in Scheds : o = <<k, t>>
    BY LayoutAt
  <2>2. k \in {"put", "queue", "pulled", "engine", "answered"}
    BY DEF Kinds
  <2> QED BY <1>2, <1>3, <1>4, <1>5, <2>1, <2>2
<1>7. PlaceInv'
  BY <1>0, <1>6, FaultKeeps
<1>8. ListInv'
  <2>1. IdlePut.pc = "idle" /\ IdleGet.taken = << >>
    BY DEF IdlePut, IdleGet
  <2> QED BY <1>0, <1>1, <2>1, OnceEmpty DEF ListInv
<1> QED BY <1>7, <1>8

-----------------------------------------------------------------------------
(* The inductive invariant, and what it says of a request. *)
IInv == TypeOK /\ PlaceInv /\ ListInv

LEMMA InitTypes == Init => TypeOK
<1> SUFFICES ASSUME Init PROVE TypeOK
  OBVIOUS
<1>0. << >> \in Seq(Response) /\ << >> \in Seq(Reqs) /\ << >> \in Seq(Nat)
  OBVIOUS
<1>1. Empty \in MemState /\ IdlePut \in PutState /\ IdleGet \in GetState /\ NoBatch \in OutState
  BY <1>0 DEF Empty, MemState, IdlePut, PutState, IdleGet, GetState, GetSteps, NoBatch, OutState
<1>2. IdlePut.pc = "idle" /\ IdleGet.pc = "idle" /\ IdleGet.names = {}
  BY DEF IdlePut, IdleGet
<1>3. /\ req_queue \in [Scheds -> Seq(Reqs)] /\ resp_queue \in [Scheds -> Seq(Response)]
      /\ load \in [Scheds -> Int] /\ instance \in SUBSET Scheds
      /\ engine \in [Scheds -> SUBSET Reqs] /\ delivered \in [Reqs -> Seq(Nat)]
      /\ begun \in SUBSET Reqs /\ hurt \in SUBSET Reqs
      /\ alive \in SUBSET Scheds /\ skewed \in SUBSET Scheds /\ was_reset \in SUBSET Scheds
  BY <1>0 DEF Init
<1>4. /\ mem \in [Scheds -> MemState] /\ put \in [Scheds -> PutState]
      /\ get \in [Scheds -> GetState] /\ out \in [Scheds -> OutState]
  BY <1>1 DEF Init
<1>5. emitted \in [Reqs -> Nat] /\ \A r \in Reqs : emitted[r] <= Length[r]
  BY LengthType DEF Init
<1>6. \A s \in Scheds : put[s] = IdlePut /\ get[s] = IdleGet
  BY DEF Init
<1> QED BY <1>2, <1>3, <1>4, <1>5, <1>6 DEF TypeOK

LEMMA InitPlaces == Init => PlaceInv /\ ListInv
<1> SUFFICES ASSUME Init PROVE PlaceInv /\ ListInv
  OBVIOUS
<1>1. \A s \in Scheds : /\ put[s] = IdlePut /\ get[s] = IdleGet /\ req_queue[s] = << >> /\ engine[s] = {}
  BY DEF Init
<1>2. \A p \in Place : Layout[p] = {}
  <2> SUFFICES ASSUME NEW p \in Place PROVE Layout[p] = {}
    OBVIOUS
  <2>1. PICK k \in Kinds, s \in Scheds : p = <<k, s>>
    BY LayoutAt
  <2>2. \A r \in Reqs : put[s] # [pc |-> "push", req |-> r]
    BY <1>1 DEF IdlePut
  <2>3. Pulled(s) = << >>
    BY <1>1 DEF Pulled, IdleGet
  <2>4. \A r \in Reqs : emitted[r] # Length[r]
    BY LengthType DEF Init
  <2>5. Layout[<<"put", s>>] = {}
    <3>1. Layout[<<"put", s>>] = {r \in Reqs : put[s] = [pc |-> "push", req |-> r]}
      BY LayoutAt
    <3> QED BY <2>2, <3>1
  <2>6. Layout[<<"queue", s>>] = {} /\ Layout[<<"pulled", s>>] = {} /\ Layout[<<"engine", s>>] = {}
    BY <1>1, <2>3, LayoutAt, OnceEmpty
  <2>7. Layout[<<"answered", s>>] = {}
    <3>1. Layout[<<"answered", s>>] = {r \in Reqs : Home[r] = s /\ emitted[r] = Length[r]}
      BY LayoutAt
    <3> QED BY <2>4, <3>1
  <2>8. k \in {"put", "queue", "pulled", "engine", "answered"}
    BY DEF Kinds
  <2> QED BY <2>1, <2>5, <2>6, <2>7, <2>8
<1>3. begun = {}
  BY DEF Init
<1>4. PlaceInv
  BY <1>2, <1>3 DEF PlaceInv, Apart
<1>5. IdlePut.pc = "idle" /\ IdleGet.taken = << >>
  BY DEF IdlePut, IdleGet
<1>6. ListInv
  BY <1>1, <1>5, OnceEmpty DEF ListInv
<1> QED BY <1>4, <1>6

LEMMA PlacesPreserved ==
    ASSUME TypeOK, PlaceInv, ListInv, [Next]_vars
    PROVE  PlaceInv' /\ ListInv'
<1>1. ASSUME NEW r \in Reqs, PutRequests(r) PROVE PlaceInv' /\ ListInv'
  BY <1>1, PutRequestsPlaces
<1>2. ASSUME NEW s \in Scheds, PutPush(s) \/ PutCount(s) PROVE PlaceInv' /\ ListInv'
  BY <1>2, PutPushPlaces, PutCountPlaces
<1>3. ASSUME NEW s \in Scheds,
             \/ GetLocal(s) \/ Lookup(s) \/ Steal(s) \/ RemoveDead(s) \/ BlockingPop(s) \/ Recount(s)
      PROVE  PlaceInv' /\ ListInv'
  BY <1>3, GetPlaces
<1>4. ASSUME NEW s \in Scheds, NEW k \in 0 .. Batch, CountAndFit(s, k) PROVE PlaceInv' /\ ListInv'
  BY <1>4, FitPlaces
<1>5. ASSUME NEW s \in Scheds, PutBack(s) PROVE PlaceInv' /\ ListInv'
  BY <1>5, PutBackPlaces
<1>6. ASSUME NEW s \in Scheds, NEW r \in Reqs, PutResults(s, r) PROVE PlaceInv' /\ ListInv'
  BY <1>6, PutResultsPlaces
<1>7. ASSUME NEW s \in Scheds,
             TakeBatch(s) \/ ApplyBatch(s) \/ (\E h \in Scheds : PushStolen(s, h))
               \/ GetResultsWorker(s) \/ GetResults(s) \/ Expire(s)
      PROVE  PlaceInv' /\ ListInv'
  <2>1. UNCHANGED <<req_queue, put, get, engine, emitted, begun, hurt>>
    BY <1>7 DEF TakeBatch, ApplyBatch, PushStolen, GetResultsWorker, GetResults, Expire, redis, faults
  <2> QED BY <2>1, QuietStep
<1>8. ASSUME NEW s \in Scheds, Reset(s) \/ Crash(s) PROVE PlaceInv' /\ ListInv'
  BY <1>8, ResetPlaces, CrashPlaces
<1>9. CASE UNCHANGED vars
  BY <1>9, QuietStep DEF vars, redis, faults
<1> QED BY <1>1, <1>2, <1>3, <1>4, <1>5, <1>6, <1>7, <1>8, <1>9 DEF Next

LEMMA Inductive == Spec => []IInv
<1>1. Init => IInv
  BY InitTypes, InitPlaces DEF IInv
<1>2. IInv /\ [Next]_vars => IInv'
  <2> SUFFICES ASSUME TypeOK, PlaceInv, ListInv, [Next]_vars PROVE IInv'
    BY DEF IInv
  <2>1. EngineOpen
    BY OpenEngines
  <2>2. TypeOK'
    BY <2>1, TypesPreserved
  <2>3. PlaceInv' /\ ListInv'
    BY PlacesPreserved
  <2> QED BY <2>2, <2>3 DEF IInv
<1> QED BY <1>1, <1>2, PTL DEF Spec

(* The Redis keys, the dictionaries and the threads keep their types, no     *)
(* request gets more responses than it has, and nobody steals from itself.   *)
THEOREM TypeCorrect == Spec => []TypeOK
<1>1. IInv => TypeOK
  BY DEF IInv
<1> QED BY <1>1, Inductive, PTL

(* A request that no reset or crash has struck is in exactly one place until *)
(* it is answered, and no queue and no pulled list names a request twice,    *)
(* for any number of schedulers that pull, steal and put back.               *)
THEOREM RequestsInOnePlace == Spec => []InOnePlace
<1>1. IInv => InOnePlace
  <2> SUFFICES ASSUME TypeOK, PlaceInv, ListInv PROVE InOnePlace
    BY DEF IInv
  <2>1. ASSUME NEW r \in begun \ hurt PROVE \E p \in Kinds \X Scheds : Holders(r) = {p}
    <3>1. PICK p \in Place : r \in Layout[p]
      BY DEF PlaceInv, Somewhere
    <3>2. \A q \in Place : q # p => r \notin Layout[q]
      BY <3>1 DEF PlaceInv, Apart
    <3>3. Holders(r) = {q \in Place : r \in Layout[q]}
      BY DEF Holders, Layout, Place
    <3> QED BY <3>1, <3>2, <3>3 DEF Place
  <2>2. ASSUME NEW s \in Scheds PROVE Once(req_queue[s]) /\ Once(Pulled(s))
    BY OnceEmpty DEF ListInv, Pulled
  <2> QED BY <2>1, <2>2 DEF InOnePlace
<1> QED BY <1>1, Inductive, PTL

-----------------------------------------------------------------------------
(* The load.  What a scheduler g[s] holds of the queue q, while it is at pc,  *)
(* and what all of them hold.                                                *)
Held(g, s, q, pc) == IF g[s].from = q /\ g[s].pc = pc THEN {s} \X DOMAIN g[s].taken ELSE {}
HeldBy(g, S, q, pc) == UNION {Held(g, s, q, pc) : s \in S}
Count(g, s, q, pc) == IF g[s].from = q /\ g[s].pc = pc THEN Len(g[s].taken) ELSE 0
Due(p, q) == IF p[q].pc = "count" THEN 1 ELSE 0

LEMMA HeldCount ==
    ASSUME NEW g \in [Scheds -> GetState], NEW s \in Scheds, NEW q, NEW pc
    PROVE  /\ IsFiniteSet(Held(g, s, q, pc)) /\ Cardinality(Held(g, s, q, pc)) = Count(g, s, q, pc)
           /\ Count(g, s, q, pc) \in Nat
<1>1. g[s].taken \in Seq(Reqs)
  BY DEF GetState
<1> DEFINE n == Len(g[s].taken)
<1>2. n \in Nat /\ DOMAIN g[s].taken = 1 .. n
  BY <1>1
<1> HIDE DEF n
<1>3. IsFiniteSet(1 .. n) /\ Cardinality(1 .. n) = n
  <2>1. 1 \in Int /\ n \in Int
    BY <1>2
  <2>2. IsFiniteSet(1 .. n) /\ Cardinality(1 .. n) = IF 1 > n THEN 0 ELSE n - 1 + 1
    BY <2>1, FS_Interval
  <2> QED BY <1>2, <2>2
<1>4. IsFiniteSet({s}) /\ Cardinality({s}) = 1
  BY FS_Singleton
<1>5. IsFiniteSet({s} \X (1 .. n)) /\ Cardinality({s} \X (1 .. n)) = Cardinality({s}) * Cardinality(1 .. n)
  BY <1>3, <1>4, FS_Product
<1>6. Cardinality({s} \X (1 .. n)) = n
  BY <1>2, <1>3, <1>4, <1>5
<1>7. CASE g[s].from = q /\ g[s].pc = pc
  BY <1>2, <1>5, <1>6, <1>7 DEF Held, Count, n
<1>8. CASE ~(g[s].from = q /\ g[s].pc = pc)
  BY <1>8, FS_EmptySet DEF Held, Count
<1> QED BY <1>7, <1>8

LEMMA WayHeld ==
    ASSUME NEW q, NEW pc
    PROVE  /\ OnTheWay(q, pc) = HeldBy(get, Scheds, q, pc)
           /\ OnTheWay(q, pc)' = HeldBy(get', Scheds, q, pc)
<1>1. ASSUME NEW x PROVE x \in OnTheWay(q, pc) <=> x \in HeldBy(get, Scheds, q, pc)
  BY DEF OnTheWay, HeldBy, Held
<1>2. ASSUME NEW x PROVE x \in OnTheWay(q, pc)' <=> x \in HeldBy(get', Scheds, q, pc)
  BY DEF OnTheWay, HeldBy, Held
<1> QED BY <1>1, <1>2

(* When one scheduler takes a step, the sum changes by what it holds. *)
LEMMA HeldStep ==
    ASSUME NEW g \in [Scheds -> GetState], NEW h \in [Scheds -> GetState], NEW s \in Scheds,
           \A t \in Scheds \ {s} : h[t] = g[t], NEW q, NEW pc,
           IsFiniteSet(HeldBy(g, Scheds, q, pc))
    PROVE  /\ IsFiniteSet(HeldBy(h, Scheds, q, pc))
           /\ Cardinality(HeldBy(h, Scheds, q, pc)) =
                Cardinality(HeldBy(g, Scheds, q, pc)) - Count(g, s, q, pc) + Count(h, s, q, pc)
<1> DEFINE A == HeldBy(g, Scheds \ {s}, q, pc)
           B == Held(g, s, q, pc)
           C == Held(h, s, q, pc)
           G == HeldBy(g, Scheds, q, pc)
           H == HeldBy(h, Scheds, q, pc)
<1>1. G = A \cup B
  BY DEF HeldBy
<1>2. H = A \cup C
  <2>1. \A t \in Scheds \ {s} : Held(h, t, q, pc) = Held(g, t, q, pc)
    BY DEF Held
  <2> QED BY <2>1 DEF HeldBy
<1>3. A \cap B = {} /\ A \cap C = {}
  <2>1. \A t \in Scheds : \A f, x : x \in Held(f, t, q, pc) => x[1] = t
    BY DEF Held
  <2>2. \A x \in A : x[1] # s
    BY <2>1 DEF HeldBy
  <2> QED BY <2>1, <2>2
<1>4. /\ IsFiniteSet(B) /\ Cardinality(B) = Count(g, s, q, pc)
      /\ IsFiniteSet(C) /\ Cardinality(C) = Count(h, s, q, pc)
      /\ Count(g, s, q, pc) \in Nat /\ Count(h, s, q, pc) \in Nat
  BY HeldCount
<1>5. IsFiniteSet(G)
  OBVIOUS
<1> HIDE DEF A, B, C, G, H
<1>6. IsFiniteSet(A) /\ Cardinality(A) \in Nat
  BY <1>1, <1>5, FS_Subset, FS_CardinalityType
<1>7. Cardinality({}) = 0
  BY FS_EmptySet
<1>8. Cardinality(G) = Cardinality(A) + Cardinality(B)
  <2>1. Cardinality(A \cup B) = Cardinality(A) + Cardinality(B) - Cardinality(A \cap B)
    BY <1>4, <1>6, FS_Union
  <2>2. Cardinality(A \cap B) = 0 /\ Cardinality(B) \in Nat
    BY <1>3, <1>4, <1>7
  <2> QED BY <1>1, <1>6, <2>1, <2>2
<1>9. IsFiniteSet(H) /\ Cardinality(H) = Cardinality(A) + Cardinality(C)
  <2>1. IsFiniteSet(A \cup C) /\ Cardinality(A \cup C) = Cardinality(A) + Cardinality(C) - Cardinality(A \cap C)
    BY <1>4, <1>6, FS_Union
  <2>2. Cardinality(A \cap C) = 0 /\ Cardinality(C) \in Nat
    BY <1>3, <1>4, <1>7
  <2> QED BY <1>2, <1>6, <2>1, <2>2
<1>10. Cardinality(H) = Cardinality(G) - Count(g, s, q, pc) + Count(h, s, q, pc)
  BY <1>4, <1>6, <1>8, <1>9
<1> QED BY <1>9, <1>10 DEF G, H

LoadInv ==
    /\ LoadIsQueueLength
    /\ \A q \in Scheds : IsFiniteSet(OnTheWay(q, "count")) /\ IsFiniteSet(OnTheWay(q, "recount"))

(* How the load must change in a step of the scheduler s. *)
Balanced(s, q) ==
    load'[q] = load[q] + (Len(req_queue'[q]) - Len(req_queue[q]))
                 + (Count(get', s, q, "count") - Count(get, s, q, "count"))
                 - (Count(get', s, q, "recount") - Count(get, s, q, "recount"))
                 - (Due(put', q) - Due(put, q))

LEMMA BalanceSum ==
    ASSUME NEW l \in Int, NEW m \in Int, NEW len \in Int, NEW lenn \in Int, NEW c \in Int, NEW r \in Int,
           NEW c0 \in Int, NEW c1 \in Int, NEW r0 \in Int, NEW r1 \in Int, NEW d \in Int, NEW e \in Int,
           l = len + c - r - d, m = l + (lenn - len) + (c1 - c0) - (r1 - r0) - (e - d)
    PROVE  m = lenn + (c - c0 + c1) - (r - r0 + r1) - e
  OBVIOUS

LEMMA LoadStep ==
    ASSUME TypeOK, TypeOK', LoadInv, NEW s \in Scheds, \A t \in Scheds \ {s} : get'[t] = get[t],
           skewed \subseteq skewed', \A q \in Scheds \ skewed' : Balanced(s, q)
    PROVE  LoadInv'
<1>0. get \in [Scheds -> GetState] /\ get' \in [Scheds -> GetState]
  BY DEF TypeOK
<1>1. ASSUME NEW q \in Scheds, NEW pc \in {"count", "recount"}
      PROVE  /\ IsFiniteSet(OnTheWay(q, pc)')
             /\ Cardinality(OnTheWay(q, pc)') =
                  Cardinality(OnTheWay(q, pc)) - Count(get, s, q, pc) + Count(get', s, q, pc)
             /\ Cardinality(OnTheWay(q, pc)) \in Nat
             /\ Count(get, s, q, pc) \in Nat /\ Count(get', s, q, pc) \in Nat
  <2>1. IsFiniteSet(OnTheWay(q, pc))
    BY DEF LoadInv
  <2>2. IsFiniteSet(HeldBy(get, Scheds, q, pc))
    BY <2>1, WayHeld
  <2>3. /\ IsFiniteSet(HeldBy(get', Scheds, q, pc))
        /\ Cardinality(HeldBy(get', Scheds, q, pc)) =
             Cardinality(HeldBy(get, Scheds, q, pc)) - Count(get, s, q, pc) + Count(get', s, q, pc)
    BY <1>0, <2>2, HeldStep
  <2>4. Cardinality(OnTheWay(q, pc)) \in Nat
    BY <2>1, FS_CardinalityType
  <2>5. Count(get, s, q, pc) \in Nat /\ Count(get', s, q, pc) \in Nat
    BY <1>0, HeldCount
  <2> QED BY <2>3, <2>4, <2>5, WayHeld
<1>2. ASSUME NEW q \in Scheds \ skewed'
      PROVE  load'[q] = Len(req_queue'[q]) + Cardinality(OnTheWay(q, "count")')
                          - Cardinality(OnTheWay(q, "recount")') - Due(put', q)
  <2>1. load[q] = Len(req_queue[q]) + Cardinality(OnTheWay(q, "count"))
                    - Cardinality(OnTheWay(q, "recount")) - Due(put, q)
    BY DEF LoadInv, LoadIsQueueLength, Due
  <2>2. Balanced(s, q)
    OBVIOUS
  <2>3. /\ Due(put, q) \in Int /\ Due(put', q) \in Int
    BY DEF Due
  <2>4. Len(req_queue[q]) \in Int /\ Len(req_queue'[q]) \in Int
    <3>1. req_queue[q] \in Seq(Reqs) /\ req_queue'[q] \in Seq(Reqs)
      BY DEF TypeOK
    <3> QED BY <3>1
  <2>5. load[q] \in Int /\ load'[q] \in Int
    BY DEF TypeOK
  <2>6. /\ Cardinality(OnTheWay(q, "count")') =
             Cardinality(OnTheWay(q, "count")) - Count(get, s, q, "count") + Count(get', s, q, "count")
        /\ Cardinality(OnTheWay(q, "count")) \in Nat
        /\ Count(get, s, q, "count") \in Nat /\ Count(get', s, q, "count") \in Nat
    BY <1>1
  <2>7. /\ Cardinality(OnTheWay(q, "recount")') =
             Cardinality(OnTheWay(q, "recount")) - Count(get, s, q, "recount") + Count(get', s, q, "recount")
        /\ Cardinality(OnTheWay(q, "recount")) \in Nat
        /\ Count(get, s, q, "recount") \in Nat /\ Count(get', s, q, "recount") \in Nat
    BY <1>1
  <2> DEFINE l == load[q]
             m == load'[q]
             len == Len(req_queue[q])
             lenn == Len(req_queue'[q])
             c == Cardinality(OnTheWay(q, "count"))
             r == Cardinality(OnTheWay(q, "recount"))
             c0 == Count(get, s, q, "count")
             c1 == Count(get', s, q, "count")
             r0 == Count(get, s, q, "recount")
             r1 == Count(get', s, q, "recount")
             d == Due(put, q)
             e == Due(put', q)
  <2>8. l = len + c - r - d /\ m = l + (lenn - len) + (c1 - c0) - (r1 - r0) - (e - d)
    BY <2>1, <2>2 DEF Balanced
  <2>9. /\ l \in Int /\ m \in Int /\ len \in Int /\ lenn \in Int /\ c \in Int /\ r \in Int
        /\ c0 \in Int /\ c1 \in Int /\ r0 \in Int /\ r1 \in Int /\ d \in Int /\ e \in Int
    BY <2>3, <2>4, <2>5, <2>6, <2>7
  <2>10. m = lenn + (c - c0 + c1) - (r - r0 + r1) - e
    <3> HIDE DEF l, m, len, lenn, c, r, c0, c1, r0, r1, d, e
    <3> QED BY ONLY <2>8, <2>9, BalanceSum
  <2> QED BY <2>6, <2>7, <2>10
<1> QED BY <1>1, <1>2 DEF LoadInv, LoadIsQueueLength, Due

(* put_requests: a push is ahead of its count. *)
LEMMA PutLoad ==
    ASSUME TypeOK, TypeOK', LoadInv, NEW s \in Scheds, PutPush(s) \/ PutCount(s)
    PROVE  LoadInv'
<1>0. /\ put \in [Scheds -> PutState] /\ put[s] \in PutState /\ load \in [Scheds -> Int]
      /\ req_queue \in [Scheds -> Seq(Reqs)] /\ req_queue[s] \in Seq(Reqs)
  BY DEF TypeOK
<1>1. get' = get /\ skewed' = skewed
  BY DEF PutPush, PutCount, faults
<1>2. ASSUME NEW q \in Scheds PROVE Balanced(s, q)
  <2>0. /\ Count(get', s, q, "count") = Count(get, s, q, "count") /\ Count(get, s, q, "count") \in Nat
        /\ Count(get', s, q, "recount") = Count(get, s, q, "recount") /\ Count(get, s, q, "recount") \in Nat
    BY <1>1, HeldCount DEF TypeOK
  <2>1. load[q] \in Int /\ Len(req_queue[q]) \in Nat
    BY <1>0
  <2>2. CASE PutPush(s)
    <3>1. /\ load'[q] = load[q] /\ Due(put, q) \in Int
          /\ Len(req_queue'[q]) = Len(req_queue[q]) + (IF q = s THEN 1 ELSE 0)
          /\ Due(put', q) = Due(put, q) + (IF q = s THEN 1 ELSE 0)
      <4>1. /\ put[s].pc = "push" /\ put[s].req \in Reqs /\ load' = load
            /\ req_queue' = [req_queue EXCEPT ![s] = Append(@, put[s].req)]
            /\ put' = [put EXCEPT ![s] = [put[s] EXCEPT !.pc = "count"]]
        BY <2>2 DEF PutPush, TypeOK
      <4>2. put'[q].pc = IF q = s THEN "count" ELSE put[q].pc
        BY <1>0, <4>1 DEF PutState
      <4>3. Len(Append(req_queue[s], put[s].req)) = Len(req_queue[s]) + 1
        BY <1>0
      <4>4. Len(req_queue'[q]) = Len(req_queue[q]) + (IF q = s THEN 1 ELSE 0)
        <5>1. CASE q = s
          BY <1>0, <4>1, <4>3, <5>1
        <5>2. CASE q # s
          BY <1>0, <2>1, <4>1, <5>2
        <5> QED BY <5>1, <5>2
      <4>5. Due(put, q) \in Int /\ Due(put', q) = Due(put, q) + (IF q = s THEN 1 ELSE 0)
        <5>1. CASE q = s
          BY <4>1, <4>2, <5>1 DEF Due
        <5>2. CASE q # s
          BY <4>2, <5>2 DEF Due
        <5> QED BY <5>1, <5>2
      <4> QED BY <4>1, <4>4, <4>5
    <3> QED BY <2>0, <2>1, <3>1 DEF Balanced
  <2>3. CASE PutCount(s)
    <3>1. /\ req_queue' = req_queue /\ Due(put', q) \in Int
          /\ load'[q] = load[q] + (IF q = s THEN 1 ELSE 0)
          /\ Due(put, q) = Due(put', q) + (IF q = s THEN 1 ELSE 0)
      <4>1. /\ put[s].pc = "count" /\ req_queue' = req_queue
            /\ load' = [load EXCEPT ![s] = @ + 1] /\ put' = [put EXCEPT ![s] = IdlePut]
        BY <2>3 DEF PutCount
      <4>2. put'[q].pc = IF q = s THEN "idle" ELSE put[q].pc
        BY <1>0, <4>1 DEF IdlePut
      <4> QED BY <1>0, <4>1, <4>2 DEF Due
    <3> QED BY <2>0, <2>1, <3>1 DEF Balanced
  <2> QED BY <2>2, <2>3
<1> QED BY <1>1, <1>2, LoadStep

(* get_requests: a pop is ahead of its count, a put back of its recount. *)
LEMMA GetBalance ==
    ASSUME TypeOK, TypeOK', NEW s \in Scheds, put' = put, NEW q \in Scheds,
           load'[q] = load[q] + (Len(req_queue'[q]) - Len(req_queue[q]))
                 + (Count(get', s, q, "count") - Count(get, s, q, "count"))
                 - (Count(get', s, q, "recount") - Count(get, s, q, "recount"))
    PROVE  Balanced(s, q)
<1>1. /\ Count(get, s, q, "count") \in Nat /\ Count(get, s, q, "recount") \in Nat
      /\ Count(get', s, q, "count") \in Nat /\ Count(get', s, q, "recount") \in Nat
  <2>1. get \in [Scheds -> GetState] /\ get' \in [Scheds -> GetState]
    BY DEF TypeOK
  <2> QED BY <2>1, HeldCount
<1>2. load[q] \in Int /\ load'[q] \in Int /\ Len(req_queue[q]) \in Nat /\ Len(req_queue'[q]) \in Nat
  <2>1. req_queue[q] \in Seq(Reqs) /\ req_queue'[q] \in Seq(Reqs)
    BY DEF TypeOK
  <2> QED BY <2>1 DEF TypeOK
<1>3. Due(put', q) = Due(put, q) /\ Due(put, q) \in Int
  BY DEF Due
<1> DEFINE A == Len(req_queue'[q]) - Len(req_queue[q])
           B == Count(get', s, q, "count") - Count(get, s, q, "count")
           C == Count(get', s, q, "recount") - Count(get, s, q, "recount")
           D == Due(put', q) - Due(put, q)
<1>4. A \in Int /\ B \in Int /\ C \in Int /\ D = 0 /\ load'[q] = load[q] + A + B - C
  BY <1>1, <1>2, <1>3
<1>5. Balanced(s, q) <=> load'[q] = load[q] + A + B - C - D
  BY DEF Balanced
<1> HIDE DEF A, B, C, D
<1>6. load'[q] = load[q] + A + B - C - D
  <2> DEFINE l == load[q]
             m == load'[q]
  <2>1. l \in Int /\ m \in Int /\ m = l + A + B - C
    BY <1>2, <1>4
  <2> HIDE DEF l, m
  <2>2. m = l + A + B - C - D
    BY ONLY <1>4, <2>1
  <2> QED BY <2>2 DEF l, m
<1> QED BY <1>5, <1>6

LEMMA PopLoad ==
    ASSUME TypeOK, TypeOK', LoadInv, NEW s \in Scheds, NEW p \in Scheds, NEW n \in Nat,
           NEW otherwise \in {"idle", "lookup", "exists"},
           get[s].pc \in {"idle", "steal", "block"}, Pop(s, p, n, otherwise)
    PROVE  LoadInv'
<1> DEFINE k == IF Len(req_queue[p]) < n THEN Len(req_queue[p]) ELSE n
           a == SubSeq(req_queue[p], 1, k)
           b == SubSeq(req_queue[p], k + 1, Len(req_queue[p]))
<1>0. /\ req_queue \in [Scheds -> Seq(Reqs)] /\ req_queue[p] \in Seq(Reqs)
      /\ get \in [Scheds -> GetState] /\ get[s] \in GetState /\ get' \in [Scheds -> GetState]
      /\ Len(req_queue[p]) \in Nat /\ k \in 0 .. Len(req_queue[p]) /\ k \in Nat
  BY DEF TypeOK
<1>1. /\ req_queue' = [req_queue EXCEPT ![p] = b]
      /\ get' = [get EXCEPT ![s] = IF k = 0 THEN [get[s] EXCEPT !.pc = otherwise]
                                   ELSE [get[s] EXCEPT !.pc = "count", !.from = p, !.taken = a]]
      /\ UNCHANGED <<put, load, skewed>>
  BY DEF Pop, getFrame
<1>2. Len(a) = k /\ Len(b) = Len(req_queue[p]) - k
  <2> HIDE DEF k
  <2> QED BY ONLY <1>0
<1> HIDE DEF k, a, b
<1>3. /\ k = 0 => get'[s].pc = otherwise
      /\ k # 0 => get'[s].pc = "count" /\ get'[s].from = p /\ get'[s].taken = a
  BY <1>0, <1>1 DEF GetState
<1>4. ASSUME NEW q \in Scheds PROVE Balanced(s, q)
  <2>1. /\ Count(get, s, q, "count") = 0 /\ Count(get, s, q, "recount") = 0
        /\ Count(get', s, q, "recount") = 0
    BY <1>3 DEF Count
  <2>2. Count(get', s, q, "count") = IF q = p THEN k ELSE 0
    BY <1>2, <1>3 DEF Count
  <2>3. load'[q] = load[q] /\ load[q] \in Int
    BY <1>1 DEF TypeOK
  <2>4. Len(req_queue'[q]) = Len(req_queue[q]) - (IF q = p THEN k ELSE 0) /\ Len(req_queue[q]) \in Nat
    <3>1. CASE q = p
      BY <1>0, <1>1, <1>2, <3>1
    <3>2. CASE q # p
      <4>1. req_queue'[q] = req_queue[q] /\ req_queue[q] \in Seq(Reqs)
        BY <1>0, <1>1, <3>2
      <4> QED BY <3>2, <4>1
    <3> QED BY <3>1, <3>2
  <2>5. load'[q] = load[q] + (Len(req_queue'[q]) - Len(req_queue[q]))
                 + (Count(get', s, q, "count") - Count(get, s, q, "count"))
                 - (Count(get', s, q, "recount") - Count(get, s, q, "recount"))
    BY <1>0, <2>1, <2>2, <2>3, <2>4
  <2> QED BY <1>1, <2>5, GetBalance
<1>5. \A t \in Scheds \ {s} : get'[t] = get[t]
  BY <1>0, <1>1
<1> QED BY <1>1, <1>4, <1>5, LoadStep

(* Steps that have nothing to count. *)
LEMMA IdleLoad ==
    ASSUME TypeOK, TypeOK', LoadInv, NEW s \in Scheds, \A t \in Scheds \ {s} : get'[t] = get[t],
           get[s].pc \notin {"count", "recount"}, get'[s].pc \notin {"count", "recount"},
           UNCHANGED <<req_queue, put>>, skewed \subseteq skewed',
           \A q \in Scheds \ skewed' : load'[q] = load[q]
    PROVE  LoadInv'
<1>1. ASSUME NEW q \in Scheds \ skewed' PROVE Balanced(s, q)
  <2>1. /\ Count(get, s, q, "count") = 0 /\ Count(get, s, q, "recount") = 0
        /\ Count(get', s, q, "count") = 0 /\ Count(get', s, q, "recount") = 0
    BY DEF Count
  <2>2. load[q] \in Int /\ load'[q] = load[q] /\ Len(req_queue'[q]) = Len(req_queue[q]) /\ Len(req_queue[q]) \in Nat
    <3>1. req_queue[q] \in Seq(Reqs)
      BY DEF TypeOK
    <3> QED BY <3>1 DEF TypeOK
  <2>3. load'[q] = load[q] + (Len(req_queue'[q]) - Len(req_queue[q]))
                 + (Count(get', s, q, "count") - Count(get, s, q, "count"))
                 - (Count(get', s, q, "recount") - Count(get, s, q, "recount"))
    BY <2>1, <2>2
  <2> QED BY <2>3, GetBalance
<1> QED BY <1>1, LoadStep

LEMMA GetLoad ==
    ASSUME TypeOK, TypeOK', LoadInv, NEW s \in Scheds,
           GetLocal(s) \/ Lookup(s) \/ Steal(s) \/ RemoveDead(s) \/ BlockingPop(s)
    PROVE  LoadInv'
<1>0. Batch \in Nat \ {0} /\ get[s] \in GetState /\ get \in [Scheds -> GetState] /\ load \in [Scheds -> Int]
  BY GlobalAssumption DEF TypeOK
<1>1. CASE GetLocal(s)
  BY <1>0, <1>1, PopLoad DEF GetLocal
<1>2. CASE Steal(s)
  <2>1. Pop(s, get[s].from, (Batch + 1) \div 2, "exists") /\ get[s].pc = "steal"
    BY <1>2 DEF Steal
  <2>2. (Batch + 1) \div 2 \in Nat /\ get[s].from \in Scheds
    BY <1>0, <2>1 DEF TypeOK
  <2> QED BY <2>1, <2>2, PopLoad
<1>3. CASE Lookup(s)
  <2>1. \A t \in Scheds \ {s} : get'[t] = get[t]
    BY <1>0, <1>3 DEF Lookup
  <2>2. get'[s].pc \in {"block", "steal"} /\ get[s].pc = "lookup"
    <3> DEFINE others == {q \in Scheds \ {s} : load[q] >= MinLoad}
    <3>1. CASE others = {}
      <4>1. get' = [get EXCEPT ![s] = [get[s] EXCEPT !.pc = "block"]] /\ get[s].pc = "lookup"
        BY <1>3, <3>1 DEF Lookup
      <4> QED BY <1>0, <4>1 DEF GetState
    <3>2. CASE others # {}
      <4>1. PICK q \in others :
              get' = [get EXCEPT ![s] = [get[s] EXCEPT !.pc = "steal", !.from = q, !.names = others]]
        BY <1>3, <3>2 DEF Lookup
      <4>2. get[s].pc = "lookup"
        BY <1>3 DEF Lookup
      <4> HIDE DEF others
      <4> QED BY <1>0, <4>1, <4>2 DEF GetState
    <3> QED BY <3>1, <3>2
  <2> QED BY <1>3, <2>1, <2>2, IdleLoad DEF Lookup, getFrame
<1>4. CASE RemoveDead(s)
  <2> DEFINE q == get[s].from
  <2>1. \A t \in Scheds \ {s} : get'[t] = get[t]
    BY <1>0, <1>4 DEF RemoveDead
  <2>2. get'[s].pc = "block" /\ get[s].pc = "exists"
    BY <1>0, <1>4 DEF RemoveDead, GetState
  <2>3. /\ load' = IF q \in instance THEN load ELSE [load EXCEPT ![q] = 0]
        /\ skewed' = IF q \in instance THEN skewed ELSE skewed \cup {q}
        /\ UNCHANGED <<req_queue, put>>
    BY <1>4 DEF RemoveDead, getFrame
  <2> HIDE DEF q
  <2>4. skewed \subseteq skewed' /\ \A x \in Scheds \ skewed' : load'[x] = load[x]
    BY <1>0, <2>3
  <2> QED BY <2>1, <2>2, <2>3, <2>4, IdleLoad
<1>5. CASE BlockingPop(s)
  <2>0. get[s].pc = "block" /\ get[s].names \subseteq Scheds
    BY <1>0, <1>5 DEF BlockingPop, GetState
  <2>1. \/ \E q \in get[s].names \cup {s} : Pop(s, q, 1, "idle")
        \/ get' = [get EXCEPT ![s] = IdleGet] /\ UNCHANGED <<req_queue, load, getFrame, skewed>>
    BY <1>5 DEF BlockingPop
  <2>2. CASE \E q \in get[s].names \cup {s} : Pop(s, q, 1, "idle")
    BY <2>0, <2>2, PopLoad
  <2>3. CASE get' = [get EXCEPT ![s] = IdleGet] /\ UNCHANGED <<req_queue, load, getFrame, skewed>>
    <3>1. get'[s].pc = "idle" /\ \A t \in Scheds \ {s} : get'[t] = get[t]
      BY <1>0, <2>3 DEF IdleGet
    <3> QED BY <2>0, <2>3, <3>1, IdleLoad DEF getFrame
  <2> QED BY <2>1, <2>2, <2>3
<1> QED BY <1>1, <1>2, <1>3, <1>4, <1>5

LEMMA FitLoad ==
    ASSUME TypeOK, TypeOK', LoadInv, NEW s \in Scheds, NEW k \in 0 .. Batch, CountAndFit(s, k)
    PROVE  LoadInv'
<1> DEFINE p == get[s].from
           n == Len(get[s].taken)
           rest == SubSeq(get[s].taken, k + 1, Len(get[s].taken))
<1>0. /\ get \in [Scheds -> GetState] /\ get[s] \in GetState /\ load \in [Scheds -> Int]
      /\ get[s].pc = "count" /\ p \in Scheds
  BY DEF TypeOK, CountAndFit
<1>1. n \in Nat
  BY <1>0 DEF GetState
<1>2. /\ load' = [load EXCEPT ![p] = @ - n]
      /\ get' = [get EXCEPT ![s] = IF rest = << >> THEN IdleGet
                                   ELSE [get[s] EXCEPT !.pc = "back", !.taken = rest]]
      /\ UNCHANGED <<req_queue, put, skewed>>
  BY DEF CountAndFit, faults
<1> HIDE DEF rest
<1>3. get'[s].pc \in {"idle", "back"} /\ \A t \in Scheds \ {s} : get'[t] = get[t]
  BY <1>0, <1>2 DEF IdleGet, GetState
<1>4. ASSUME NEW q \in Scheds PROVE Balanced(s, q)
  <2>1. /\ Count(get, s, q, "count") = (IF q = p THEN n ELSE 0) /\ Count(get, s, q, "recount") = 0
        /\ Count(get', s, q, "count") = 0 /\ Count(get', s, q, "recount") = 0
    BY <1>0, <1>3 DEF Count
  <2>2. load'[q] = load[q] - (IF q = p THEN n ELSE 0) /\ load[q] \in Int
    BY <1>0, <1>1, <1>2
  <2>3. Len(req_queue'[q]) = Len(req_queue[q]) /\ Len(req_queue[q]) \in Nat
    <3>1. req_queue[q] \in Seq(Reqs)
      BY DEF TypeOK
    <3> QED BY <1>2, <3>1
  <2> HIDE DEF n, p
  <2>4. load'[q] = load[q] + (Len(req_queue'[q]) - Len(req_queue[q]))
                 + (Count(get', s, q, "count") - Count(get, s, q, "count"))
                 - (Count(get', s, q, "recount") - Count(get, s, q, "recount"))
    BY <1>1, <2>1, <2>2, <2>3
  <2> QED BY <1>2, <2>4, GetBalance
<1> QED BY <1>2, <1>3, <1>4, LoadStep

LEMMA PutBackLoad ==
    ASSUME TypeOK, TypeOK', LoadInv, NEW s \in Scheds, PutBack(s)
    PROVE  LoadInv'
<1> DEFINE p == get[s].from
           taken == get[s].taken
           n == Len(taken)
<1>0. /\ get \in [Scheds -> GetState] /\ get[s] \in GetState /\ req_queue \in [Scheds -> Seq(Reqs)]
      /\ get[s].pc = "back" /\ p \in Scheds /\ req_queue[p] \in Seq(Reqs)
  BY DEF TypeOK, PutBack
<1>1. n \in Nat /\ taken \in Seq(Reqs)
  BY <1>0 DEF GetState
<1>2. /\ req_queue' = [req_queue EXCEPT ![p] = Reverse(taken) \o @]
      /\ get' = [get EXCEPT ![s] = [get[s] EXCEPT !.pc = "recount"]]
      /\ UNCHANGED <<load, put, skewed>>
  BY DEF PutBack, getFrame
<1>3. /\ get'[s].pc = "recount" /\ get'[s].from = p /\ get'[s].taken = taken
      /\ \A t \in Scheds \ {s} : get'[t] = get[t]
  BY <1>0, <1>2 DEF GetState
<1>4. Len(Reverse(taken) \o req_queue[p]) = Len(req_queue[p]) + n
  <2>1. Reverse(taken) \in Seq(Reqs) /\ Len(Reverse(taken)) = n
    <3> HIDE DEF taken
    <3>1. \A i \in 1 .. n : (n - i) + 1 \in 1 .. n
      BY <1>1
    <3>2. \A i \in 1 .. n : taken[(n - i) + 1] \in Reqs
      BY <1>1, <3>1, ElementOfSeq
    <3>3. Reverse(taken) = [i \in 1 .. n |-> taken[(n - i) + 1]]
      BY DEF Reverse
    <3>4. Reverse(taken) \in [1 .. n -> Reqs]
      BY <3>2, <3>3
    <3> QED BY <1>1, <3>3, <3>4
  <2>2. Len(Reverse(taken) \o req_queue[p]) = Len(Reverse(taken)) + Len(req_queue[p])
    BY <1>0, <2>1, ConcatProperties
  <2> DEFINE new == Reverse(taken) \o req_queue[p]
             m == Len(req_queue[p])
  <2>3. m \in Nat /\ Len(new) = n + m
    BY <1>0, <2>1, <2>2
  <2> HIDE DEF n, m, new
  <2>4. Len(new) = m + n
    BY <1>1, <2>3
  <2> QED BY <2>4 DEF n, m, new
<1>5. ASSUME NEW q \in Scheds PROVE Balanced(s, q)
  <2>1. /\ Count(get', s, q, "recount") = (IF q = p THEN n ELSE 0) /\ Count(get, s, q, "recount") = 0
        /\ Count(get', s, q, "count") = 0 /\ Count(get, s, q, "count") = 0
    BY <1>0, <1>3 DEF Count
  <2>2. load'[q] = load[q] /\ load[q] \in Int
    BY <1>2 DEF TypeOK
  <2>3. Len(req_queue'[q]) = Len(req_queue[q]) + (IF q = p THEN n ELSE 0) /\ Len(req_queue[q]) \in Nat
    <3>1. CASE q = p
      <4>1. req_queue'[q] = Reverse(taken) \o req_queue[p]
        BY <1>0, <1>2, <3>1
      <4>2. Len(req_queue[p]) \in Nat
        BY <1>0
      <4> HIDE DEF n
      <4> QED BY <1>4, <3>1, <4>1, <4>2
    <3>2. CASE q # p
      <4>1. req_queue'[q] = req_queue[q] /\ req_queue[q] \in Seq(Reqs)
        BY <1>0, <1>2, <3>2
      <4> QED BY <3>2, <4>1
    <3> QED BY <3>1, <3>2
  <2> HIDE DEF n, p
  <2>4. load'[q] = load[q] + (Len(req_queue'[q]) - Len(req_queue[q]))
                 + (Count(get', s, q, "count") - Count(get, s, q, "count"))
                 - (Count(get', s, q, "recount") - Count(get, s, q, "recount"))
    BY <1>1, <2>1, <2>2, <2>3
  <2> QED BY <1>2, <2>4, GetBalance
<1> QED BY <1>2, <1>3, <1>5, LoadStep

LEMMA RecountLoad ==
    ASSUME TypeOK, TypeOK', LoadInv, NEW s \in Scheds, Recount(s)
    PROVE  LoadInv'
<1> DEFINE p == get[s].from
           n == Len(get[s].taken)
<1>0. /\ get \in [Scheds -> GetState] /\ get[s] \in GetState /\ load \in [Scheds -> Int]
      /\ get[s].pc = "recount" /\ p \in Scheds
  BY DEF TypeOK, Recount
<1>1. n \in Nat
  BY <1>0 DEF GetState
<1>2. /\ load' = [load EXCEPT ![p] = @ + n] /\ get' = [get EXCEPT ![s] = IdleGet]
      /\ UNCHANGED <<req_queue, put, skewed>>
  BY DEF Recount, getFrame
<1>3. get'[s].pc = "idle" /\ \A t \in Scheds \ {s} : get'[t] = get[t]
  BY <1>0, <1>2 DEF IdleGet
<1>4. ASSUME NEW q \in Scheds PROVE Balanced(s, q)
  <2>1. /\ Count(get, s, q, "recount") = (IF q = p THEN n ELSE 0) /\ Count(get, s, q, "count") = 0
        /\ Count(get', s, q, "count") = 0 /\ Count(get', s, q, "recount") = 0
    BY <1>0, <1>3 DEF Count
  <2>2. load'[q] = load[q] + (IF q = p THEN n ELSE 0) /\ load[q] \in Int
    BY <1>0, <1>1, <1>2
  <2>3. Len(req_queue'[q]) = Len(req_queue[q]) /\ Len(req_queue[q]) \in Nat
    <3>1. req_queue[q] \in Seq(Reqs)
      BY DEF TypeOK
    <3> QED BY <1>2, <3>1
  <2> HIDE DEF n, p
  <2>4. load'[q] = load[q] + (Len(req_queue'[q]) - Len(req_queue[q]))
                 + (Count(get', s, q, "count") - Count(get, s, q, "count"))
                 - (Count(get', s, q, "recount") - Count(get, s, q, "recount"))
    BY <1>1, <2>1, <2>2, <2>3
  <2> QED BY <1>2, <2>4, GetBalance
<1> QED BY <1>2, <1>3, <1>4, LoadStep

(* A fault falsifies only loads of schedulers it marks. *)
LEMMA SameLoad ==
    ASSUME TypeOK, TypeOK', LoadInv, get' = get, skewed \subseteq skewed',
           \A q \in Scheds \ skewed' : load'[q] = load[q] /\ req_queue'[q] = req_queue[q]
                                         /\ Due(put', q) = Due(put, q)
    PROVE  LoadInv'
<1>1. \A q, pc : OnTheWay(q, pc)' = OnTheWay(q, pc)
  BY DEF OnTheWay
<1> QED BY <1>1 DEF LoadInv, LoadIsQueueLength, Due

LEMMA ResetLoad ==
    ASSUME TypeOK, TypeOK', LoadInv, NEW s \in Scheds, Reset(s)
    PROVE  LoadInv'
<1>1. /\ req_queue' = [req_queue EXCEPT ![s] = << >>] /\ load' = [load EXCEPT ![s] = 0]
      /\ skewed' = skewed \cup {s} /\ UNCHANGED <<put, get>>
      /\ req_queue \in [Scheds -> Seq(Reqs)] /\ load \in [Scheds -> Int]
  BY DEF Reset, TypeOK
<1>2. \A q \in Scheds \ skewed' : load'[q] = load[q] /\ req_queue'[q] = req_queue[q]
  BY <1>1
<1> QED BY <1>1, <1>2, SameLoad

LEMMA CrashLoad ==
    ASSUME TypeOK, TypeOK', LoadInv, NEW s \in Scheds, Crash(s)
    PROVE  LoadInv'
<1>1. /\ put' = [put EXCEPT ![s] = IdlePut] /\ get' = [get EXCEPT ![s] = IdleGet]
      /\ skewed' = skewed \cup (IF get[s].pc \in {"count", "recount"} THEN {get[s].from} ELSE {})
                          \cup (IF put[s].pc = "count" THEN {s} ELSE {})
      /\ UNCHANGED <<req_queue, load>>
      /\ put \in [Scheds -> PutState] /\ get \in [Scheds -> GetState]
  BY DEF Crash, TypeOK, redis
<1>2. get'[s].pc = "idle" /\ put'[s].pc = "idle" /\ \A t \in Scheds \ {s} : get'[t] = get[t] /\ put'[t] = put[t]
  BY <1>1 DEF IdleGet, IdlePut
<1>3. ASSUME NEW q \in Scheds \ skewed' PROVE Balanced(s, q)
  <2>1. /\ Count(get, s, q, "count") = 0 /\ Count(get, s, q, "recount") = 0
        /\ Count(get', s, q, "count") = 0 /\ Count(get', s, q, "recount") = 0
    BY <1>1, <1>2 DEF Count
  <2>2. load'[q] = load[q] /\ load[q] \in Int /\ Len(req_queue'[q]) = Len(req_queue[q]) /\ Len(req_queue[q]) \in Nat
    <3>1. req_queue[q] \in Seq(Reqs)
      BY DEF TypeOK
    <3> QED BY <1>1, <3>1 DEF TypeOK
  <2>3. Due(put', q) = Due(put, q) /\ Due(put, q) \in Int
    <3>1. CASE q = s
      BY <1>1, <1>2, <3>1 DEF Due
    <3>2. CASE q # s
      BY <1>2, <3>2 DEF Due
    <3> QED BY <3>1, <3>2
  <2> QED BY <2>1, <2>2, <2>3 DEF Balanced
<1>4. skewed \subseteq skewed'
  BY <1>1
<1> QED BY <1>2, <1>3, <1>4, LoadStep

LEMMA LoadPreserved ==
    ASSUME TypeOK, TypeOK', LoadInv, [Next]_vars
    PROVE  LoadInv'
<1>1. ASSUME NEW r \in Reqs, PutRequests(r) PROVE LoadInv'
  <2>1. /\ put \in [Scheds -> PutState] /\ put[Home[r]].pc = "idle"
        /\ put' = [put EXCEPT ![Home[r]] = [pc |-> "push", req |-> r]]
        /\ UNCHANGED <<get, load, req_queue, skewed>>
    BY <1>1 DEF PutRequests, TypeOK, redis, faults
  <2>2. \A q \in Scheds : Due(put', q) = Due(put, q)
    BY <2>1 DEF Due
  <2> QED BY <2>1, <2>2, SameLoad
<1>2. ASSUME NEW s \in Scheds, PutPush(s) \/ PutCount(s) PROVE LoadInv'
  BY <1>2, PutLoad
<1>3. ASSUME NEW s \in Scheds, GetLocal(s) \/ Lookup(s) \/ Steal(s) \/ RemoveDead(s) \/ BlockingPop(s)
      PROVE  LoadInv'
  BY <1>3, GetLoad
<1>4. ASSUME NEW s \in Scheds, NEW k \in 0 .. Batch, CountAndFit(s, k) PROVE LoadInv'
  BY <1>4, FitLoad
<1>5. ASSUME NEW s \in Scheds, PutBack(s) \/ Recount(s) PROVE LoadInv'
  BY <1>5, PutBackLoad, RecountLoad
<1>6. ASSUME NEW s \in Scheds,
             (\E r \in Reqs : PutResults(s, r)) \/ TakeBatch(s) \/ ApplyBatch(s)
               \/ (\E h \in Scheds : PushStolen(s, h))
               \/ GetResultsWorker(s) \/ GetResults(s) \/ Expire(s)
      PROVE  LoadInv'
  <2>1. UNCHANGED <<req_queue, put, get, load, skewed>>
    BY <1>6 DEF PutResults, TakeBatch, ApplyBatch, PushStolen, GetResultsWorker, GetResults, Expire,
                redis, faults
  <2> QED BY <2>1, SameLoad
<1>7. ASSUME NEW s \in Scheds, Reset(s) \/ Crash(s) PROVE LoadInv'
  BY <1>7, ResetLoad, CrashLoad
<1>8. CASE UNCHANGED vars
  BY <1>8, SameLoad DEF vars, redis, faults
<1> QED BY <1>1, <1>2, <1>3, <1>4, <1>5, <1>6, <1>7, <1>8 DEF Next

(* The load of a scheduler that no fault has falsified is the length of its  *)
(* queue up to the counts that are on their way: it never drifts, whoever    *)
(* pushes, pops, steals and puts back.                                       *)
THEOREM LoadNeverDrifts == Spec => []LoadIsQueueLength
<1>1. Init => LoadInv
  <2> SUFFICES ASSUME Init PROVE LoadInv
    OBVIOUS
  <2>1. \A s \in Scheds : get[s].pc = "idle" /\ put[s].pc = "idle" /\ req_queue[s] = << >> /\ load[s] = 0
    BY DEF Init, IdleGet, IdlePut
  <2>2. \A q \in Scheds : OnTheWay(q, "count") = {} /\ OnTheWay(q, "recount") = {}
    BY <2>1 DEF OnTheWay
  <2>3. Cardinality({}) = 0 /\ IsFiniteSet({}) /\ Len(<< >>) = 0
    BY FS_EmptySet
  <2>4. ASSUME NEW q \in Scheds
        PROVE  load[q] = Len(req_queue[q]) + Cardinality(OnTheWay(q, "count"))
                 - Cardinality(OnTheWay(q, "recount")) - (IF put[q].pc = "count" THEN 1 ELSE 0)
    <3>1. /\ Cardinality(OnTheWay(q, "count")) = 0 /\ Cardinality(OnTheWay(q, "recount")) = 0
          /\ Len(req_queue[q]) = 0 /\ load[q] = 0 /\ put[q].pc # "count"
      BY <2>1, <2>2, <2>3
    <3> QED BY <3>1
  <2> QED BY <2>2, <2>3, <2>4 DEF LoadInv, LoadIsQueueLength
<1>2. IInv /\ IInv' /\ LoadInv /\ [Next]_vars => LoadInv'
  BY LoadPreserved DEF IInv
<1>3. LoadInv => LoadIsQueueLength
  BY DEF LoadInv
<1> QED BY <1>1, <1>2, <1>3, Inductive, PTL DEF Spec

-----------------------------------------------------------------------------
(* The responses of one request in a list, by their numbers. *)
Nums(seq, r) == Numbers(Of(seq, {r}))

LEMMA ResponseOf ==
    /\ \A R : \A x \in Response : x \in [req : R, n : Nat] <=> x.req \in R
    /\ \A x \in Response : x.n \in Nat /\ x.req \in Reqs /\ x = [req |-> x.req, n |-> x.n]
<1>1. \A x \in Response : x \in [req : Reqs, n : Nat]
  <2> SUFFICES ASSUME NEW r \in Reqs, NEW x \in [req : {r}, n : 1 .. Length[r]]
               PROVE  x \in [req : Reqs, n : Nat]
    BY DEF Response
  <2>1. Length[r] \in Nat
    BY LengthType
  <2> QED BY <2>1
<1> QED BY <1>1

LEMMA NumbersFacts ==
    ASSUME NEW a \in Seq(Response)
    PROVE  /\ Numbers(a) \in Seq(Nat) /\ Len(Numbers(a)) = Len(a)
           /\ \A i \in 1 .. Len(a) : Numbers(a)[i] = a[i].n
<1>1. Numbers(a) \in Seq(Nat) /\ Len(Numbers(a)) = Len(a)
  BY NumbersType
<1>2. DOMAIN a = 1 .. Len(a)
  BY LenProperties
<1> QED BY <1>1, <1>2 DEF Numbers

LEMMA NumbersConcat ==
    ASSUME NEW a \in Seq(Response), NEW b \in Seq(Response)
    PROVE  Numbers(a \o b) = Numbers(a) \o Numbers(b)
<1> DEFINE m == Len(a)
           n == Len(b)
           c == a \o b
           d == Numbers(a) \o Numbers(b)
<1>1. m \in Nat /\ n \in Nat
  BY LenProperties
<1>2. /\ c \in Seq(Response) /\ Len(c) = m + n
      /\ \A i \in 1 .. m + n : c[i] = IF i <= m THEN a[i] ELSE b[i - m]
  BY ConcatProperties
<1>3. /\ Numbers(a) \in Seq(Nat) /\ Len(Numbers(a)) = m /\ \A i \in 1 .. m : Numbers(a)[i] = a[i].n
      /\ Numbers(b) \in Seq(Nat) /\ Len(Numbers(b)) = n /\ \A i \in 1 .. n : Numbers(b)[i] = b[i].n
  BY NumbersFacts
<1>4. /\ d \in Seq(Nat) /\ Len(d) = m + n
      /\ \A i \in 1 .. m + n : d[i] = IF i <= m THEN Numbers(a)[i] ELSE Numbers(b)[i - m]
  <2>1. /\ d \in Seq(Nat) /\ Len(d) = Len(Numbers(a)) + Len(Numbers(b))
        /\ \A i \in 1 .. Len(Numbers(a)) + Len(Numbers(b)) :
              d[i] = IF i <= Len(Numbers(a)) THEN Numbers(a)[i] ELSE Numbers(b)[i - Len(Numbers(a))]
    <3> DEFINE x == Numbers(a)
               y == Numbers(b)
    <3>1. x \in Seq(Nat) /\ y \in Seq(Nat)
      BY <1>3
    <3> HIDE DEF x, y
    <3>2. /\ x \o y \in Seq(Nat) /\ Len(x \o y) = Len(x) + Len(y)
          /\ \A i \in 1 .. Len(x) + Len(y) : (x \o y)[i] = IF i <= Len(x) THEN x[i] ELSE y[i - Len(x)]
      BY ONLY <3>1, ConcatProperties
    <3> QED BY <3>2 DEF x, y
  <2> QED BY <1>3, <2>1
<1> HIDE DEF m, n, c, d
<1>5. /\ Numbers(c) \in Seq(Nat) /\ Len(Numbers(c)) = m + n /\ \A i \in 1 .. m + n : Numbers(c)[i] = c[i].n
  BY <1>2, NumbersFacts
<1>6. ASSUME NEW i \in 1 .. m + n PROVE Numbers(c)[i] = d[i]
  <2>1. CASE i <= m
    <3>1. i \in 1 .. m
      BY <1>1, <2>1
    <3> QED BY <1>2, <1>3, <1>4, <1>5, <2>1, <3>1, ZenonT(40)
  <2>2. CASE ~(i <= m)
    <3>1. i - m \in 1 .. n
      BY <1>1, <2>2
    <3>2. Numbers(c)[i] = b[i - m].n /\ d[i] = Numbers(b)[i - m]
      BY <1>2, <1>4, <1>5, <2>2
    <3> QED BY <1>3, <3>1, <3>2
  <2> QED BY <2>1, <2>2
<1>7. Numbers(c) = d
  BY <1>4, <1>5, <1>6, SeqEqual
<1> QED BY <1>7 DEF c, d

LEMMA NumsType ==
    ASSUME NEW a \in Seq(Response), NEW r
    PROVE  Nums(a, r) \in Seq(Nat) /\ Of(a, {r}) \in Seq(Response) /\ Len(Nums(a, r)) = Len(Of(a, {r}))
<1>1. Of(a, {r}) \in Seq(Response)
  BY OfType
<1> QED BY <1>1, NumbersType DEF Nums

LEMMA NumsEmpty ==
    ASSUME NEW r
    PROVE  Nums(<< >>, r) = << >>
<1>1. Of(<< >>, {r}) = << >>
  BY KeptEmpty DEF Of
<1>2. << >> \in Seq(Response) /\ Len(<< >>) = 0
  BY EmptySeq
<1>3. Numbers(<< >>) \in Seq(Nat) /\ Len(Numbers(<< >>)) = 0
  BY <1>2, NumbersType
<1> QED BY <1>1, <1>3, EmptySeq DEF Nums

LEMMA NumsConcat ==
    ASSUME NEW a \in Seq(Response), NEW b \in Seq(Response), NEW r
    PROVE  Nums(a \o b, r) = Nums(a, r) \o Nums(b, r)
<1>1. Of(a \o b, {r}) = Of(a, {r}) \o Of(b, {r})
  BY KeptConcat DEF Of
<1>2. Of(a, {r}) \in Seq(Response) /\ Of(b, {r}) \in Seq(Response)
  BY OfType
<1> QED BY <1>1, <1>2, NumbersConcat DEF Nums

LEMMA NumsAppend ==
    ASSUME NEW a \in Seq(Response), NEW e \in Response, NEW r
    PROVE  Nums(Append(a, e), r) = IF e.req = r THEN Append(Nums(a, r), e.n) ELSE Nums(a, r)
<1> DEFINE S == [req : {r}, n : Nat]
<1>1. Kept(Append(a, e), S) = IF e \in S THEN Append(Kept(a, S), e) ELSE Kept(a, S)
  BY KeptAppend
<1>2. e \in S <=> e.req = r
  BY ResponseOf
<1> DEFINE k == Kept(a, S)
<1>3. k \in Seq(Response) /\ Nums(a, r) = Numbers(k) /\ Nums(Append(a, e), r) = Numbers(Kept(Append(a, e), S))
  BY OfType DEF Of, Nums
<1> HIDE DEF k, S
<1>4. Numbers(Append(k, e)) = Append(Numbers(k), e.n)
  <2>0. e.n \in Nat
    BY ResponseOf
  <2>1. Append(k, e) \in Seq(Response) /\ Len(Append(k, e)) = Len(k) + 1 /\ Len(k) \in Nat
        /\ Append(k, e)[Len(k) + 1] = e /\ \A i \in 1 .. Len(k) : Append(k, e)[i] = k[i]
    BY <1>3, AppendProperties, LenProperties
  <2>2. Numbers(k) \in Seq(Nat) /\ Len(Numbers(k)) = Len(k) /\ \A i \in 1 .. Len(k) : Numbers(k)[i] = k[i].n
    BY <1>3, NumbersFacts
  <2>3. /\ Numbers(Append(k, e)) \in Seq(Nat) /\ Len(Numbers(Append(k, e))) = Len(k) + 1
        /\ \A i \in 1 .. Len(k) + 1 : Numbers(Append(k, e))[i] = Append(k, e)[i].n
    BY <2>1, NumbersFacts
  <2>4. /\ Append(Numbers(k), e.n) \in Seq(Nat) /\ Len(Append(Numbers(k), e.n)) = Len(k) + 1
        /\ Append(Numbers(k), e.n)[Len(k) + 1] = e.n
        /\ \A i \in 1 .. Len(k) : Append(Numbers(k), e.n)[i] = k[i].n
    BY <2>0, <2>2, AppendProperties
  <2>5. ASSUME NEW i \in 1 .. Len(k) + 1 PROVE Numbers(Append(k, e))[i] = Append(Numbers(k), e.n)[i]
    <3>1. CASE i = Len(k) + 1
      BY <2>1, <2>3, <2>4, <3>1
    <3>2. CASE i # Len(k) + 1
      <4>1. i \in 1 .. Len(k)
        BY <2>1, <3>2
      <4> QED BY <2>1, <2>3, <2>4, <4>1
    <3> QED BY <3>1, <3>2
  <2> QED BY <2>3, <2>4, <2>5, SeqEqual
<1>5. CASE e.req = r
  BY <1>1, <1>2, <1>3, <1>4, <1>5 DEF k
<1>6. CASE e.req # r
  BY <1>1, <1>2, <1>3, <1>6 DEF k
<1> QED BY <1>5, <1>6

LEMMA NumsOf ==
    ASSUME NEW a \in Seq(Response), NEW R, NEW r
    PROVE  Nums(Of(a, R), r) = IF r \in R THEN Nums(a, r) ELSE << >>
<1> DEFINE A == [req : R, n : Nat]
           B == [req : {r}, n : Nat]
<1>1. Kept(Kept(a, A), B) = Kept(a, A \cap B)
  <2> HIDE DEF A, B
  <2> QED BY KeptKept
<1>2. CASE r \in R
  <2>1. A \cap B = B
    BY <1>2
  <2> QED BY <1>1, <1>2, <2>1 DEF Nums, Of
<1>3. CASE r \notin R
  <2>1. A \cap B = {}
    BY <1>3
  <2>2. Kept(a, {}) = << >>
    <3>1. Kept(a, {}) \in Seq(Response)
      BY KeptFacts
    <3>2. \A i \in DOMAIN Kept(a, {}) : FALSE
      <4>1. a \in Seq(Response)
        OBVIOUS
      <4>2. \A x : ~(\E i \in DOMAIN Kept(a, {}) : Kept(a, {})[i] = x)
        <5> DEFINE E == {}
        <5>1. E = {}
          OBVIOUS
        <5> HIDE DEF E
        <5>2. \A x : (\E i \in DOMAIN Kept(a, E) : Kept(a, E)[i] = x)
                      <=> (x \in E /\ \E i \in DOMAIN a : a[i] = x)
          BY ONLY <4>1, KeptRange
        <5> QED BY <5>1, <5>2
      <4> QED BY <4>2
    <3>3. Len(Kept(a, {})) \in Nat /\ DOMAIN Kept(a, {}) = 1 .. Len(Kept(a, {}))
      BY <3>1, LenProperties
    <3>4. Len(Kept(a, {})) = 0
      <4> DEFINE l == Len(Kept(a, {}))
      <4>1. l \in Nat /\ \A i \in 1 .. l : FALSE
        BY <3>2, <3>3
      <4> HIDE DEF l
      <4>2. l = 0
        BY <4>1
      <4> QED BY <4>2 DEF l
    <3> QED BY <3>1, <3>4, EmptySeq
  <2>3. Kept(Kept(a, A), B) = << >>
    BY <1>1, <2>1, <2>2
  <2>4. Numbers(<< >>) = << >>
    BY NumsEmpty, KeptEmpty DEF Nums, Of
  <2> QED BY <1>3, <2>3, <2>4 DEF Nums, Of
<1> QED BY <1>2, <1>3

LEMMA NumsSome ==
    ASSUME NEW a \in Seq(Response), NEW r
    PROVE  /\ Nums(a, r) # << >> <=> \E i \in DOMAIN a : a[i].req = r
           /\ \A n : n \in Range(Nums(a, r)) <=> \E i \in DOMAIN a : a[i] = [req |-> r, n |-> n]
<1> DEFINE S == [req : {r}, n : Nat]
           k == Kept(a, S)
<1>1. k \in Seq(Response) /\ DOMAIN k = 1 .. Len(k) /\ DOMAIN a = 1 .. Len(a) /\ Len(k) \in Nat
  BY KeptFacts, LenProperties
<1>2. \A x : (\E i \in DOMAIN k : k[i] = x) <=> (x \in S /\ \E i \in DOMAIN a : a[i] = x)
  <2> HIDE DEF S
  <2>1. a \in Seq(Response)
    OBVIOUS
  <2> QED BY ONLY <2>1, KeptRange
<1>3. \A i \in DOMAIN a : a[i] \in Response
  BY <1>1, ElementOfSeq
<1>4. \A x \in Response : (x \in S <=> x.req = r) /\ x = [req |-> x.req, n |-> x.n]
  BY ResponseOf
<1>5. Nums(a, r) = Numbers(k)
  BY DEF Nums, Of
<1> HIDE DEF k, S
<1>6. Numbers(k) \in Seq(Nat) /\ Len(Numbers(k)) = Len(k) /\ \A i \in 1 .. Len(k) : Numbers(k)[i] = k[i].n
  BY <1>1, NumbersFacts
<1>7. Numbers(k) # << >> <=> \E i \in DOMAIN k : TRUE
  <2>1. Numbers(k) # << >> <=> Len(k) # 0
    BY <1>6, EmptySeq
  <2>2. Len(k) # 0 <=> \E i \in 1 .. Len(k) : TRUE
    <3> DEFINE l == Len(k)
    <3>1. l \in Nat
      BY <1>1
    <3> HIDE DEF l
    <3>2. l # 0 => 1 \in 1 .. l
      BY <3>1
    <3>3. l = 0 => 1 .. l = {}
      BY <3>1
    <3>4. l # 0 <=> \E i \in 1 .. l : TRUE
      BY <3>2, <3>3
    <3> QED BY <3>4 DEF l
  <2> QED BY <1>1, <2>1, <2>2
<1>8. Nums(a, r) # << >> <=> \E i \in DOMAIN a : a[i].req = r
  <2>1. (\E i \in DOMAIN k : TRUE) <=> \E i \in DOMAIN a : a[i] \in S
    BY <1>2
  <2> QED BY <1>3, <1>4, <1>5, <1>7, <2>1
<1>9. ASSUME NEW n PROVE n \in Range(Nums(a, r)) <=> \E i \in DOMAIN a : a[i] = [req |-> r, n |-> n]
  <2>1. n \in Range(Numbers(k)) <=> \E i \in DOMAIN k : k[i].n = n
    <3>1. DOMAIN Numbers(k) = 1 .. Len(k)
      BY <1>6, LenProperties
    <3> QED BY <1>1, <1>6, <3>1 DEF Range
  <2>2. ASSUME NEW i \in DOMAIN k, k[i].n = n PROVE \E j \in DOMAIN a : a[j] = [req |-> r, n |-> n]
    <3>1. k[i] \in S /\ \E j \in DOMAIN a : a[j] = k[i]
      BY <1>2
    <3>2. k[i] \in Response
      BY <1>1, ElementOfSeq
    <3>3. k[i] = [req |-> r, n |-> n]
      BY <1>4, <2>2, <3>1, <3>2
    <3> QED BY <3>1, <3>3
  <2>3. ASSUME NEW j \in DOMAIN a, a[j] = [req |-> r, n |-> n] PROVE \E i \in DOMAIN k : k[i].n = n
    <3>1. a[j].req = r /\ a[j] \in Response /\ a[j].n = n
      BY <1>3, <2>3
    <3>2. a[j] \in S
      BY <1>4, <3>1
    <3>3. PICK i \in DOMAIN k : k[i] = a[j]
      BY <1>2, <3>2
    <3> QED BY <3>1, <3>3
  <2> QED BY <1>5, <2>1, <2>2, <2>3
<1> QED BY <1>8, <1>9

(* Consecutive numbers. *)
Seg(m, n) == [i \in 1 .. n - m |-> m + i]

LEMMA SegFacts ==
    ASSUME NEW m \in Nat, NEW n \in Nat, m <= n
    PROVE  /\ Seg(m, n) \in Seq(Nat) /\ Len(Seg(m, n)) = n - m
           /\ \A i \in 1 .. n - m : Seg(m, n)[i] = m + i
<1>1. n - m \in Nat /\ Seg(m, n) \in [1 .. n - m -> Nat]
  BY DEF Seg
<1>2. Seg(m, n) \in Seq(Nat) /\ DOMAIN Seg(m, n) = 1 .. n - m
  BY <1>1
<1>3. Len(Seg(m, n)) = n - m
  <2>1. Len(Seg(m, n)) \in Nat /\ DOMAIN Seg(m, n) = 1 .. Len(Seg(m, n))
    BY <1>2, LenProperties
  <2> QED BY <1>1, <1>2, <2>1
<1> QED BY <1>2, <1>3 DEF Seg

LEMMA SegEmpty ==
    ASSUME NEW m \in Nat, NEW n \in Nat, m <= n
    PROVE  Seg(m, n) = << >> <=> m = n
<1>1. Seg(m, n) \in Seq(Nat) /\ Len(Seg(m, n)) = n - m
  BY SegFacts
<1>2. Seg(m, n) = << >> <=> Len(Seg(m, n)) = 0
  BY <1>1, EmptySeq
<1> QED BY <1>1, <1>2

LEMMA SegAppend ==
    ASSUME NEW m \in Nat, NEW n \in Nat, m <= n
    PROVE  Append(Seg(m, n), n + 1) = Seg(m, n + 1)
<1> DEFINE a == Seg(m, n)
           b == Seg(m, n + 1)
           l == n - m
<1>0. l \in Nat /\ (n + 1) - m = l + 1 /\ m + (l + 1) = n + 1 /\ n + 1 \in Nat /\ m <= n + 1
  OBVIOUS
<1>1. /\ a \in Seq(Nat) /\ Len(a) = l /\ \A i \in 1 .. l : a[i] = m + i
  BY SegFacts
<1>2. /\ b \in Seq(Nat) /\ Len(b) = l + 1 /\ \A i \in 1 .. l + 1 : b[i] = m + i
  <2>1. b \in Seq(Nat) /\ Len(b) = (n + 1) - m /\ \A i \in 1 .. (n + 1) - m : b[i] = m + i
    BY <1>0, SegFacts
  <2> QED BY <1>0, <2>1
<1> HIDE DEF a, b, l
<1>3. /\ Append(a, n + 1) \in Seq(Nat) /\ Len(Append(a, n + 1)) = l + 1
      /\ \A i \in 1 .. l : Append(a, n + 1)[i] = a[i]
      /\ Append(a, n + 1)[l + 1] = n + 1
  BY <1>0, <1>1, AppendProperties
<1>4. ASSUME NEW i \in 1 .. l + 1 PROVE Append(a, n + 1)[i] = b[i]
  <2>1. CASE i = l + 1
    BY <1>0, <1>2, <1>3, <2>1
  <2>2. CASE i # l + 1
    <3>1. i \in 1 .. l
      BY <1>0, <2>2
    <3> QED BY <1>1, <1>2, <1>3, <3>1
  <2> QED BY <2>1, <2>2
<1>5. Append(a, n + 1) = b
  BY <1>2, <1>3, <1>4, SeqEqual
<1> QED BY <1>5 DEF a, b

(* Two lists whose concatenation is a segment. *)
SplitAt(a, b, m, n) == \E k \in m .. n : a = Seg(m, k) /\ b = Seg(k, n)

LEMMA SegSplit ==
    ASSUME NEW m \in Nat, NEW n \in Nat, m <= n, NEW a \in Seq(Nat), NEW b \in Seq(Nat), a \o b = Seg(m, n)
    PROVE  SplitAt(a, b, m, n)
<1> DEFINE k == Len(a)
           l == Len(b)
<1>1. k \in Nat /\ l \in Nat
  BY LenProperties
<1>2. /\ Len(a \o b) = k + l
      /\ \A i \in 1 .. k + l : (a \o b)[i] = IF i <= k THEN a[i] ELSE b[i - k]
  BY ConcatProperties
<1>3. Len(Seg(m, n)) = n - m /\ \A i \in 1 .. n - m : Seg(m, n)[i] = m + i
  BY SegFacts
<1> HIDE DEF k, l
<1>4. k + l = n - m /\ m + k \in m .. n /\ m + k \in Nat /\ m <= m + k /\ m + k <= n
  BY <1>1, <1>2, <1>3
<1>5. \A i \in 1 .. k : a[i] = m + i
  <2> TAKE i \in 1 .. k
  <2>1. i \in 1 .. k + l /\ i \in 1 .. n - m /\ i <= k
    BY <1>1, <1>4
  <2> QED BY <1>2, <1>3, <2>1
<1>6. \A i \in 1 .. l : b[i] = (m + k) + i
  <2> TAKE i \in 1 .. l
  <2>1. k + i \in 1 .. k + l /\ k + i \in 1 .. n - m /\ ~(k + i <= k) /\ (k + i) - k = i
    BY <1>1, <1>4
  <2>2. b[i] = m + (k + i)
    BY <1>2, <1>3, <2>1
  <2> QED BY <1>1, <2>2
<1>7. a = Seg(m, m + k)
  <2>1. (m + k) - m = k
    BY <1>1
  <2>2. Seg(m, m + k) \in Seq(Nat) /\ Len(Seg(m, m + k)) = k /\ \A i \in 1 .. k : Seg(m, m + k)[i] = m + i
    BY <1>4, <2>1, SegFacts
  <2>3. \A i \in 1 .. k : a[i] = Seg(m, m + k)[i]
    BY <1>5, <2>2
  <2> QED BY <2>2, <2>3, SeqEqual DEF k
<1>8. b = Seg(m + k, n)
  <2>1. n - (m + k) = l
    BY <1>1, <1>4
  <2>2. /\ Seg(m + k, n) \in Seq(Nat) /\ Len(Seg(m + k, n)) = l
        /\ \A i \in 1 .. l : Seg(m + k, n)[i] = (m + k) + i
    BY <1>4, <2>1, SegFacts
  <2>3. \A i \in 1 .. l : b[i] = Seg(m + k, n)[i]
    BY <1>6, <2>2
  <2> QED BY <2>2, <2>3, SeqEqual DEF l
<1> QED BY <1>4, <1>7, <1>8 DEF SplitAt

(* The last number is in the first part only when the second is empty. *)
LEMMA SegTop ==
    ASSUME NEW m \in Nat, NEW n \in Nat, m <= n, NEW a \in Seq(Nat), NEW b \in Seq(Nat), a \o b = Seg(m, n),
           NEW t \in Nat, n <= t, t \in Range(a)
    PROVE  b = << >> /\ t = n
<1>0. m \in Nat /\ n \in Nat /\ m <= n /\ a \in Seq(Nat) /\ b \in Seq(Nat) /\ a \o b = Seg(m, n)
  OBVIOUS
<1>s. SplitAt(a, b, m, n)
  BY ONLY <1>0, SegSplit
<1>1. PICK k \in m .. n : a = Seg(m, k) /\ b = Seg(k, n)
  BY <1>s DEF SplitAt
<1>2. k \in Nat /\ m <= k /\ k <= n /\ a = Seg(m, k) /\ b = Seg(k, n)
  BY <1>1
<1>3. /\ Len(Seg(m, k)) = k - m /\ \A i \in 1 .. k - m : Seg(m, k)[i] = m + i
      /\ DOMAIN Seg(m, k) = 1 .. k - m
  BY <1>2, SegFacts, LenProperties
<1>4. PICK i \in 1 .. k - m : t = m + i
  BY <1>2, <1>3 DEF Range
<1>5. k = n /\ t = n
  BY <1>2, <1>4
<1> QED BY <1>2, <1>5, SegEmpty

(* Lists of numbers put together. *)
(* Concatenation of lists of numbers. *)
LEMMA JoinFacts ==
    ASSUME NEW a \in Seq(Nat), NEW b \in Seq(Nat)
    PROVE  /\ a \o b \in Seq(Nat)
           /\ a \o << >> = a /\ << >> \o a = a
           /\ a \o b = << >> <=> a = << >> /\ b = << >>
           /\ Range(a \o b) = Range(a) \cup Range(b)
<1>1. /\ Len(a) \in Nat /\ Len(b) \in Nat /\ DOMAIN a = 1 .. Len(a) /\ DOMAIN b = 1 .. Len(b)
  BY LenProperties
<1>2. /\ a \o b \in Seq(Nat) /\ Len(a \o b) = Len(a) + Len(b)
      /\ \A i \in 1 .. Len(a) + Len(b) : (a \o b)[i] = IF i <= Len(a) THEN a[i] ELSE b[i - Len(a)]
  BY ConcatProperties
<1>3. a \o << >> = a /\ << >> \o a = a
  BY ConcatEmptySeq
<1>4. a \o b = << >> <=> a = << >> /\ b = << >>
  <2>1. /\ a = << >> <=> Len(a) = 0
        /\ b = << >> <=> Len(b) = 0
        /\ a \o b = << >> <=> Len(a \o b) = 0
    BY <1>2, EmptySeq
  <2>2. Len(a) + Len(b) = 0 <=> Len(a) = 0 /\ Len(b) = 0
    BY <1>1
  <2> QED BY <1>2, <2>1, <2>2
<1>5. Range(a \o b) = Range(a) \cup Range(b)
  <2> DEFINE c == a \o b
             k == Len(a)
             l == Len(b)
  <2>1. DOMAIN c = 1 .. k + l
    BY <1>2, LenProperties
  <2>2. /\ k \in Nat /\ l \in Nat /\ DOMAIN a = 1 .. k /\ DOMAIN b = 1 .. l
        /\ \A i \in 1 .. k + l : c[i] = IF i <= k THEN a[i] ELSE b[i - k]
    BY <1>1, <1>2
  <2> HIDE DEF c, k, l
  <2>3. ASSUME NEW i \in DOMAIN c PROVE c[i] \in Range(a) \cup Range(b)
    <3>1. CASE i <= k
      <4>1. i \in 1 .. k
        BY <2>1, <2>2, <3>1
      <4> QED BY <2>1, <2>2, <3>1, <4>1 DEF Range
    <3>2. CASE ~(i <= k)
      <4>1. i - k \in 1 .. l
        BY <2>1, <2>2, <3>2
      <4> QED BY <2>1, <2>2, <3>2, <4>1 DEF Range
    <3> QED BY <3>1, <3>2
  <2>4. ASSUME NEW i \in DOMAIN a PROVE a[i] \in Range(c)
    <3>1. i \in 1 .. k + l /\ i <= k
      BY <2>2
    <3> QED BY <2>1, <2>2, <3>1 DEF Range
  <2>5. ASSUME NEW i \in DOMAIN b PROVE b[i] \in Range(c)
    <3>1. k + i \in 1 .. k + l /\ ~(k + i <= k) /\ (k + i) - k = i
      BY <2>2
    <3>2. c[k + i] = b[i]
      BY <2>2, <3>1
    <3> QED BY <2>1, <3>1, <3>2 DEF Range
  <2>6. /\ Range(c) = {c[i] : i \in DOMAIN c} /\ Range(a) = {a[i] : i \in DOMAIN a}
        /\ Range(b) = {b[i] : i \in DOMAIN b}
    BY DEF Range
  <2>7. Range(c) \subseteq Range(a) \cup Range(b) /\ Range(a) \subseteq Range(c) /\ Range(b) \subseteq Range(c)
    BY <2>3, <2>4, <2>5, <2>6
  <2>8. Range(c) = Range(a) \cup Range(b)
    BY <2>7
  <2> QED BY <2>8 DEF c
<1> QED BY <1>2, <1>3, <1>4, <1>5

LEMMA JoinAssoc == \A a, b, c \in Seq(Nat) : (a \o b) \o c = a \o (b \o c)
  BY ConcatAssociative, SMTT(20)

-----------------------------------------------------------------------------
(* One request, seen from outside: its responses that each scheduler still   *)
(* has to push (p), has in its batch (b) or in its task list (q), in         *)
(* local_responses (box), in Redis (y) and at the client (d); how many have  *)
(* been produced (n); the schedulers that execute it (e), track it (t),      *)
(* have it in stolen_requests (mst) and in the snapshots of the two (loc,    *)
(* sto).                                                                     *)
Typed(v, len) ==
    /\ v.p \in [Scheds -> Seq(Nat)] /\ v.b \in [Scheds -> Seq(Nat)] /\ v.q \in [Scheds -> Seq(Nat)]
    /\ v.box \in [Scheds -> Seq(Nat)] /\ v.y \in Seq(Nat) /\ v.d \in Seq(Nat)
    /\ v.n \in Nat /\ v.n <= len
    /\ v.e \subseteq Scheds /\ v.t \subseteq Scheds /\ v.mst \subseteq Scheds
    /\ v.loc \subseteq Scheds /\ v.sto \subseteq Scheds
Row(v, s) == v.p[s] \o (v.b[s] \o v.q[s])
Sent(v, h) == (v.d \o v.box[h]) \o v.y

(* For any request: what a scheduler has of it are its latest responses, one *)
(* scheduler has them all, and they are where they belong.                   *)
Rows(v, len) ==
    /\ \A s \in Scheds : \E m \in 0 .. v.n : Row(v, s) = Seg(m, v.n)
    /\ \A s \in Scheds : Row(v, s) # << >> => s \in v.e \/ v.n = len
    /\ \A s, t \in Scheds : Row(v, s) # << >> /\ (Row(v, t) # << >> \/ t \in v.e) => s = t
Sides(v, h) ==
    /\ v.t \subseteq {h} /\ v.loc \subseteq {h} /\ h \notin v.mst /\ h \notin v.sto
    /\ v.p[h] = << >> /\ \A s \in Scheds \ {h} : v.box[s] = << >>
Started(v, h) == v.n = 0 => v.box[h] = << >> /\ v.y = << >> /\ v.d = << >>
Foreign(v, h) == v.y # << >> => h \notin v.e /\ Row(v, h) = << >>
LastOut(v, h, len) ==
    len \in Range(v.box[h]) \cup Range(v.y) => v.n = len /\ \A s \in Scheds : Row(v, s) = << >>
Good(v, h, len) == Rows(v, len) /\ Sides(v, h) /\ Started(v, h) /\ Foreign(v, h) /\ LastOut(v, h, len)

(* For a request that no fault has struck: nobody forgets it before its last *)
(* response, and its responses make up the stream.                           *)
Known(v, h) ==
    /\ \A s \in Scheds : v.b[s] # << >> => s \in v.loc \cup v.sto
    /\ \A s \in Scheds \ {h} : s \in v.e \/ v.q[s] # << >> => s \in v.mst
Awaited(v, h, len) == h \in v.t \/ len \in Range(v.d)
Streamed(v, h) ==
    \E s \in Scheds : /\ \A t \in Scheds \ {s} : Row(v, t) = << >>
                      /\ Sent(v, h) \o Row(v, s) = Seg(0, v.n)
Whole(v, h, len) == Known(v, h) /\ Awaited(v, h, len) /\ Streamed(v, h)

(* A step of scheduler s leaves the others alone. *)
Elsewhere(v, w, s) ==
    \A t \in Scheds \ {s} :
        /\ w.p[t] = v.p[t] /\ w.b[t] = v.b[t] /\ w.q[t] = v.q[t] /\ w.box[t] = v.box[t]
        /\ t \in w.e <=> t \in v.e
        /\ t \in w.t <=> t \in v.t
        /\ t \in w.mst <=> t \in v.mst
        /\ t \in w.loc <=> t \in v.loc
        /\ t \in w.sto <=> t \in v.sto

(* The rows of a request, their parts and what is left of them. *)
LEMMA RowFacts ==
    ASSUME NEW len, NEW v, Typed(v, len), NEW s \in Scheds
    PROVE  /\ v.p[s] \in Seq(Nat) /\ v.b[s] \in Seq(Nat) /\ v.q[s] \in Seq(Nat) /\ v.box[s] \in Seq(Nat)
           /\ v.b[s] \o v.q[s] \in Seq(Nat) /\ Row(v, s) \in Seq(Nat)
           /\ Row(v, s) = << >> <=> v.p[s] = << >> /\ v.b[s] = << >> /\ v.q[s] = << >>
           /\ v.p[s] = << >> /\ v.b[s] = << >> => Row(v, s) = v.q[s]
           /\ v.p[s] = << >> /\ v.q[s] = << >> => Row(v, s) = v.b[s]
<1>1. v.p[s] \in Seq(Nat) /\ v.b[s] \in Seq(Nat) /\ v.q[s] \in Seq(Nat) /\ v.box[s] \in Seq(Nat)
  BY DEF Typed
<1> DEFINE p == v.p[s]
           b == v.b[s]
           q == v.q[s]
<1>2. p \in Seq(Nat) /\ b \in Seq(Nat) /\ q \in Seq(Nat) /\ Row(v, s) = p \o (b \o q)
  BY <1>1 DEF Row
<1> HIDE DEF p, b, q
<1>3. /\ b \o q \in Seq(Nat) /\ b \o << >> = b /\ << >> \o q = q /\ (b \o q = << >> <=> b = << >> /\ q = << >>)
  BY <1>2, JoinFacts
<1>4. /\ p \o (b \o q) \in Seq(Nat) /\ << >> \o (b \o q) = b \o q
      /\ (p \o (b \o q) = << >> <=> p = << >> /\ b \o q = << >>)
  BY <1>2, <1>3, JoinFacts
<1>5. /\ b \o q \in Seq(Nat) /\ Row(v, s) \in Seq(Nat)
      /\ Row(v, s) = << >> <=> p = << >> /\ b = << >> /\ q = << >>
      /\ p = << >> /\ b = << >> => Row(v, s) = q
      /\ p = << >> /\ q = << >> => Row(v, s) = b
  BY <1>2, <1>3, <1>4
<1> QED BY <1>1, <1>5 DEF p, b, q

IsJoin(c, a, b) == c = a \o b

LEMMA RowWithout ==
    ASSUME NEW len, NEW v, Typed(v, len), NEW s \in Scheds
    PROVE  /\ v.p[s] = << >> => IsJoin(Row(v, s), v.b[s], v.q[s])
           /\ v.b[s] = << >> => IsJoin(Row(v, s), v.p[s], v.q[s])
<1>1. v.p[s] \in Seq(Nat) /\ v.b[s] \in Seq(Nat) /\ v.q[s] \in Seq(Nat)
  BY DEF Typed
<1> DEFINE p == v.p[s]
           b == v.b[s]
           q == v.q[s]
<1>2. p \in Seq(Nat) /\ b \in Seq(Nat) /\ q \in Seq(Nat) /\ Row(v, s) = p \o (b \o q)
  BY <1>1 DEF Row
<1> HIDE DEF p, b, q
<1>3. b \o q \in Seq(Nat) /\ << >> \o q = q
  BY <1>2, JoinFacts
<1>4. << >> \o (b \o q) = b \o q
  BY <1>2, <1>3, JoinFacts
<1>5. /\ p = << >> => IsJoin(Row(v, s), b, q)
      /\ b = << >> => IsJoin(Row(v, s), p, q)
  BY <1>2, <1>3, <1>4 DEF IsJoin
<1> QED BY <1>5 DEF p, b, q

(* What is left of a row when its front goes. *)
Suffix(c, a) == \E f \in Seq(Nat) : a = f \o c

LEMMA SuffixSame ==
    ASSUME NEW a \in Seq(Nat)
    PROVE  Suffix(a, a) /\ Suffix(<< >>, a)
<1>1. << >> \in Seq(Nat) /\ a = << >> \o a /\ a = a \o << >>
  BY JoinFacts, EmptySeq
<1> QED BY <1>1 DEF Suffix

LEMMA RowsShrink ==
    ASSUME NEW len \in Nat, NEW v, NEW w, Typed(v, len), Typed(w, len), Rows(v, len), w.n = v.n, w.e \subseteq v.e,
           \A s \in Scheds : /\ Suffix(Row(w, s), Row(v, s))
                             /\ Row(w, s) # << >> /\ s \in v.e => s \in w.e
    PROVE  Rows(w, len)
<1>1. ASSUME NEW s \in Scheds PROVE Row(w, s) # << >> => Row(v, s) # << >>
  <2>1. PICK f \in Seq(Nat) : Row(v, s) = f \o Row(w, s)
    BY DEF Suffix
  <2>2. Row(w, s) \in Seq(Nat)
    BY RowFacts
  <2> QED BY <2>1, <2>2, JoinFacts
<1>2. ASSUME NEW s \in Scheds PROVE \E m \in 0 .. w.n : Row(w, s) = Seg(m, w.n)
  <2>1. PICK f \in Seq(Nat) : Row(v, s) = f \o Row(w, s)
    BY DEF Suffix
  <2>2. PICK m \in 0 .. v.n : Row(v, s) = Seg(m, v.n)
    BY DEF Rows
  <2>r. Row(w, s) \in Seq(Nat) /\ v.n \in Nat
    BY RowFacts DEF Typed
  <2>3. Row(w, s) \in Seq(Nat) /\ v.n \in Nat /\ m \in Nat /\ m <= v.n
    BY <2>2, <2>r
  <2>4. SplitAt(f, Row(w, s), m, v.n)
    <3> DEFINE c == Row(w, s)
               n == v.n
    <3>1. c \in Seq(Nat) /\ n \in Nat /\ m \in Nat /\ m <= n /\ f \o c = Seg(m, n) /\ f \in Seq(Nat)
      BY <2>1, <2>2, <2>3
    <3> HIDE DEF c, n
    <3>2. SplitAt(f, c, m, n)
      BY ONLY <3>1, SegSplit
    <3> QED BY <3>2 DEF c, n
  <2>5. PICK k \in m .. v.n : Row(w, s) = Seg(k, v.n)
    BY <2>4 DEF SplitAt
  <2>6. k \in 0 .. w.n
    BY <2>3, <2>5
  <2> QED BY <2>5, <2>6
<1>3. \A s \in Scheds : Row(w, s) # << >> => s \in w.e \/ w.n = len
  BY <1>1 DEF Rows
<1>4. \A s, t \in Scheds : Row(w, s) # << >> /\ (Row(w, t) # << >> \/ t \in w.e) => s = t
  BY <1>1 DEF Rows
<1> QED BY <1>2, <1>3, <1>4 DEF Rows

LEMMA OtherRows ==
    ASSUME NEW len \in Nat, NEW v, NEW w, NEW s \in Scheds, Elsewhere(v, w, s), Typed(v, len)
    PROVE  \A t \in Scheds \ {s} : /\ Row(w, t) = Row(v, t) /\ Suffix(Row(w, t), Row(v, t))
                                   /\ t \in w.e <=> t \in v.e
<1>1. \A t \in Scheds \ {s} : Row(w, t) = Row(v, t) /\ (t \in w.e <=> t \in v.e)
  BY DEF Elsewhere, Row
<1>2. \A t \in Scheds \ {s} : Row(v, t) \in Seq(Nat)
  BY RowFacts
<1> QED BY <1>1, <1>2, SuffixSame

(* What has left the executor; after the last response nothing follows. *)
LEMMA SentFacts ==
    ASSUME NEW len, NEW v, Typed(v, len), NEW h \in Scheds
    PROVE  /\ v.d \in Seq(Nat) /\ v.y \in Seq(Nat) /\ v.box[h] \in Seq(Nat) /\ Sent(v, h) \in Seq(Nat)
           /\ v.d \o v.box[h] \in Seq(Nat)
           /\ Sent(v, h) = v.d \o (v.box[h] \o v.y)
<1> DEFINE d == v.d
           x == v.box[h]
           y == v.y
<1>1. d \in Seq(Nat) /\ x \in Seq(Nat) /\ y \in Seq(Nat)
  BY DEF Typed
<1>2. Sent(v, h) = (d \o x) \o y
  BY DEF Sent
<1> HIDE DEF d, x, y
<1>3. d \o x \in Seq(Nat) /\ (d \o x) \o y \in Seq(Nat) /\ (d \o x) \o y = d \o (x \o y)
  <2>1. d \o x \in Seq(Nat)
    BY <1>1, JoinFacts
  <2>2. (d \o x) \o y \in Seq(Nat)
    BY <1>1, <2>1, JoinFacts
  <2>3. (d \o x) \o y = d \o (x \o y)
    BY <1>1, JoinAssoc
  <2> QED BY <2>1, <2>2, <2>3
<1>4. d \in Seq(Nat) /\ y \in Seq(Nat) /\ x \in Seq(Nat) /\ Sent(v, h) \in Seq(Nat)
      /\ d \o x \in Seq(Nat) /\ Sent(v, h) = d \o (x \o y)
  BY <1>1, <1>2, <1>3
<1> QED BY <1>4 DEF d, x, y

(* Once the client has the last response there is nothing left. *)
LEMMA NothingLeft ==
    ASSUME NEW len \in Nat, NEW v, Typed(v, len), NEW h \in Scheds, Streamed(v, h), len \in Range(v.d)
    PROVE  v.box[h] = << >> /\ v.y = << >> /\ \A s \in Scheds : Row(v, s) = << >>
<1>1. PICK s \in Scheds : /\ \A t \in Scheds \ {s} : Row(v, t) = << >>
                          /\ Sent(v, h) \o Row(v, s) = Seg(0, v.n)
  BY DEF Streamed
<1> DEFINE d == v.d
           x == v.box[h]
           y == v.y
           c == Row(v, s)
           n == v.n
<1>2. d \in Seq(Nat) /\ x \in Seq(Nat) /\ y \in Seq(Nat) /\ Sent(v, h) = d \o (x \o y)
  BY SentFacts
<1>3. c \in Seq(Nat)
  BY RowFacts
<1>4. n \in Nat /\ n <= len /\ len \in Range(d) /\ (d \o (x \o y)) \o c = Seg(0, n)
  BY <1>1, <1>2 DEF Typed
<1> HIDE DEF d, x, y, c, n
<1>5. x \o y \in Seq(Nat) /\ (x \o y) \o c \in Seq(Nat)
  <2>1. x \o y \in Seq(Nat)
    BY <1>2, JoinFacts
  <2> QED BY <1>3, <2>1, JoinFacts
<1>6. d \o ((x \o y) \o c) = Seg(0, n)
  <2> DEFINE z == x \o y
  <2>1. z \in Seq(Nat) /\ (d \o z) \o c = Seg(0, n)
    BY <1>4, <1>5
  <2> HIDE DEF z
  <2>2. d \o (z \o c) = Seg(0, n)
    <3>1. d \in Seq(Nat) /\ z \in Seq(Nat) /\ c \in Seq(Nat)
      BY <1>2, <1>3, <2>1
    <3>2. (d \o z) \o c = d \o (z \o c)
      BY ONLY <3>1, JoinAssoc
    <3> QED BY <2>1, <3>2
  <2> QED BY <2>2 DEF z
<1>7. (x \o y) \o c = << >>
  <2> DEFINE z == (x \o y) \o c
  <2>1. z \in Seq(Nat) /\ d \o z = Seg(0, n) /\ d \in Seq(Nat) /\ n \in Nat /\ 0 \in Nat /\ 0 <= n
        /\ len \in Nat /\ n <= len /\ len \in Range(d)
    BY <1>2, <1>4, <1>5, <1>6
  <2> HIDE DEF z
  <2>2. z = << >>
    BY ONLY <2>1, SegTop, ZenonT(40)
  <2> QED BY <2>2 DEF z
<1>8. x = << >> /\ y = << >> /\ c = << >>
  <2>1. x \o y = << >> /\ c = << >>
    BY <1>3, <1>5, <1>7, JoinFacts
  <2> QED BY <1>2, <2>1, JoinFacts
<1> QED BY <1>1, <1>8 DEF x, y, c

LEMMA SameStream ==
    ASSUME NEW v, NEW w, NEW h, Streamed(v, h), w.n = v.n, Sent(w, h) = Sent(v, h),
           \A t \in Scheds : Row(w, t) = Row(v, t)
    PROVE  Streamed(w, h)
<1>1. PICK s \in Scheds : /\ \A t \in Scheds \ {s} : Row(v, t) = << >>
                          /\ Sent(v, h) \o Row(v, s) = Seg(0, v.n)
  BY DEF Streamed
<1>2. /\ \A t \in Scheds \ {s} : Row(w, t) = << >>
      /\ Sent(w, h) \o Row(w, s) = Seg(0, w.n)
  BY <1>1
<1> QED BY <1>2 DEF Streamed

(* TakeBatch. *)
Takes(v, w, s) ==
    /\ Elsewhere(v, w, s) /\ w.y = v.y /\ w.d = v.d /\ w.n = v.n
    /\ v.p[s] = << >> /\ v.b[s] = << >>
    /\ w.p[s] = << >> /\ w.b[s] = v.q[s] /\ w.q[s] = << >> /\ w.box[s] = v.box[s]
    /\ s \in w.e <=> s \in v.e
    /\ s \in w.t <=> s \in v.t
    /\ s \in w.mst <=> s \in v.mst
    /\ s \in w.loc <=> s \in v.t
    /\ s \in w.sto <=> s \in v.mst

LEMMA TakeStep ==
    ASSUME NEW len \in Nat, NEW h \in Scheds, NEW v, NEW w, Typed(v, len), Typed(w, len), NEW s \in Scheds,
           Takes(v, w, s), Good(v, h, len)
    PROVE  Good(w, h, len) /\ (Whole(v, h, len) => Whole(w, h, len))
<1>1. \A t \in Scheds : /\ t # s => /\ w.p[t] = v.p[t] /\ w.b[t] = v.b[t] /\ w.q[t] = v.q[t]
                                    /\ t \in w.loc <=> t \in v.loc
                                    /\ t \in w.sto <=> t \in v.sto
                        /\ w.box[t] = v.box[t]
                        /\ t \in w.e <=> t \in v.e
                        /\ t \in w.t <=> t \in v.t
                        /\ t \in w.mst <=> t \in v.mst
  BY DEF Takes, Elsewhere
<1>2. /\ w.y = v.y /\ w.d = v.d /\ w.n = v.n /\ v.p[s] = << >> /\ v.b[s] = << >>
      /\ w.p[s] = << >> /\ w.b[s] = v.q[s] /\ w.q[s] = << >>
      /\ s \in w.loc <=> s \in v.t
      /\ s \in w.sto <=> s \in v.mst
  BY DEF Takes
<1>3. \A t \in Scheds : Row(w, t) = Row(v, t)
  <2>1. Row(v, s) = v.q[s]
    BY <1>2, RowFacts
  <2>2. Row(w, s) = w.b[s]
    BY <1>2, RowFacts
  <2>3. \A t \in Scheds \ {s} : Row(w, t) = Row(v, t)
    BY OtherRows DEF Takes
  <2> QED BY <1>2, <2>1, <2>2, <2>3
<1>4. w.e = v.e /\ w.t = v.t /\ w.mst = v.mst
  BY <1>1 DEF Typed
<1>5. Rows(w, len)
  BY <1>2, <1>3, <1>4 DEF Good, Rows
<1>6. Sides(w, h)
  <2>1. w.loc \subseteq {h} /\ h \notin w.sto
    BY <1>1, <1>2 DEF Good, Sides, Typed
  <2>2. w.p[h] = << >>
    BY <1>1, <1>2 DEF Good, Sides
  <2> QED BY <1>1, <1>4, <2>1, <2>2 DEF Good, Sides
<1>7. Started(w, h) /\ Foreign(w, h) /\ LastOut(w, h, len)
  BY <1>1, <1>2, <1>3, <1>4 DEF Good, Started, Foreign, LastOut
<1>8. ASSUME Whole(v, h, len) PROVE Whole(w, h, len)
  <2>1. Awaited(w, h, len)
    BY <1>2, <1>4, <1>8 DEF Whole, Awaited
  <2>2. Streamed(w, h)
    <3>1. Sent(w, h) = Sent(v, h)
      BY <1>1, <1>2 DEF Sent
    <3> QED BY <1>2, <1>3, <1>8, <3>1, SameStream DEF Whole
  <2>3. ASSUME v.q[s] # << >>, s = h PROVE h \in v.t
    <3>1. CASE len \in Range(v.d)
      <4>1. Row(v, s) = << >>
        BY <1>8, <3>1, NothingLeft DEF Whole
      <4> QED BY <2>3, <4>1, RowFacts
    <3> QED BY <1>8, <3>1 DEF Whole, Awaited
  <2>4. Known(w, h)
    <3>1. ASSUME NEW t \in Scheds, w.b[t] # << >> PROVE t \in w.loc \cup w.sto
      <4>1. CASE t # s
        BY <1>1, <1>8, <3>1, <4>1 DEF Whole, Known
      <4>2. CASE t = s /\ s = h
        BY <1>2, <2>3, <3>1, <4>2
      <4>3. CASE t = s /\ s # h
        BY <1>2, <1>8, <3>1, <4>3 DEF Whole, Known
      <4> QED BY <4>1, <4>2, <4>3
    <3>2. ASSUME NEW t \in Scheds \ {h}, t \in w.e \/ w.q[t] # << >> PROVE t \in w.mst
      BY <1>1, <1>2, <1>8, <3>2 DEF Whole, Known
    <3> QED BY <3>1, <3>2 DEF Known
  <2> QED BY <2>1, <2>2, <2>4 DEF Whole
<1> QED BY <1>5, <1>6, <1>7, <1>8 DEF Good

(* Facts about a view that the steps below share. *)
LEMMA EmptyRows ==
    ASSUME NEW len \in Nat, NEW v, Typed(v, len), Rows(v, len), v.n = 0
    PROVE  \A s \in Scheds : Row(v, s) = << >> /\ v.p[s] = << >> /\ v.b[s] = << >> /\ v.q[s] = << >>
<1> TAKE s \in Scheds
<1>1. PICK m \in 0 .. v.n : Row(v, s) = Seg(m, v.n)
  BY DEF Rows
<1>2. m = 0 /\ v.n = 0 /\ 0 \in Nat /\ 0 <= 0
  BY <1>1
<1>3. Seg(0, 0) = << >>
  BY <1>2, SegEmpty
<1> QED BY <1>1, <1>2, <1>3, RowFacts

(* The last response, at the front of a row, is all there is. *)
LEMMA TopInRow ==
    ASSUME NEW len \in Nat, NEW v, Typed(v, len), Rows(v, len), NEW s \in Scheds,
           NEW a \in Seq(Nat), NEW c \in Seq(Nat), IsJoin(Row(v, s), a, c), len \in Range(a)
    PROVE  c = << >> /\ v.n = len /\ \A t \in Scheds \ {s} : Row(v, t) = << >>
<1>1. PICK m \in 0 .. v.n : Row(v, s) = Seg(m, v.n)
  BY DEF Rows
<1>2. v.n \in Nat /\ v.n <= len
  BY DEF Typed
<1> DEFINE n == v.n
<1>3. m \in Nat /\ n \in Nat /\ m <= n /\ a \in Seq(Nat) /\ c \in Seq(Nat) /\ a \o c = Seg(m, n)
      /\ len \in Nat /\ n <= len /\ len \in Range(a)
  BY <1>1, <1>2 DEF IsJoin
<1> HIDE DEF n
<1>4. c = << >> /\ len = n
  BY ONLY <1>3, SegTop
<1>5. Row(v, s) # << >>
  <2>1. Range(<< >>) = {}
    BY OnceEmpty
  <2>2. a # << >>
    BY <2>1
  <2> QED BY <2>2, JoinFacts DEF IsJoin
<1> QED BY <1>4, <1>5 DEF n, Rows

LEMMA HasRow ==
    ASSUME NEW len \in Nat, NEW v, NEW h, Rows(v, len), Streamed(v, h), NEW s \in Scheds, Row(v, s) # << >>
    PROVE  /\ \A t \in Scheds \ {s} : Row(v, t) = << >>
           /\ Sent(v, h) \o Row(v, s) = Seg(0, v.n)
  BY DEF Streamed, Rows

Shifts(a, b, c, d) == (a \o (b \o c)) \o d = (a \o b) \o (c \o d)

LEMMA JoinFour ==
    ASSUME NEW a \in Seq(Nat), NEW b \in Seq(Nat), NEW c \in Seq(Nat), NEW d \in Seq(Nat)
    PROVE  Shifts(a, b, c, d)
<1>1. a \o b \in Seq(Nat) /\ b \o c \in Seq(Nat) /\ c \o d \in Seq(Nat)
  BY JoinFacts
<1>2. a \o (b \o c) = (a \o b) \o c
  BY JoinAssoc
<1> DEFINE e == a \o b
<1>3. e \in Seq(Nat) /\ (a \o (b \o c)) \o d = (e \o c) \o d
  BY <1>1, <1>2
<1> HIDE DEF e
<1>4. (e \o c) \o d = e \o (c \o d)
  BY <1>3, JoinAssoc
<1> QED BY <1>3, <1>4 DEF e, Shifts

(* ApplyBatch that does not raise, or of a request that is in no snapshot. *)
Applies(v, w, s, len) ==
    /\ Elsewhere(v, w, s) /\ w.y = v.y /\ w.d = v.d /\ w.n = v.n
    /\ v.p[s] = << >> /\ w.b[s] = << >> /\ w.q[s] = v.q[s]
    /\ w.p[s] = IF s \in v.sto /\ s \notin v.loc THEN v.b[s] ELSE << >>
    /\ w.box[s] = IF s \in v.loc THEN v.box[s] \o v.b[s] ELSE v.box[s]
    /\ s \in w.e <=> s \in v.e
    /\ s \in w.t <=> s \in v.t
    /\ s \in w.loc <=> s \in v.loc
    /\ s \in w.sto <=> s \in v.sto
    /\ s \in w.mst <=> s \in v.mst /\ len \notin Range(v.b[s])

LEMMA ApplyStep ==
    ASSUME NEW len \in Nat, NEW h \in Scheds, NEW v, NEW w, Typed(v, len), Typed(w, len), NEW s \in Scheds,
           Applies(v, w, s, len), Good(v, h, len), s \in v.e => v.n # len
    PROVE  Good(w, h, len) /\ (Whole(v, h, len) => Whole(w, h, len))
<1>1. /\ Elsewhere(v, w, s) /\ w.y = v.y /\ w.d = v.d /\ w.n = v.n
      /\ v.p[s] = << >> /\ w.b[s] = << >> /\ w.q[s] = v.q[s]
      /\ s \in v.sto /\ s \notin v.loc => w.p[s] = v.b[s]
      /\ ~(s \in v.sto /\ s \notin v.loc) => w.p[s] = << >>
      /\ s \in v.loc => w.box[s] = v.box[s] \o v.b[s]
      /\ s \notin v.loc => w.box[s] = v.box[s]
      /\ s \in w.mst <=> s \in v.mst /\ len \notin Range(v.b[s])
  BY DEF Applies
<1>2. \A t \in Scheds : /\ t \in w.e <=> t \in v.e
                        /\ t \in w.t <=> t \in v.t
                        /\ t \in w.loc <=> t \in v.loc
                        /\ t \in w.sto <=> t \in v.sto
                        /\ t \in w.mst => t \in v.mst
                        /\ t # s => w.box[t] = v.box[t] /\ w.p[t] = v.p[t] /\ (t \in w.mst <=> t \in v.mst)
                        /\ t # s => w.b[t] = v.b[t] /\ w.q[t] = v.q[t]
  BY DEF Applies, Elsewhere
<1>3. w.e = v.e /\ w.t = v.t /\ w.loc = v.loc /\ w.sto = v.sto /\ w.mst \subseteq v.mst
  BY <1>2 DEF Typed
<1>4. /\ v.b[s] \in Seq(Nat) /\ v.q[s] \in Seq(Nat) /\ v.box[s] \in Seq(Nat) /\ Row(v, s) \in Seq(Nat)
      /\ Row(v, s) = v.b[s] \o v.q[s]
      /\ (Row(v, s) = << >> <=> v.b[s] = << >> /\ v.q[s] = << >>)
  <2>1. v.b[s] \in Seq(Nat) /\ v.q[s] \in Seq(Nat) /\ v.box[s] \in Seq(Nat) /\ Row(v, s) \in Seq(Nat)
    BY RowFacts
  <2>2. v.p[s] = << >>
    BY <1>1
  <2>3. Row(v, s) = v.b[s] \o v.q[s]
    BY <2>2, RowWithout DEF IsJoin
  <2>4. Row(v, s) = << >> <=> v.b[s] = << >> /\ v.q[s] = << >>
    BY <2>2, RowFacts
  <2> QED BY <2>1, <2>3, <2>4
<1>5. /\ s \in v.sto /\ s \notin v.loc => Row(w, s) = Row(v, s)
      /\ ~(s \in v.sto /\ s \notin v.loc) => Row(w, s) = v.q[s]
  <2>1. Row(w, s) = w.p[s] \o w.q[s]
    <3>1. w.b[s] = << >>
      BY <1>1
    <3> QED BY <3>1, RowWithout DEF IsJoin
  <2>2. << >> \o v.q[s] = v.q[s]
    BY <1>4, JoinFacts
  <2> QED BY <1>1, <1>4, <2>1, <2>2
<1>6. \A t \in Scheds \ {s} : Row(w, t) = Row(v, t) /\ Suffix(Row(w, t), Row(v, t))
  BY <1>1, OtherRows
<1>7. Suffix(Row(w, s), Row(v, s))
  <2>1. Suffix(v.q[s], Row(v, s))
    BY <1>4 DEF Suffix
  <2> QED BY <1>4, <1>5, <2>1, SuffixSame
<1>8. Rows(w, len)
  BY <1>1, <1>3, <1>6, <1>7, RowsShrink DEF Good
<1>9. \A t \in Scheds : Row(v, t) = << >> => Row(w, t) = << >>
  BY <1>4, <1>5, <1>6
<1>10. Sides(w, h)
  <2>1. w.p[h] = << >>
    BY <1>1, <1>2 DEF Good, Sides
  <2>2. \A t \in Scheds \ {h} : w.box[t] = << >>
    BY <1>1, <1>2 DEF Good, Sides
  <2> QED BY <1>3, <2>1, <2>2 DEF Good, Sides
<1>11. v.b[s] = << >> => w.box[s] = v.box[s]
  <2>1. v.box[s] \o << >> = v.box[s]
    BY <1>4, JoinFacts
  <2> QED BY <1>1, <2>1
<1>12. Started(w, h)
  <2> SUFFICES ASSUME v.n = 0 PROVE w.box[h] = << >> /\ w.y = << >> /\ w.d = << >>
    BY <1>1 DEF Started
  <2>1. v.b[s] = << >>
    BY EmptyRows DEF Good
  <2> QED BY <1>1, <1>2, <1>11, <2>1 DEF Good, Started
<1>13. Foreign(w, h)
  BY <1>1, <1>3, <1>9 DEF Good, Foreign
<1>14. len \in Range(v.b[s]) => v.q[s] = << >> /\ v.n = len /\ \A t \in Scheds \ {s} : Row(v, t) = << >>
  <2>1. Rows(v, len)
    BY DEF Good
  <2>2. IsJoin(Row(v, s), v.b[s], v.q[s])
    BY <1>4 DEF IsJoin
  <2> QED BY <1>4, <2>1, <2>2, TopInRow
<1>15. LastOut(w, h, len)
  <2> SUFFICES ASSUME len \in Range(w.box[h]) \cup Range(w.y)
               PROVE  w.n = len /\ \A t \in Scheds : Row(w, t) = << >>
    BY DEF LastOut
  <2>1. CASE len \in Range(v.box[h]) \cup Range(v.y)
    BY <1>1, <1>9, <2>1 DEF Good, LastOut
  <2>2. CASE len \notin Range(v.box[h]) \cup Range(v.y)
    <3>1. s = h /\ s \in v.loc /\ len \in Range(v.box[s] \o v.b[s])
      BY <1>1, <1>2, <2>2
    <3>2. len \in Range(v.b[s])
      BY <1>4, <2>2, <3>1, JoinFacts
    <3> QED BY <1>1, <1>5, <1>6, <1>14, <3>1, <3>2
  <2> QED BY <2>1, <2>2
<1>16. ASSUME Whole(v, h, len) PROVE Whole(w, h, len)
  <2>1. Awaited(w, h, len)
    BY <1>1, <1>3, <1>16 DEF Whole, Awaited
  <2>2. Known(w, h)
    <3>1. ASSUME NEW t \in Scheds, w.b[t] # << >> PROVE t \in w.loc \cup w.sto
      BY <1>1, <1>2, <1>16, <3>1 DEF Whole, Known
    <3>2. ASSUME NEW t \in Scheds \ {h}, t \in w.e \/ w.q[t] # << >> PROVE t \in w.mst
      <4>1. t \in v.mst
        BY <1>1, <1>2, <1>16, <3>2 DEF Whole, Known
      <4>2. CASE t # s
        BY <1>2, <4>1, <4>2
      <4>3. CASE t = s
        BY <1>1, <1>2, <1>14, <3>2, <4>1, <4>3
      <4> QED BY <4>2, <4>3
    <3> QED BY <3>1, <3>2 DEF Known
  <2>3. Streamed(w, h)
    <3>1. CASE s \notin v.loc \/ v.b[s] = << >>
      <4>1. w.box[h] = v.box[h]
        BY <1>1, <1>2, <1>11, <3>1
      <4>2. Sent(w, h) = Sent(v, h)
        BY <1>1, <4>1 DEF Sent
      <4>3. Row(w, s) = Row(v, s)
        <5>1. CASE v.b[s] = << >>
          <6>1. Row(v, s) = v.q[s]
            BY <1>1, <5>1, RowFacts
          <6> QED BY <1>5, <6>1
        <5>2. CASE v.b[s] # << >>
          BY <1>5, <1>16, <3>1, <5>2 DEF Whole, Known
        <5> QED BY <5>1, <5>2
      <4> QED BY <1>1, <1>6, <1>16, <4>2, <4>3, SameStream DEF Whole
    <3>2. CASE s \in v.loc /\ v.b[s] # << >>
      <4>1. s = h /\ Row(v, s) # << >>
        BY <1>4, <3>2 DEF Good, Sides
      <4>2. v.y = << >>
        BY <4>1 DEF Good, Foreign
      <4>3. /\ \A t \in Scheds \ {s} : Row(v, t) = << >>
            /\ Sent(v, h) \o Row(v, s) = Seg(0, v.n)
        BY <1>16, <4>1, HasRow DEF Good, Whole
      <4> DEFINE d == v.d
                 x == v.box[s]
                 b == v.b[s]
                 q == v.q[s]
      <4>4. d \in Seq(Nat) /\ x \in Seq(Nat) /\ b \in Seq(Nat) /\ q \in Seq(Nat)
        BY <1>4 DEF Typed
      <4>5. Sent(v, h) = (d \o x) \o << >> /\ Sent(w, h) = (d \o (x \o b)) \o << >>
        BY <1>1, <3>2, <4>1, <4>2 DEF Sent
      <4>6. Row(v, s) = b \o q /\ Row(w, s) = q
        BY <1>4, <1>5, <3>2
      <4> HIDE DEF d, x, b, q
      <4>7. Sent(v, h) = d \o x /\ Sent(w, h) = d \o (x \o b)
        <5>1. d \o x \in Seq(Nat) /\ x \o b \in Seq(Nat)
          BY <4>4, JoinFacts
        <5>2. d \o (x \o b) \in Seq(Nat)
          BY <4>4, <5>1, JoinFacts
        <5> QED BY <4>5, <5>1, <5>2, JoinFacts
      <4>8. (d \o (x \o b)) \o q = (d \o x) \o (b \o q)
        <5>1. Shifts(d, x, b, q)
          BY ONLY <4>4, JoinFour
        <5> QED BY <5>1 DEF Shifts
      <4>9. Sent(w, h) \o Row(w, s) = Seg(0, w.n)
        BY <1>1, <4>3, <4>6, <4>7, <4>8
      <4> QED BY <1>6, <4>3, <4>9 DEF Streamed
    <3> QED BY <3>1, <3>2
  <2> QED BY <2>1, <2>2, <2>3 DEF Whole
<1> QED BY <1>8, <1>10, <1>12, <1>13, <1>15, <1>16 DEF Good

(* Nothing but where the responses are has changed at s. *)
SameSets(v, w, s) ==
    /\ s \in w.e <=> s \in v.e
    /\ s \in w.t <=> s \in v.t
    /\ s \in w.mst <=> s \in v.mst
    /\ s \in w.loc <=> s \in v.loc
    /\ s \in w.sto <=> s \in v.sto

LEMMA SetsEqual ==
    ASSUME NEW len, NEW v, NEW w, NEW s, Typed(v, len), Typed(w, len), Elsewhere(v, w, s), SameSets(v, w, s)
    PROVE  w.e = v.e /\ w.t = v.t /\ w.mst = v.mst /\ w.loc = v.loc /\ w.sto = v.sto
<1>1. \A t \in Scheds : /\ t \in w.e <=> t \in v.e
                        /\ t \in w.t <=> t \in v.t
                        /\ t \in w.mst <=> t \in v.mst
                        /\ t \in w.loc <=> t \in v.loc
                        /\ t \in w.sto <=> t \in v.sto
  BY DEF Elsewhere, SameSets
<1> QED BY <1>1 DEF Typed

(* PushStolen. *)
Pushes(v, w, s) ==
    /\ Elsewhere(v, w, s) /\ SameSets(v, w, s) /\ w.d = v.d /\ w.n = v.n
    /\ w.p[s] = << >> /\ w.b[s] = v.b[s] /\ w.q[s] = v.q[s] /\ w.box[s] = v.box[s]
    /\ w.y = v.y \o v.p[s]

LEMMA PushStep ==
    ASSUME NEW len \in Nat, NEW h \in Scheds, NEW v, NEW w, Typed(v, len), Typed(w, len), NEW s \in Scheds,
           Pushes(v, w, s), Good(v, h, len)
    PROVE  Good(w, h, len) /\ (Whole(v, h, len) => Whole(w, h, len))
<1>1. /\ Elsewhere(v, w, s) /\ SameSets(v, w, s) /\ w.d = v.d /\ w.n = v.n
      /\ w.p[s] = << >> /\ w.b[s] = v.b[s] /\ w.q[s] = v.q[s] /\ w.box[s] = v.box[s]
      /\ w.y = v.y \o v.p[s]
  BY DEF Pushes
<1>2. w.e = v.e /\ w.t = v.t /\ w.mst = v.mst /\ w.loc = v.loc /\ w.sto = v.sto
  BY <1>1, SetsEqual
<1>3. \A t \in Scheds : /\ w.b[t] = v.b[t] /\ w.q[t] = v.q[t] /\ w.box[t] = v.box[t]
                        /\ t # s => w.p[t] = v.p[t]
  BY <1>1 DEF Elsewhere
<1>4. \A t \in Scheds \ {s} : Row(w, t) = Row(v, t) /\ Suffix(Row(w, t), Row(v, t))
  BY <1>1, OtherRows
<1>5. /\ v.p[s] \in Seq(Nat) /\ v.y \in Seq(Nat) /\ v.b[s] \in Seq(Nat) /\ v.q[s] \in Seq(Nat)
      /\ v.b[s] \o v.q[s] \in Seq(Nat)
      /\ (Row(v, s) = << >> <=> v.p[s] = << >> /\ v.b[s] = << >> /\ v.q[s] = << >>)
  BY RowFacts DEF Typed
<1>6. Row(w, s) = v.b[s] \o v.q[s] /\ Row(v, s) = v.p[s] \o Row(w, s) /\ Row(w, s) \in Seq(Nat)
  <2>1. Row(w, s) = w.b[s] \o w.q[s]
    BY <1>1, RowWithout DEF IsJoin
  <2>2. Row(w, s) \in Seq(Nat)
    BY RowFacts
  <2> QED BY <1>1, <2>1, <2>2 DEF Row
<1>7. Suffix(Row(w, s), Row(v, s))
  BY <1>5, <1>6 DEF Suffix
<1>8. Rows(v, len)
  BY DEF Good
<1>9. Rows(w, len)
  BY <1>1, <1>2, <1>4, <1>7, <1>8, RowsShrink
<1>10. \A t \in Scheds : Row(v, t) = << >> => Row(w, t) = << >>
  BY <1>4, <1>5, <1>6, JoinFacts
<1>11. v.p[s] # << >> => s # h /\ Row(v, s) # << >>
  BY <1>5 DEF Good, Sides
<1>12. v.p[s] = << >> => w.y = v.y /\ Row(w, s) = Row(v, s)
  <2>1. v.y \o << >> = v.y /\ << >> \o Row(w, s) = Row(w, s)
    BY <1>5, <1>6, JoinFacts
  <2> QED BY <1>1, <1>6, <2>1
<1>13. Sides(w, h)
  <2>1. w.p[h] = << >>
    BY <1>1, <1>3 DEF Good, Sides
  <2> QED BY <1>2, <1>3, <2>1 DEF Good, Sides
<1>14. Started(w, h)
  <2> SUFFICES ASSUME v.n = 0 PROVE w.box[h] = << >> /\ w.y = << >> /\ w.d = << >>
    BY <1>1 DEF Started
  <2>1. v.p[s] = << >>
    BY <1>8, EmptyRows
  <2> QED BY <1>1, <1>3, <1>12, <2>1 DEF Good, Started
<1>15. Foreign(w, h)
  <2>1. CASE v.p[s] = << >>
    BY <1>2, <1>10, <1>12, <2>1 DEF Good, Foreign
  <2>2. CASE v.p[s] # << >>
    <3>1. h \notin v.e /\ Row(v, h) = << >>
      BY <1>8, <1>11, <2>2 DEF Rows
    <3> QED BY <1>2, <1>10, <3>1 DEF Foreign
  <2> QED BY <2>1, <2>2
<1>16. LastOut(w, h, len)
  <2> SUFFICES ASSUME len \in Range(w.box[h]) \cup Range(w.y)
               PROVE  w.n = len /\ \A t \in Scheds : Row(w, t) = << >>
    BY DEF LastOut
  <2>1. CASE len \in Range(v.box[h]) \cup Range(v.y)
    BY <1>1, <1>10, <2>1 DEF Good, LastOut
  <2>2. CASE len \notin Range(v.box[h]) \cup Range(v.y)
    <3>1. len \in Range(v.y \o v.p[s])
      BY <1>1, <1>3, <2>2
    <3>2. len \in Range(v.p[s])
      BY <1>5, <2>2, <3>1, JoinFacts
    <3>3. Row(w, s) = << >> /\ v.n = len /\ \A t \in Scheds \ {s} : Row(v, t) = << >>
      <4>1. IsJoin(Row(v, s), v.p[s], Row(w, s))
        BY <1>6 DEF IsJoin
      <4> QED BY <1>5, <1>6, <1>8, <3>2, <4>1, TopInRow
    <3> QED BY <1>1, <1>4, <3>3
  <2> QED BY <2>1, <2>2
<1>17. ASSUME Whole(v, h, len) PROVE Whole(w, h, len)
  <2>1. Awaited(w, h, len) /\ Known(w, h)
    BY <1>1, <1>2, <1>3, <1>17 DEF Whole, Awaited, Known
  <2>2. CASE v.p[s] = << >>
    <3>1. Sent(w, h) = Sent(v, h)
      BY <1>1, <1>3, <1>12, <2>2 DEF Sent
    <3>2. Streamed(w, h)
      BY <1>1, <1>4, <1>12, <1>17, <2>2, <3>1, SameStream DEF Whole
    <3> QED BY <2>1, <3>2 DEF Whole
  <2>3. CASE v.p[s] # << >>
    <3>1. /\ \A t \in Scheds \ {s} : Row(v, t) = << >>
          /\ Sent(v, h) \o Row(v, s) = Seg(0, v.n)
      BY <1>8, <1>11, <1>17, <2>3, HasRow DEF Whole
    <3> DEFINE a == v.d \o v.box[h]
               y == v.y
               p == v.p[s]
               c == Row(w, s)
    <3>2. a \in Seq(Nat) /\ y \in Seq(Nat) /\ p \in Seq(Nat) /\ c \in Seq(Nat)
      BY <1>5, <1>6, SentFacts
    <3>3. Sent(v, h) = a \o y /\ Sent(w, h) = a \o (y \o p) /\ Row(v, s) = p \o c
      BY <1>1, <1>3, <1>6 DEF Sent
    <3>4. Row(w, s) = c
      OBVIOUS
    <3> HIDE DEF a, y, p, c
    <3>5. Shifts(a, y, p, c)
      BY ONLY <3>2, JoinFour
    <3>6. Sent(w, h) \o Row(w, s) = Seg(0, w.n)
      BY <1>1, <3>1, <3>3, <3>4, <3>5 DEF Shifts
    <3>7. Streamed(w, h)
      BY <1>4, <3>1, <3>6 DEF Streamed
    <3> QED BY <2>1, <3>7 DEF Whole
  <2> QED BY <2>2, <2>3
<1> QED BY <1>9, <1>13, <1>14, <1>15, <1>16, <1>17 DEF Good

LEMMA RowsEqual ==
    ASSUME NEW len, NEW v, NEW w, NEW s, Elsewhere(v, w, s),
           w.p[s] = v.p[s], w.b[s] = v.b[s], w.q[s] = v.q[s]
    PROVE  \A t \in Scheds : /\ w.p[t] = v.p[t] /\ w.b[t] = v.b[t] /\ w.q[t] = v.q[t]
                             /\ Row(w, t) = Row(v, t)
  BY DEF Elsewhere, Row

(* GetResultsWorker at home. *)
Fetches(v, w, h) ==
    /\ Elsewhere(v, w, h) /\ SameSets(v, w, h) /\ w.d = v.d /\ w.n = v.n
    /\ w.p[h] = v.p[h] /\ w.b[h] = v.b[h] /\ w.q[h] = v.q[h]
    /\ w.box[h] = IF h \in v.t THEN v.box[h] \o v.y ELSE v.box[h]
    /\ w.y = << >>

LEMMA FetchStep ==
    ASSUME NEW len \in Nat, NEW h \in Scheds, NEW v, NEW w, Typed(v, len), Typed(w, len),
           Fetches(v, w, h), Good(v, h, len)
    PROVE  Good(w, h, len) /\ (Whole(v, h, len) => Whole(w, h, len))
<1>1. /\ Elsewhere(v, w, h) /\ SameSets(v, w, h) /\ w.d = v.d /\ w.n = v.n
      /\ w.p[h] = v.p[h] /\ w.b[h] = v.b[h] /\ w.q[h] = v.q[h] /\ w.y = << >>
      /\ h \in v.t => w.box[h] = v.box[h] \o v.y
      /\ h \notin v.t => w.box[h] = v.box[h]
  BY DEF Fetches
<1>2. w.e = v.e /\ w.t = v.t /\ w.mst = v.mst /\ w.loc = v.loc /\ w.sto = v.sto
  BY <1>1, SetsEqual
<1>3. \A t \in Scheds : /\ w.p[t] = v.p[t] /\ w.b[t] = v.b[t] /\ w.q[t] = v.q[t]
                        /\ Row(w, t) = Row(v, t)
                        /\ t # h => w.box[t] = v.box[t]
  <2>1. \A t \in Scheds : /\ w.p[t] = v.p[t] /\ w.b[t] = v.b[t] /\ w.q[t] = v.q[t]
                          /\ Row(w, t) = Row(v, t)
    BY <1>1, RowsEqual
  <2>2. \A t \in Scheds : t # h => w.box[t] = v.box[t]
    BY <1>1 DEF Elsewhere
  <2> QED BY <2>1, <2>2
<1>4. v.box[h] \in Seq(Nat) /\ v.y \in Seq(Nat) /\ v.d \in Seq(Nat)
  BY SentFacts
<1>5. Rows(w, len)
  BY <1>1, <1>2, <1>3 DEF Good, Rows
<1>6. Sides(w, h)
  BY <1>2, <1>3 DEF Good, Sides
<1>7. Started(w, h)
  <2>1. << >> \o << >> = << >>
    BY JoinFacts, EmptySeq
  <2> QED BY <1>1, <2>1 DEF Good, Started
<1>8. Foreign(w, h)
  BY <1>1 DEF Foreign
<1>9. LastOut(w, h, len)
  <2> SUFFICES ASSUME len \in Range(w.box[h]) \cup Range(w.y)
               PROVE  w.n = len /\ \A t \in Scheds : Row(w, t) = << >>
    BY DEF LastOut
  <2>1. Range(w.box[h]) \subseteq Range(v.box[h]) \cup Range(v.y)
    <3>1. Range(v.box[h] \o v.y) = Range(v.box[h]) \cup Range(v.y)
      BY <1>4, JoinFacts
    <3> QED BY <1>1, <3>1
  <2>2. Range(w.y) = {}
    BY <1>1, OnceEmpty
  <2>3. len \in Range(v.box[h]) \cup Range(v.y)
    BY <2>1, <2>2
  <2> QED BY <1>1, <1>3, <2>3 DEF Good, LastOut
<1>10. ASSUME Whole(v, h, len) PROVE Whole(w, h, len)
  <2>1. Awaited(w, h, len) /\ Known(w, h)
    BY <1>1, <1>2, <1>3, <1>10 DEF Whole, Awaited, Known
  <2>2. Sent(w, h) = Sent(v, h)
    <3> DEFINE d == v.d
               x == v.box[h]
               y == v.y
    <3>1. d \in Seq(Nat) /\ x \in Seq(Nat) /\ y \in Seq(Nat)
      BY <1>4
    <3>2. Sent(v, h) = (d \o x) \o y /\ Sent(w, h) = (d \o w.box[h]) \o << >>
      BY <1>1 DEF Sent
    <3>3. CASE h \in v.t
      <4>1. w.box[h] = x \o y
        BY <1>1, <3>3
      <4> HIDE DEF d, x, y
      <4>2. x \o y \in Seq(Nat)
        BY <3>1, JoinFacts
      <4>3. d \o (x \o y) \in Seq(Nat)
        BY <3>1, <4>2, JoinFacts
      <4>4. Sent(w, h) = d \o (x \o y)
        BY <3>2, <4>1, <4>3, JoinFacts
      <4>5. (d \o x) \o y = d \o (x \o y)
        BY <3>1, JoinAssoc
      <4> QED BY <3>2, <4>4, <4>5
    <3>4. CASE h \notin v.t
      <4>1. len \in Range(v.d)
        BY <1>10, <3>4 DEF Whole, Awaited
      <4>2. y = << >> /\ w.box[h] = x
        BY <1>1, <1>10, <3>4, <4>1, NothingLeft DEF Whole
      <4> QED BY <3>2, <4>2
    <3> QED BY <3>3, <3>4
  <2>3. Streamed(w, h)
    BY <1>1, <1>3, <1>10, <2>2, SameStream DEF Whole
  <2> QED BY <2>1, <2>3 DEF Whole
<1> QED BY <1>5, <1>6, <1>7, <1>8, <1>9, <1>10 DEF Good

(* GetResults at home. *)
Hands(v, w, h, len) ==
    /\ Elsewhere(v, w, h) /\ w.y = v.y /\ w.n = v.n
    /\ w.p[h] = v.p[h] /\ w.b[h] = v.b[h] /\ w.q[h] = v.q[h]
    /\ w.d = v.d \o v.box[h] /\ w.box[h] = << >>
    /\ h \in w.t <=> h \in v.t /\ len \notin Range(v.box[h])
    /\ h \in w.e <=> h \in v.e
    /\ h \in w.mst <=> h \in v.mst
    /\ h \in w.loc <=> h \in v.loc
    /\ h \in w.sto <=> h \in v.sto

LEMMA HandStep ==
    ASSUME NEW len \in Nat, NEW h \in Scheds, NEW v, NEW w, Typed(v, len), Typed(w, len),
           Hands(v, w, h, len), Good(v, h, len)
    PROVE  Good(w, h, len) /\ (Whole(v, h, len) => Whole(w, h, len))
<1>1. /\ Elsewhere(v, w, h) /\ w.y = v.y /\ w.n = v.n
      /\ w.p[h] = v.p[h] /\ w.b[h] = v.b[h] /\ w.q[h] = v.q[h]
      /\ w.d = v.d \o v.box[h] /\ w.box[h] = << >>
      /\ h \in w.t <=> h \in v.t /\ len \notin Range(v.box[h])
  BY DEF Hands
<1>2. w.e = v.e /\ w.t \subseteq v.t /\ w.mst = v.mst /\ w.loc = v.loc /\ w.sto = v.sto
  <2>1. \A t \in Scheds : /\ t \in w.e <=> t \in v.e
                          /\ t \in w.t => t \in v.t
                          /\ t \in w.mst <=> t \in v.mst
                          /\ t \in w.loc <=> t \in v.loc
                          /\ t \in w.sto <=> t \in v.sto
    BY DEF Elsewhere, Hands
  <2> QED BY <2>1 DEF Typed
<1>3. \A t \in Scheds : /\ w.p[t] = v.p[t] /\ w.b[t] = v.b[t] /\ w.q[t] = v.q[t]
                        /\ Row(w, t) = Row(v, t)
                        /\ t # h => w.box[t] = v.box[t]
  <2>1. \A t \in Scheds : /\ w.p[t] = v.p[t] /\ w.b[t] = v.b[t] /\ w.q[t] = v.q[t]
                          /\ Row(w, t) = Row(v, t)
    BY <1>1, RowsEqual
  <2>2. \A t \in Scheds : t # h => w.box[t] = v.box[t]
    BY <1>1 DEF Elsewhere
  <2> QED BY <2>1, <2>2
<1>4. v.box[h] \in Seq(Nat) /\ v.y \in Seq(Nat) /\ v.d \in Seq(Nat)
  BY SentFacts
<1>5. Rows(w, len)
  BY <1>1, <1>2, <1>3 DEF Good, Rows
<1>6. Sides(w, h)
  BY <1>2, <1>3 DEF Good, Sides
<1>7. Started(w, h)
  <2>1. << >> \o << >> = << >>
    BY JoinFacts, EmptySeq
  <2> QED BY <1>1, <2>1 DEF Good, Started
<1>8. Foreign(w, h)
  BY <1>1, <1>2, <1>3 DEF Good, Foreign
<1>9. LastOut(w, h, len)
  <2>1. Range(w.box[h]) = {}
    BY <1>1, OnceEmpty
  <2> QED BY <1>1, <1>3, <2>1 DEF Good, LastOut
<1>10. ASSUME Whole(v, h, len) PROVE Whole(w, h, len)
  <2>1. Known(w, h)
    BY <1>1, <1>2, <1>3, <1>10 DEF Whole, Known
  <2>2. Awaited(w, h, len)
    <3>1. Range(w.d) = Range(v.d) \cup Range(v.box[h])
      BY <1>1, <1>4, JoinFacts
    <3> QED BY <1>1, <1>10, <3>1 DEF Whole, Awaited
  <2>3. Sent(w, h) = Sent(v, h)
    <3>1. (v.d \o v.box[h]) \o << >> = v.d \o v.box[h]
      <4> DEFINE a == v.d \o v.box[h]
      <4>1. a \in Seq(Nat)
        BY SentFacts
      <4> HIDE DEF a
      <4>2. a \o << >> = a
        BY <4>1, JoinFacts
      <4> QED BY <4>2 DEF a
    <3> QED BY <1>1, <3>1 DEF Sent
  <2>4. Streamed(w, h)
    BY <1>1, <1>3, <1>10, <2>3, SameStream DEF Whole
  <2> QED BY <2>1, <2>2, <2>4 DEF Whole
<1> QED BY <1>5, <1>6, <1>7, <1>8, <1>9, <1>10 DEF Good

(* PutResults. *)
Emits(v, w, s, len) ==
    /\ Elsewhere(v, w, s) /\ w.y = v.y /\ w.d = v.d /\ w.n = v.n + 1
    /\ w.p[s] = v.p[s] /\ w.b[s] = v.b[s] /\ w.box[s] = v.box[s]
    /\ w.q[s] = Append(v.q[s], v.n + 1)
    /\ s \in v.e
    /\ s \in w.e <=> v.n + 1 # len
    /\ s \in w.t <=> s \in v.t
    /\ s \in w.mst <=> s \in v.mst
    /\ s \in w.loc <=> s \in v.loc
    /\ s \in w.sto <=> s \in v.sto

LEMMA JoinAppend ==
    ASSUME NEW a \in Seq(Nat), NEW b \in Seq(Nat), NEW n \in Nat
    PROVE  IsJoin(Append(a \o b, n), a, Append(b, n))
<1>1. Append(b, n) = b \o <<n>> /\ <<n>> \in Seq(Nat)
  BY AppendIsConcat
<1>2. a \o b \in Seq(Nat)
  BY JoinFacts
<1>3. Append(a \o b, n) = (a \o b) \o <<n>>
  <2> DEFINE c == a \o b
  <2>1. c \in Seq(Nat)
    BY <1>2
  <2> HIDE DEF c
  <2>2. Append(c, n) = c \o <<n>>
    BY <2>1, AppendIsConcat
  <2> QED BY <2>2 DEF c
<1> DEFINE o == <<n>>
<1>4. o \in Seq(Nat)
  BY <1>1
<1> HIDE DEF o
<1>5. (a \o b) \o o = a \o (b \o o)
  BY <1>4, JoinAssoc
<1> QED BY <1>1, <1>3, <1>5 DEF o, IsJoin

IsAppend(c, a, n) == c = Append(a, n)

LEMMA EmitRow ==
    ASSUME NEW len, NEW v, NEW w, Typed(v, len), NEW s \in Scheds, NEW n \in Nat,
           w.p[s] = v.p[s], w.b[s] = v.b[s], IsAppend(w.q[s], v.q[s], n)
    PROVE  IsAppend(Row(w, s), Row(v, s), n)
<1> DEFINE p == v.p[s]
           b == v.b[s]
           q == v.q[s]
<1>1. p \in Seq(Nat) /\ b \in Seq(Nat) /\ q \in Seq(Nat) /\ Row(v, s) = p \o (b \o q)
      /\ Row(w, s) = p \o (b \o Append(q, n))
  BY DEF Typed, Row, IsAppend
<1> HIDE DEF p, b, q
<1>2. IsJoin(Append(b \o q, n), b, Append(q, n))
  BY <1>1, JoinAppend
<1> DEFINE c == b \o q
<1>3. c \in Seq(Nat)
  BY <1>1, JoinFacts
<1>4. Row(v, s) = p \o c /\ Row(w, s) = p \o Append(c, n)
  BY <1>1, <1>2 DEF IsJoin
<1> HIDE DEF c
<1>5. IsJoin(Append(p \o c, n), p, Append(c, n))
  BY <1>1, <1>3, JoinAppend
<1> QED BY <1>4, <1>5 DEF IsJoin, IsAppend

LEMMA EmitStep ==
    ASSUME NEW len \in Nat, NEW h \in Scheds, NEW v, NEW w, Typed(v, len), Typed(w, len), NEW s \in Scheds,
           Emits(v, w, s, len), Good(v, h, len), v.n # len, \A t \in v.e : t = s
    PROVE  Good(w, h, len) /\ (Whole(v, h, len) => Whole(w, h, len))
<1>1. /\ Elsewhere(v, w, s) /\ w.y = v.y /\ w.d = v.d /\ w.n = v.n + 1
      /\ w.p[s] = v.p[s] /\ w.b[s] = v.b[s] /\ w.box[s] = v.box[s]
      /\ w.q[s] = Append(v.q[s], v.n + 1) /\ s \in v.e
      /\ s \in w.e <=> v.n + 1 # len
  BY DEF Emits
<1>2. \A t \in Scheds : /\ t \in w.t <=> t \in v.t
                        /\ t \in w.mst <=> t \in v.mst
                        /\ t \in w.loc <=> t \in v.loc
                        /\ t \in w.sto <=> t \in v.sto
                        /\ w.p[t] = v.p[t] /\ w.b[t] = v.b[t] /\ w.box[t] = v.box[t]
                        /\ t # s => w.q[t] = v.q[t] /\ (t \in w.e <=> t \in v.e)
  BY DEF Emits, Elsewhere
<1>3. w.t = v.t /\ w.mst = v.mst /\ w.loc = v.loc /\ w.sto = v.sto
  BY <1>2 DEF Typed
<1>4. Rows(v, len) /\ v.n \in Nat /\ v.n + 1 \in Nat /\ v.n < len /\ w.n # 0
  <2>1. v.n \in Nat /\ v.n <= len
    BY DEF Typed
  <2> QED BY <1>1, <2>1 DEF Good
<1>5. \A t \in Scheds \ {s} : Row(v, t) = << >> /\ t \notin v.e
  BY <1>1, <1>4 DEF Rows
<1>6. \A t \in Scheds \ {s} : Row(w, t) = << >> /\ t \notin w.e
  <2>1. \A t \in Scheds \ {s} : Row(w, t) = Row(v, t)
    BY <1>1, OtherRows
  <2> QED BY <1>2, <1>5, <2>1
<1>7. Row(w, s) = Append(Row(v, s), v.n + 1)
  <2> DEFINE n == v.n + 1
  <2>1. n \in Nat /\ IsAppend(w.q[s], v.q[s], n)
    BY <1>1, <1>4 DEF IsAppend
  <2> HIDE DEF n
  <2>2. IsAppend(Row(w, s), Row(v, s), n)
    BY <1>1, <2>1, EmitRow
  <2> QED BY <2>2 DEF n, IsAppend
<1>8. Rows(w, len)
  <2>1. ASSUME NEW t \in Scheds PROVE \E m \in 0 .. w.n : Row(w, t) = Seg(m, w.n)
    <3>1. CASE t = s
      <4>1. PICK m \in 0 .. v.n : Row(v, s) = Seg(m, v.n)
        BY <1>4 DEF Rows
      <4> DEFINE n == v.n
      <4>2. m \in Nat /\ n \in Nat /\ m <= n /\ m \in 0 .. n + 1
        BY <1>4, <4>1
      <4>3. Row(w, s) = Append(Seg(m, n), n + 1) /\ w.n = n + 1
        BY <1>1, <1>7, <4>1
      <4> HIDE DEF n
      <4>4. Append(Seg(m, n), n + 1) = Seg(m, n + 1)
        BY <4>2, SegAppend
      <4>5. m \in 0 .. w.n /\ Row(w, s) = Seg(m, w.n)
        BY <4>2, <4>3, <4>4
      <4> QED BY <3>1, <4>5
    <3>2. CASE t # s
      <4>1. w.n \in Nat /\ w.n <= w.n /\ w.n \in 0 .. w.n
        BY <1>1, <1>4
      <4>2. Seg(w.n, w.n) = << >>
        BY <4>1, SegEmpty
      <4> QED BY <1>6, <3>2, <4>1, <4>2
    <3> QED BY <3>1, <3>2
  <2>2. \A t \in Scheds : Row(w, t) # << >> => t \in w.e \/ w.n = len
    BY <1>1, <1>6
  <2>3. \A a, t \in Scheds : Row(w, a) # << >> /\ (Row(w, t) # << >> \/ t \in w.e) => a = t
    BY <1>6
  <2> QED BY <2>1, <2>2, <2>3 DEF Rows
<1>9. Sides(w, h)
  BY <1>2, <1>3 DEF Good, Sides
<1>10. Started(w, h)
  BY <1>4 DEF Started
<1>11. Foreign(w, h)
  BY <1>1, <1>6 DEF Good, Foreign
<1>12. LastOut(w, h, len)
  BY <1>1, <1>2, <1>4 DEF Good, LastOut
<1>13. ASSUME Whole(v, h, len) PROVE Whole(w, h, len)
  <2>1. Awaited(w, h, len)
    BY <1>1, <1>3, <1>13 DEF Whole, Awaited
  <2>2. Known(w, h)
    <3>1. ASSUME NEW t \in Scheds, w.b[t] # << >> PROVE t \in w.loc \cup w.sto
      BY <1>2, <1>3, <1>13, <3>1 DEF Whole, Known
    <3>2. ASSUME NEW t \in Scheds \ {h}, t \in w.e \/ w.q[t] # << >> PROVE t \in w.mst
      <4>1. CASE t = s
        BY <1>1, <1>3, <1>13, <4>1 DEF Whole, Known
      <4>2. CASE t # s
        BY <1>2, <1>3, <1>13, <3>2, <4>2 DEF Whole, Known
      <4> QED BY <4>1, <4>2
    <3> QED BY <3>1, <3>2 DEF Known
  <2>3. Sent(v, h) \o Row(v, s) = Seg(0, v.n)
    <3>1. PICK a \in Scheds : /\ \A t \in Scheds \ {a} : Row(v, t) = << >>
                              /\ Sent(v, h) \o Row(v, a) = Seg(0, v.n)
      BY <1>13 DEF Whole, Streamed
    <3>2. CASE a = s
      BY <3>1, <3>2
    <3>3. CASE a # s
      <4>1. Row(v, a) = << >> /\ Row(v, s) = << >>
        BY <1>5, <3>1, <3>3
      <4> QED BY <3>1, <4>1
    <3> QED BY <3>2, <3>3
  <2>4. Sent(w, h) = Sent(v, h)
    BY <1>1, <1>2 DEF Sent
  <2>5. Sent(w, h) \o Row(w, s) = Seg(0, w.n)
    <3> DEFINE a == Sent(v, h)
               c == Row(v, s)
               n == v.n
    <3>1. a \in Seq(Nat) /\ c \in Seq(Nat) /\ n \in Nat /\ n + 1 \in Nat /\ 0 \in Nat /\ 0 <= n
      <4>1. a \in Seq(Nat)
        BY SentFacts
      <4>2. c \in Seq(Nat)
        BY RowFacts
      <4> QED BY <1>4, <4>1, <4>2
    <3>2. a \o c = Seg(0, n) /\ Sent(w, h) = a /\ Row(w, s) = Append(c, n + 1) /\ w.n = n + 1
      BY <1>1, <1>7, <2>3, <2>4
    <3> HIDE DEF a, c, n
    <3>3. IsJoin(Append(a \o c, n + 1), a, Append(c, n + 1))
      BY <3>1, JoinAppend
    <3>4. Append(Seg(0, n), n + 1) = Seg(0, n + 1)
      BY <3>1, SegAppend
    <3> QED BY <3>2, <3>3, <3>4 DEF IsJoin
  <2>6. Streamed(w, h)
    BY <1>6, <2>5 DEF Streamed
  <2> QED BY <2>1, <2>2, <2>6 DEF Whole
<1> QED BY <1>8, <1>9, <1>10, <1>11, <1>12, <1>13 DEF Good

(* CountAndFit of a request, and PutRequests: none of its responses exists. *)
Joins(v, w, s, h) ==
    /\ Elsewhere(v, w, s) /\ w.y = v.y /\ w.d = v.d /\ w.n = v.n
    /\ w.p[s] = v.p[s] /\ w.b[s] = v.b[s] /\ w.q[s] = v.q[s] /\ w.box[s] = v.box[s]
    /\ s \in w.t <=> s \in v.t
    /\ s \in w.mst <=> s \in v.mst \/ s # h
    /\ s \in w.loc <=> s \in v.loc
    /\ s \in w.sto <=> s \in v.sto

Enlists(v, w, h) ==
    /\ Elsewhere(v, w, h) /\ w.y = v.y /\ w.d = v.d /\ w.n = v.n
    /\ w.p[h] = v.p[h] /\ w.b[h] = v.b[h] /\ w.q[h] = v.q[h] /\ w.box[h] = v.box[h]
    /\ h \in w.t
    /\ h \in w.e <=> h \in v.e
    /\ h \in w.mst <=> h \in v.mst
    /\ h \in w.loc <=> h \in v.loc
    /\ h \in w.sto <=> h \in v.sto

LEMMA NewRows ==
    ASSUME NEW len \in Nat, NEW h \in Scheds, NEW v, NEW w, Typed(v, len), NEW s \in Scheds,
           Elsewhere(v, w, s), w.p[s] = v.p[s], w.b[s] = v.b[s], w.q[s] = v.q[s], w.box[s] = v.box[s],
           w.n = v.n, v.n = 0, Good(v, h, len)
    PROVE  /\ \A t \in Scheds : /\ w.p[t] = << >> /\ w.b[t] = << >> /\ w.q[t] = << >>
                                /\ w.box[t] = << >> /\ Row(w, t) = << >>
           /\ Rows(w, len)
<1>1. \A t \in Scheds : Row(v, t) = << >> /\ v.p[t] = << >> /\ v.b[t] = << >> /\ v.q[t] = << >>
  BY EmptyRows DEF Good
<1>2. \A t \in Scheds : /\ w.p[t] = v.p[t] /\ w.b[t] = v.b[t] /\ w.q[t] = v.q[t]
                        /\ Row(w, t) = Row(v, t)
  BY RowsEqual
<1>3. \A t \in Scheds : w.box[t] = << >>
  <2>1. \A t \in Scheds : w.box[t] = v.box[t]
    BY DEF Elsewhere
  <2> QED BY <2>1 DEF Good, Sides, Started
<1>4. Rows(w, len)
  <2>1. Seg(0, 0) = << >> /\ 0 \in 0 .. 0
    BY SegEmpty
  <2> QED BY <1>1, <1>2, <2>1 DEF Rows
<1> QED BY <1>1, <1>2, <1>3, <1>4

LEMMA JoinStep ==
    ASSUME NEW len \in Nat, NEW h \in Scheds, NEW v, NEW w, Typed(v, len), Typed(w, len), NEW s \in Scheds,
           Joins(v, w, s, h), Good(v, h, len), v.n = 0
    PROVE  Good(w, h, len) /\ (Whole(v, h, len) => Whole(w, h, len))
<1>1. /\ Elsewhere(v, w, s) /\ w.y = v.y /\ w.d = v.d /\ w.n = v.n
      /\ w.p[s] = v.p[s] /\ w.b[s] = v.b[s] /\ w.q[s] = v.q[s] /\ w.box[s] = v.box[s]
      /\ s \in w.mst <=> s \in v.mst \/ s # h
  BY DEF Joins
<1>2. /\ \A t \in Scheds : /\ w.p[t] = << >> /\ w.b[t] = << >> /\ w.q[t] = << >>
                           /\ w.box[t] = << >> /\ Row(w, t) = << >>
      /\ Rows(w, len)
  BY <1>1, NewRows
<1>3. \A t \in Scheds : /\ t \in w.t <=> t \in v.t
                        /\ t \in w.loc <=> t \in v.loc
                        /\ t \in w.sto <=> t \in v.sto
                        /\ t # s => (t \in w.mst <=> t \in v.mst) /\ (t \in w.e <=> t \in v.e)
  BY DEF Joins, Elsewhere
<1>4. w.t = v.t /\ w.loc = v.loc /\ w.sto = v.sto
  BY <1>3 DEF Typed
<1>5. Sides(w, h)
  <2>1. h \notin w.mst
    BY <1>1, <1>3 DEF Good, Sides
  <2> QED BY <1>2, <1>4, <2>1 DEF Good, Sides
<1>6. w.y = << >> /\ w.d = << >>
  BY <1>1 DEF Good, Started
<1>7. Started(w, h) /\ Foreign(w, h) /\ LastOut(w, h, len)
  BY <1>2, <1>6, OnceEmpty DEF Started, Foreign, LastOut
<1>8. ASSUME Whole(v, h, len) PROVE Whole(w, h, len)
  <2>1. Awaited(w, h, len)
    BY <1>1, <1>4, <1>8 DEF Whole, Awaited
  <2>2. Known(w, h)
    BY <1>1, <1>2, <1>3, <1>8 DEF Whole, Known
  <2>3. Streamed(w, h)
    <3>1. \A t \in Scheds : Row(w, t) = Row(v, t)
      BY <1>1, RowsEqual
    <3>2. w.box[h] = v.box[h]
      BY <1>1 DEF Elsewhere
    <3>3. Sent(w, h) = Sent(v, h)
      BY <1>1, <3>2 DEF Sent
    <3> QED BY <1>1, <1>8, <3>1, <3>3, SameStream DEF Whole
  <2> QED BY <2>1, <2>2, <2>3 DEF Whole
<1> QED BY <1>2, <1>5, <1>7, <1>8 DEF Good

LEMMA EnlistStep ==
    ASSUME NEW len \in Nat, NEW h \in Scheds, NEW v, NEW w, Typed(v, len), Typed(w, len),
           Enlists(v, w, h), Good(v, h, len), v.n = 0, v.e = {}
    PROVE  Good(w, h, len) /\ Whole(w, h, len)
<1>1. /\ Elsewhere(v, w, h) /\ w.y = v.y /\ w.d = v.d /\ w.n = v.n /\ h \in w.t
      /\ w.p[h] = v.p[h] /\ w.b[h] = v.b[h] /\ w.q[h] = v.q[h] /\ w.box[h] = v.box[h]
  BY DEF Enlists
<1>2. /\ \A t \in Scheds : /\ w.p[t] = << >> /\ w.b[t] = << >> /\ w.q[t] = << >>
                           /\ w.box[t] = << >> /\ Row(w, t) = << >>
      /\ Rows(w, len)
  BY <1>1, NewRows
<1>3. \A t \in Scheds : /\ t \in w.e <=> t \in v.e
                        /\ t \in w.mst <=> t \in v.mst
                        /\ t \in w.loc <=> t \in v.loc
                        /\ t \in w.sto <=> t \in v.sto
                        /\ t # h => (t \in w.t <=> t \in v.t)
  BY DEF Enlists, Elsewhere
<1>4. w.mst = v.mst /\ w.loc = v.loc /\ w.sto = v.sto /\ w.e = v.e
  BY <1>3 DEF Typed
<1>5. Sides(w, h)
  <2>1. w.t \subseteq {h}
    BY <1>3 DEF Good, Sides, Typed
  <2> QED BY <1>2, <1>4, <2>1 DEF Good, Sides
<1>6. w.y = << >> /\ w.d = << >>
  BY <1>1 DEF Good, Started
<1>7. Started(w, h) /\ Foreign(w, h) /\ LastOut(w, h, len)
  BY <1>2, <1>6, OnceEmpty DEF Started, Foreign, LastOut
<1>8. Known(w, h) /\ Awaited(w, h, len)
  BY <1>1, <1>2, <1>4 DEF Known, Awaited
<1>9. Streamed(w, h)
  <2>1. << >> \o << >> = << >>
    BY JoinFacts, EmptySeq
  <2>2. Seg(0, 0) = << >>
    BY SegEmpty
  <2>3. Sent(w, h) = << >>
    BY <1>2, <1>6, <2>1 DEF Sent
  <2>4. Sent(w, h) \o Row(w, h) = Seg(0, w.n)
    BY <1>1, <1>2, <2>1, <2>2, <2>3
  <2> QED BY <1>2, <2>4 DEF Streamed
<1> QED BY <1>2, <1>5, <1>7, <1>8, <1>9 DEF Good, Whole

(* A reset or a crash of s. *)
Strikes(v, w, s) ==
    /\ Elsewhere(v, w, s) /\ w.d = v.d /\ w.n = v.n
    /\ \/ w.p[s] = v.p[s] /\ w.b[s] = v.b[s] /\ w.q[s] = v.q[s] /\ (s \in w.e <=> s \in v.e)
       \/ w.p[s] = << >> /\ w.b[s] = << >> /\ w.q[s] = << >> /\ s \notin w.e
    /\ w.box[s] = << >> /\ w.y \in {v.y, << >>}
    /\ s \notin w.t /\ s \notin w.mst
    /\ s \in w.loc => s \in v.loc
    /\ s \in w.sto => s \in v.sto

LEMMA StrikeStep ==
    ASSUME NEW len \in Nat, NEW h \in Scheds, NEW v, NEW w, Typed(v, len), Typed(w, len), NEW s \in Scheds,
           Strikes(v, w, s), Good(v, h, len)
    PROVE  /\ Good(w, h, len)
           /\ Whole(v, h, len) /\ s # h /\ s \notin v.e /\ Row(v, s) = << >> /\ w.y = v.y => Whole(w, h, len)
<1>1. /\ Elsewhere(v, w, s) /\ w.d = v.d /\ w.n = v.n /\ w.box[s] = << >> /\ w.y \in {v.y, << >>}
      /\ s \notin w.t /\ s \notin w.mst
  BY DEF Strikes
<1>2. \A t \in Scheds : /\ t \in w.e => t \in v.e
                        /\ t \in w.t => t \in v.t
                        /\ t \in w.mst => t \in v.mst
                        /\ t \in w.loc => t \in v.loc
                        /\ t \in w.sto => t \in v.sto
                        /\ w.box[t] \in {v.box[t], << >>}
                        /\ w.p[t] \in {v.p[t], << >>}
  BY DEF Strikes, Elsewhere
<1>3. w.e \subseteq v.e /\ w.t \subseteq v.t /\ w.mst \subseteq v.mst /\ w.loc \subseteq v.loc /\ w.sto \subseteq v.sto
  BY <1>2 DEF Typed
<1>4. \A t \in Scheds \ {s} : Row(w, t) = Row(v, t) /\ Suffix(Row(w, t), Row(v, t))
  BY <1>1, OtherRows
<1>5. (Row(w, s) = Row(v, s) /\ (s \in v.e => s \in w.e)) \/ Row(w, s) = << >>
  <2>1. CASE w.p[s] = v.p[s] /\ w.b[s] = v.b[s] /\ w.q[s] = v.q[s] /\ (s \in w.e <=> s \in v.e)
    BY <2>1 DEF Row
  <2>2. CASE w.p[s] = << >> /\ w.b[s] = << >> /\ w.q[s] = << >>
    BY <2>2, RowFacts
  <2> QED BY <2>1, <2>2 DEF Strikes
<1>6. Suffix(Row(w, s), Row(v, s))
  <2>1. Row(v, s) \in Seq(Nat)
    BY RowFacts
  <2> QED BY <1>5, <2>1, SuffixSame
<1>7. \A t \in Scheds \ {s} : t \in v.e => t \in w.e
  BY <1>1 DEF Elsewhere
<1>8. Rows(w, len)
  BY <1>1, <1>3, <1>4, <1>5, <1>6, <1>7, RowsShrink DEF Good
<1>9. \A t \in Scheds : Row(v, t) = << >> => Row(w, t) = << >>
  BY <1>4, <1>5
<1>10. Sides(w, h)
  BY <1>2, <1>3 DEF Good, Sides
<1>11. Started(w, h)
  BY <1>1, <1>2 DEF Good, Started
<1>12. Foreign(w, h)
  BY <1>1, <1>3, <1>9 DEF Good, Foreign
<1>13. LastOut(w, h, len)
  BY <1>1, <1>2, <1>9, OnceEmpty DEF Good, LastOut
<1>14. ASSUME Whole(v, h, len), s # h, s \notin v.e, Row(v, s) = << >>, w.y = v.y PROVE Whole(w, h, len)
  <2>1. \A t \in Scheds \ {s} : /\ w.b[t] = v.b[t] /\ w.q[t] = v.q[t] /\ w.box[t] = v.box[t]
                                /\ t \in w.t <=> t \in v.t
                                /\ t \in w.mst <=> t \in v.mst
                                /\ t \in w.loc <=> t \in v.loc
                                /\ t \in w.sto <=> t \in v.sto
    BY <1>1 DEF Elsewhere
  <2>2. Row(w, s) = << >> /\ w.b[s] = << >> /\ w.q[s] = << >> /\ s \notin w.e
    <3>1. Row(w, s) = << >>
      BY <1>9, <1>14
    <3> QED BY <1>3, <1>14, <3>1, RowFacts
  <2>3. Known(w, h)
    BY <1>3, <1>14, <2>1, <2>2 DEF Whole, Known
  <2>4. Awaited(w, h, len)
    BY <1>1, <1>14, <2>1 DEF Whole, Awaited
  <2>5. Streamed(w, h)
    <3>1. \A t \in Scheds : Row(w, t) = Row(v, t)
      BY <1>4, <1>14, <2>2
    <3>2. Sent(w, h) = Sent(v, h)
      BY <1>1, <1>14, <2>1 DEF Sent
    <3> QED BY <1>1, <1>14, <3>1, <3>2, SameStream DEF Whole
  <2> QED BY <2>3, <2>4, <2>5 DEF Whole
<1> QED BY <1>8, <1>10, <1>11, <1>12, <1>13, <1>14 DEF Good

(* ApplyBatch that raises: the batch is lost. *)
Drops(v, w, s) ==
    /\ Elsewhere(v, w, s) /\ SameSets(v, w, s) /\ w.y = v.y /\ w.d = v.d /\ w.n = v.n
    /\ v.p[s] = << >> /\ w.p[s] = << >> /\ w.b[s] = << >> /\ w.q[s] = v.q[s] /\ w.box[s] = v.box[s]

LEMMA DropStep ==
    ASSUME NEW len \in Nat, NEW h \in Scheds, NEW v, NEW w, Typed(v, len), Typed(w, len), NEW s \in Scheds,
           Drops(v, w, s), Good(v, h, len)
    PROVE  Good(w, h, len) /\ (Whole(v, h, len) /\ v.b[s] = << >> => Whole(w, h, len))
<1>1. /\ Elsewhere(v, w, s) /\ SameSets(v, w, s) /\ w.y = v.y /\ w.d = v.d /\ w.n = v.n
      /\ v.p[s] = << >> /\ w.p[s] = << >> /\ w.b[s] = << >> /\ w.q[s] = v.q[s] /\ w.box[s] = v.box[s]
  BY DEF Drops
<1>2. w.e = v.e /\ w.t = v.t /\ w.mst = v.mst /\ w.loc = v.loc /\ w.sto = v.sto
  BY <1>1, SetsEqual
<1>3. \A t \in Scheds : /\ w.p[t] = v.p[t] /\ w.q[t] = v.q[t] /\ w.box[t] = v.box[t]
                        /\ t # s => w.b[t] = v.b[t]
  BY <1>1 DEF Elsewhere
<1>4. \A t \in Scheds \ {s} : Row(w, t) = Row(v, t) /\ Suffix(Row(w, t), Row(v, t))
  BY <1>1, OtherRows
<1>5. v.q[s] \in Seq(Nat) /\ v.b[s] \in Seq(Nat) /\ (Row(v, s) = << >> => v.q[s] = << >>)
      /\ (v.b[s] = << >> => Row(v, s) = v.q[s])
  BY <1>1, RowFacts
<1>6. Row(w, s) = v.q[s]
  <2>1. Row(w, s) = w.q[s]
    BY <1>1, RowFacts
  <2> QED BY <1>1, <2>1
<1>7. Suffix(Row(w, s), Row(v, s))
  <2>1. IsJoin(Row(v, s), v.b[s], v.q[s])
    BY <1>1, RowWithout
  <2> QED BY <1>5, <1>6, <2>1 DEF Suffix, IsJoin
<1>8. Rows(w, len)
  BY <1>1, <1>2, <1>4, <1>7, RowsShrink DEF Good
<1>9. \A t \in Scheds : Row(v, t) = << >> => Row(w, t) = << >>
  BY <1>4, <1>5, <1>6
<1>10. Sides(w, h) /\ Started(w, h)
  BY <1>1, <1>2, <1>3 DEF Good, Sides, Started
<1>11. Foreign(w, h) /\ LastOut(w, h, len)
  BY <1>1, <1>2, <1>3, <1>9 DEF Good, Foreign, LastOut
<1>12. ASSUME Whole(v, h, len), v.b[s] = << >> PROVE Whole(w, h, len)
  <2>1. Known(w, h) /\ Awaited(w, h, len)
    BY <1>1, <1>2, <1>3, <1>12 DEF Whole, Known, Awaited
  <2>2. \A t \in Scheds : Row(w, t) = Row(v, t)
    BY <1>4, <1>5, <1>6, <1>12
  <2>3. Sent(w, h) = Sent(v, h)
    BY <1>1, <1>3 DEF Sent
  <2>4. Streamed(w, h)
    BY <1>1, <1>12, <2>2, <2>3, SameStream DEF Whole
  <2> QED BY <2>1, <2>4 DEF Whole
<1> QED BY <1>8, <1>10, <1>11, <1>12 DEF Good

-----------------------------------------------------------------------------
(* The view of a request in a state. *)
ViewOf(o, m, rq, en, em, de, r) ==
    [p |-> [s \in Scheds |-> Nums(o[s].pushing, r)], b |-> [s \in Scheds |-> Nums(o[s].batch, r)],
     q |-> [s \in Scheds |-> Nums(o[s].results, r)], box |-> [s \in Scheds |-> Nums(m[s].responses, r)],
     y |-> Nums(rq[Home[r]], r), d |-> de[r], n |-> em[r],
     e |-> {s \in Scheds : r \in en[s]}, t |-> {s \in Scheds : r \in m[s].tracked},
     mst |-> {s \in Scheds : r \in m[s].stolen},
     loc |-> {s \in Scheds : r \in o[s].local}, sto |-> {s \in Scheds : r \in o[s].stolen}]

Shows(v, o, m, rq, en, em, de, r) ==
    /\ v.y = Nums(rq[Home[r]], r) /\ v.d = de[r] /\ v.n = em[r]
    /\ \A s \in Scheds : /\ v.p[s] = Nums(o[s].pushing, r) /\ v.b[s] = Nums(o[s].batch, r)
                         /\ v.q[s] = Nums(o[s].results, r) /\ v.box[s] = Nums(m[s].responses, r)
                         /\ s \in v.e <=> r \in en[s]
                         /\ s \in v.t <=> r \in m[s].tracked
                         /\ s \in v.mst <=> r \in m[s].stolen
                         /\ s \in v.loc <=> r \in o[s].local
                         /\ s \in v.sto <=> r \in o[s].stolen

LEMMA ViewShows ==
    ASSUME NEW o, NEW m, NEW rq, NEW en, NEW em, NEW de, NEW r
    PROVE  Shows(ViewOf(o, m, rq, en, em, de, r), o, m, rq, en, em, de, r)
  BY DEF ViewOf, Shows

StateTypes(o, m, rq, en, em, de) ==
    /\ o \in [Scheds -> OutState] /\ m \in [Scheds -> MemState] /\ rq \in [Scheds -> Seq(Response)]
    /\ en \in [Scheds -> SUBSET Reqs] /\ em \in [Reqs -> Nat] /\ de \in [Reqs -> Seq(Nat)]
    /\ \A r \in Reqs : em[r] <= Length[r]

LEMMA ViewTyped ==
    ASSUME NEW o, NEW m, NEW rq, NEW en, NEW em, NEW de, StateTypes(o, m, rq, en, em, de), NEW r \in Reqs
    PROVE  Typed(ViewOf(o, m, rq, en, em, de, r), Length[r])
<1>1. \A s \in Scheds : /\ o[s].pushing \in Seq(Response) /\ o[s].batch \in Seq(Response)
                        /\ o[s].results \in Seq(Response) /\ m[s].responses \in Seq(Response)
                        /\ rq[s] \in Seq(Response)
  BY DEF StateTypes, OutState, MemState
<1>2. \A s \in Scheds : /\ Nums(o[s].pushing, r) \in Seq(Nat) /\ Nums(o[s].batch, r) \in Seq(Nat)
                        /\ Nums(o[s].results, r) \in Seq(Nat) /\ Nums(m[s].responses, r) \in Seq(Nat)
                        /\ Nums(rq[s], r) \in Seq(Nat)
  BY <1>1, NumsType
<1>3. Home[r] \in Scheds
  BY LengthType
<1>4. em[r] \in Nat /\ em[r] <= Length[r] /\ de[r] \in Seq(Nat)
  BY DEF StateTypes
<1> DEFINE v == ViewOf(o, m, rq, en, em, de, r)
<1>5. /\ v.p = [s \in Scheds |-> Nums(o[s].pushing, r)] /\ v.b = [s \in Scheds |-> Nums(o[s].batch, r)]
      /\ v.q = [s \in Scheds |-> Nums(o[s].results, r)] /\ v.box = [s \in Scheds |-> Nums(m[s].responses, r)]
      /\ v.y = Nums(rq[Home[r]], r) /\ v.d = de[r] /\ v.n = em[r]
  BY DEF ViewOf
<1>6. /\ v.e \subseteq Scheds /\ v.t \subseteq Scheds /\ v.mst \subseteq Scheds
      /\ v.loc \subseteq Scheds /\ v.sto \subseteq Scheds
  BY DEF ViewOf
<1> HIDE DEF v
<1>7. /\ v.p \in [Scheds -> Seq(Nat)] /\ v.b \in [Scheds -> Seq(Nat)] /\ v.q \in [Scheds -> Seq(Nat)]
      /\ v.box \in [Scheds -> Seq(Nat)]
  BY <1>2, <1>5
<1>8. Typed(v, Length[r])
  BY <1>2, <1>3, <1>4, <1>5, <1>6, <1>7 DEF Typed
<1> QED BY <1>8 DEF v

LEMMA ViewElsewhere ==
    ASSUME NEW o, NEW m, NEW rq, NEW en, NEW em, NEW de, NEW oo, NEW mm, NEW rr, NEW ee, NEW mt, NEW dd,
           NEW v, NEW w, NEW r, NEW s,
           Shows(v, o, m, rq, en, em, de, r), Shows(w, oo, mm, rr, ee, mt, dd, r),
           \A t \in Scheds \ {s} : oo[t] = o[t] /\ mm[t] = m[t] /\ ee[t] = en[t]
    PROVE  Elsewhere(v, w, s)
  BY DEF Shows, Elsewhere

View(r) == ViewOf(out, mem, resp_queue, engine, emitted, delivered, r)
LostBatch(o, tracked, bad) ==
    (\E r \in o.local \ tracked : Nums(o.batch, r) # << >>) =>
        \A r \in Reqs : Nums(o.batch, r) # << >> => r \in bad
Batches(o, m, bad) ==
    \A s \in Scheds : /\ o[s].pushing # << >> => o[s].batch = << >>
                      /\ LostBatch(o[s], m[s].tracked, bad)
Views == /\ \A r \in Reqs : Good(View(r), Home[r], Length[r])
         /\ \A r \in begun \ hurt : Whole(View(r), Home[r], Length[r])
StreamInv == Views /\ Batches(out, mem, hurt)

NextView(r) == ViewOf(out', mem', resp_queue', engine', emitted', delivered', r)

LEMMA NextViews ==
    ASSUME \A r \in Reqs : Good(NextView(r), Home[r], Length[r]),
           \A r \in begun' \ hurt' : Whole(NextView(r), Home[r], Length[r])
    PROVE  Views'
  BY DEF Views, View, NextView

LEMMA BothViews ==
    ASSUME TypeOK, TypeOK'
    PROVE  \A r \in Reqs : /\ Typed(View(r), Length[r]) /\ Typed(NextView(r), Length[r])
                           /\ Home[r] \in Scheds /\ Length[r] \in Nat
<1>1. StateTypes(out, mem, resp_queue, engine, emitted, delivered)
  BY DEF TypeOK, StateTypes
<1>2. StateTypes(out', mem', resp_queue', engine', emitted', delivered')
  BY DEF TypeOK, StateTypes
<1> QED BY <1>1, <1>2, ViewTyped, LengthType DEF View, NextView

LEMMA ViewsShow ==
    ASSUME NEW r
    PROVE  /\ Shows(View(r), out, mem, resp_queue, engine, emitted, delivered, r)
           /\ Shows(NextView(r), out', mem', resp_queue', engine', emitted', delivered', r)
  BY ViewShows DEF View, NextView

LEMMA StepElsewhere ==
    ASSUME NEW s, NEW r, \A t \in Scheds \ {s} : out'[t] = out[t] /\ mem'[t] = mem[t] /\ engine'[t] = engine[t]
    PROVE  Elsewhere(View(r), NextView(r), s)
<1>1. /\ Shows(View(r), out, mem, resp_queue, engine, emitted, delivered, r)
      /\ Shows(NextView(r), out', mem', resp_queue', engine', emitted', delivered', r)
  BY ViewsShow
<1> QED BY <1>1, ViewElsewhere

(* _put_results_worker takes a batch. *)
LEMMA TakeStreams ==
    ASSUME TypeOK, TypeOK', StreamInv, NEW s \in Scheds, TakeBatch(s)
    PROVE  StreamInv'
<1>1. /\ out[s].batch = << >> /\ out[s].pushing = << >>
      /\ out' = [out EXCEPT ![s] = [@ EXCEPT !.results = << >>, !.batch = out[s].results,
                                             !.local = mem[s].tracked, !.stolen = mem[s].stolen]]
      /\ UNCHANGED <<resp_queue, mem, engine, emitted, delivered, begun, hurt>>
      /\ out \in [Scheds -> OutState] /\ out[s] \in OutState
  BY DEF TakeBatch, TypeOK, redis, faults
<1>2. /\ out'[s].results = << >> /\ out'[s].batch = out[s].results /\ out'[s].pushing = << >>
      /\ out'[s].local = mem[s].tracked /\ out'[s].stolen = mem[s].stolen
      /\ \A t \in Scheds \ {s} : out'[t] = out[t]
  BY <1>1 DEF OutState
<1>3. ASSUME NEW r \in Reqs PROVE Takes(View(r), NextView(r), s)
  <2>1. Elsewhere(View(r), NextView(r), s)
    BY <1>1, <1>2, StepElsewhere
  <2>2. /\ Shows(View(r), out, mem, resp_queue, engine, emitted, delivered, r)
        /\ Shows(NextView(r), out', mem', resp_queue', engine', emitted', delivered', r)
    BY ViewsShow
  <2>3. Nums(<< >>, r) = << >>
    BY NumsEmpty
  <2> QED BY <1>1, <1>2, <2>1, <2>2, <2>3 DEF Takes, Shows
<1>4. ASSUME NEW r \in Reqs
      PROVE  /\ Good(NextView(r), Home[r], Length[r])
             /\ r \in begun \ hurt => Whole(NextView(r), Home[r], Length[r])
  BY <1>3, BothViews, TakeStep DEF StreamInv, Views
<1>5. Views'
  <2>1. begun \subseteq Reqs
    BY DEF TypeOK
  <2> QED BY <1>1, <1>4, <2>1, NextViews
<1>6. Batches(out', mem', hurt')
  <2>1. \A t \in Scheds \ {s} : out'[t] = out[t] /\ mem'[t] = mem[t]
    BY <1>1, <1>2
  <2>2. LostBatch(out'[s], mem'[s].tracked, hurt')
    BY <1>1, <1>2 DEF LostBatch
  <2> QED BY <1>1, <1>2, <2>1, <2>2 DEF StreamInv, Batches
<1> QED BY <1>5, <1>6 DEF StreamInv

LEMMA FinishedNums ==
    ASSUME NEW a \in Seq(Response), NEW r \in Reqs
    PROVE  r \in Finished(a) <=> Length[r] \in Range(Nums(a, r))
<1>1. Length[r] \in Range(Nums(a, r)) <=> \E i \in DOMAIN a : a[i] = [req |-> r, n |-> Length[r]]
  BY NumsSome
<1> QED BY <1>1 DEF Finished

LEMMA NoBatchLost ==
    ASSUME NEW o, NEW tracked, NEW bad, o.batch = << >>
    PROVE  LostBatch(o, tracked, bad)
  BY NumsEmpty DEF LostBatch

(* A batch with a request that is no longer tracked raises: what is lost with *)
(* it belongs to requests that a fault had struck before.                     *)
LEMMA RaiseStreams ==
    ASSUME TypeOK, TypeOK', StreamInv, NEW s \in Scheds, out[s].batch # << >>,
           NEW i \in DOMAIN Of(out[s].batch, out[s].local),
           Of(out[s].batch, out[s].local)[i].req \notin mem[s].tracked,
           out' = [out EXCEPT ![s].batch = << >>],
           UNCHANGED <<mem, resp_queue, engine, emitted, delivered, begun, hurt>>
    PROVE  StreamInv'
<1>1. out \in [Scheds -> OutState] /\ out[s] \in OutState /\ out[s].batch \in Seq(Response)
  BY DEF TypeOK, OutState
<1>2. /\ out'[s].results = out[s].results /\ out'[s].batch = << >> /\ out'[s].pushing = out[s].pushing
      /\ out'[s].local = out[s].local /\ out'[s].stolen = out[s].stolen
      /\ \A t \in Scheds \ {s} : out'[t] = out[t]
  BY <1>1 DEF OutState
<1>3. out[s].pushing = << >>
  BY DEF StreamInv, Batches
<1> DEFINE mine == Of(out[s].batch, out[s].local)
           x == mine[i].req
<1>4. mine \in Seq(Response) /\ x \in Reqs
  <2>1. mine \in Seq(Response)
    BY <1>1, OfType
  <2>2. mine[i] \in Response
    BY <2>1, ElementOfSeq
  <2> QED BY <2>1, <2>2, ResponseOf
<1>5. Nums(mine, x) # << >>
  BY <1>4, NumsSome
<1>6. x \in out[s].local /\ Nums(out[s].batch, x) # << >>
  BY <1>1, <1>5, NumsOf
<1>7. \A r \in Reqs : Nums(out[s].batch, r) # << >> => r \in hurt
  BY <1>6 DEF StreamInv, Batches, LostBatch
<1> HIDE DEF mine, x
<1>8. ASSUME NEW r \in Reqs
      PROVE  Drops(View(r), NextView(r), s) /\ (r \notin hurt => View(r).b[s] = << >>)
  <2>1. Elsewhere(View(r), NextView(r), s)
    BY <1>2, StepElsewhere
  <2>2. /\ Shows(View(r), out, mem, resp_queue, engine, emitted, delivered, r)
        /\ Shows(NextView(r), out', mem', resp_queue', engine', emitted', delivered', r)
    BY ViewsShow
  <2>3. Nums(<< >>, r) = << >>
    BY NumsEmpty
  <2>4. SameSets(View(r), NextView(r), s)
    BY <1>2, <2>2 DEF SameSets, Shows
  <2> QED BY <1>2, <1>3, <1>7, <2>1, <2>2, <2>3, <2>4 DEF Drops, Shows
<1>9. ASSUME NEW r \in Reqs
      PROVE  /\ Good(NextView(r), Home[r], Length[r])
             /\ r \in begun \ hurt => Whole(NextView(r), Home[r], Length[r])
  BY <1>8, BothViews, DropStep DEF StreamInv, Views
<1>10. Views'
  <2>1. begun \subseteq Reqs
    BY DEF TypeOK
  <2> QED BY <1>9, <2>1, NextViews
<1>11. Batches(out', mem', hurt')
  <2>1. LostBatch(out'[s], mem'[s].tracked, hurt')
    BY <1>2, NoBatchLost
  <2> QED BY <1>2, <2>1 DEF StreamInv, Batches
<1> QED BY <1>10, <1>11 DEF StreamInv

(* A batch that is applied. *)
LEMMA AppliedStreams ==
    ASSUME TypeOK, TypeOK', EngineOpen, StreamInv, NEW s \in Scheds, out[s].batch # << >>,
           mem' = [mem EXCEPT ![s].responses = @ \o Of(out[s].batch, out[s].local),
                              ![s].stolen = @ \ Finished(out[s].batch)],
           out' = [out EXCEPT ![s].batch = << >>,
                              ![s].pushing = Of(out[s].batch, out[s].stolen \ out[s].local)],
           UNCHANGED <<resp_queue, engine, emitted, delivered, begun, hurt>>
    PROVE  StreamInv'
<1> DEFINE a == out[s].batch
           mine == Of(a, out[s].local)
           theirs == Of(a, out[s].stolen \ out[s].local)
           fin == Finished(a)
<1>1. /\ out \in [Scheds -> OutState] /\ out[s] \in OutState /\ a \in Seq(Response)
      /\ mem \in [Scheds -> MemState] /\ mem[s] \in MemState /\ mem[s].responses \in Seq(Response)
  BY DEF TypeOK, OutState, MemState
<1>2. /\ out' = [out EXCEPT ![s] = [out[s] EXCEPT !.batch = << >>, !.pushing = theirs]]
      /\ mem' = [mem EXCEPT ![s] = [mem[s] EXCEPT !.responses = mem[s].responses \o mine,
                                                  !.stolen = mem[s].stolen \ fin]]
  OBVIOUS
<1>3. out[s].pushing = << >> /\ mine \in Seq(Response)
  BY <1>1, OfType DEF StreamInv, Batches
<1>a. ASSUME NEW r \in Reqs
      PROVE  /\ Nums(mine, r) = IF r \in out[s].local THEN Nums(a, r) ELSE << >>
             /\ Nums(theirs, r) = IF r \in out[s].stolen /\ r \notin out[s].local THEN Nums(a, r) ELSE << >>
             /\ Nums(mem[s].responses \o mine, r) = Nums(mem[s].responses, r) \o Nums(mine, r)
             /\ Nums(mem[s].responses, r) \in Seq(Nat)
             /\ r \in fin <=> Length[r] \in Range(Nums(a, r))
  <2>1. Nums(mine, r) = IF r \in out[s].local THEN Nums(a, r) ELSE << >>
    BY <1>1, NumsOf
  <2>2. Nums(theirs, r) = IF r \in out[s].stolen \ out[s].local THEN Nums(a, r) ELSE << >>
    BY <1>1, NumsOf
  <2>3. Nums(mem[s].responses \o mine, r) = Nums(mem[s].responses, r) \o Nums(mine, r)
    <3> HIDE DEF mine
    <3> QED BY <1>1, <1>3, NumsConcat
  <2>4. r \in fin <=> Length[r] \in Range(Nums(a, r))
    BY <1>1, FinishedNums
  <2>5. Nums(mem[s].responses, r) \in Seq(Nat)
    BY <1>1, NumsType
  <2> QED BY <2>1, <2>2, <2>3, <2>4, <2>5
<1> DEFINE resp == mem[s].responses \o mine
<1>b. /\ out' = [out EXCEPT ![s] = [out[s] EXCEPT !.batch = << >>, !.pushing = theirs]]
      /\ mem' = [mem EXCEPT ![s] = [mem[s] EXCEPT !.responses = resp, !.stolen = mem[s].stolen \ fin]]
  BY <1>2
<1> HIDE DEF mine, theirs, fin, resp
<1>4. /\ out'[s].results = out[s].results /\ out'[s].batch = << >> /\ out'[s].pushing = theirs
      /\ out'[s].local = out[s].local /\ out'[s].stolen = out[s].stolen
      /\ \A t \in Scheds \ {s} : out'[t] = out[t]
  <2> DEFINE g == [out[s] EXCEPT !.batch = << >>, !.pushing = theirs]
  <2>1. out'[s] = g /\ \A t \in Scheds \ {s} : out'[t] = out[t]
    BY <1>1, <1>b
  <2>2. /\ g.results = out[s].results /\ g.batch = << >> /\ g.pushing = theirs
        /\ g.local = out[s].local /\ g.stolen = out[s].stolen
    BY <1>1 DEF OutState
  <2> HIDE DEF g
  <2> QED BY <2>1, <2>2
<1>5. /\ mem'[s].responses = resp /\ mem'[s].tracked = mem[s].tracked
      /\ mem'[s].stolen = mem[s].stolen \ fin
      /\ \A t \in Scheds \ {s} : mem'[t] = mem[t]
  <2> DEFINE g == [mem[s] EXCEPT !.responses = resp, !.stolen = mem[s].stolen \ fin]
  <2>1. mem'[s] = g /\ \A t \in Scheds \ {s} : mem'[t] = mem[t]
    BY <1>1, <1>b
  <2>2. g.responses = resp /\ g.tracked = mem[s].tracked /\ g.stolen = mem[s].stolen \ fin
    BY <1>1 DEF MemState
  <2> HIDE DEF g
  <2> QED BY <2>1, <2>2
<1>8. ASSUME NEW r \in Reqs PROVE Applies(View(r), NextView(r), s, Length[r])
  <2>1. Elsewhere(View(r), NextView(r), s)
    BY <1>4, <1>5, StepElsewhere
  <2>2. /\ Shows(View(r), out, mem, resp_queue, engine, emitted, delivered, r)
        /\ Shows(NextView(r), out', mem', resp_queue', engine', emitted', delivered', r)
    BY ViewsShow
  <2>3. Nums(<< >>, r) = << >>
    BY NumsEmpty
  <2> DEFINE v == View(r)
             w == NextView(r)
  <2>4. /\ v.y = Nums(resp_queue[Home[r]], r) /\ v.d = delivered[r] /\ v.n = emitted[r]
        /\ v.p[s] = Nums(out[s].pushing, r) /\ v.b[s] = Nums(a, r)
        /\ v.q[s] = Nums(out[s].results, r) /\ v.box[s] = Nums(mem[s].responses, r)
        /\ s \in v.e <=> r \in engine[s]
        /\ s \in v.t <=> r \in mem[s].tracked
        /\ s \in v.mst <=> r \in mem[s].stolen
        /\ s \in v.loc <=> r \in out[s].local
        /\ s \in v.sto <=> r \in out[s].stolen
    BY <2>2 DEF Shows
  <2>5. /\ w.y = Nums(resp_queue[Home[r]], r) /\ w.d = delivered[r] /\ w.n = emitted[r]
        /\ w.p[s] = Nums(theirs, r) /\ w.b[s] = Nums(<< >>, r)
        /\ w.q[s] = Nums(out[s].results, r) /\ w.box[s] = Nums(resp, r)
        /\ s \in w.e <=> r \in engine[s]
        /\ s \in w.t <=> r \in mem[s].tracked
        /\ s \in w.mst <=> r \in mem[s].stolen \ fin
        /\ s \in w.loc <=> r \in out[s].local
        /\ s \in w.sto <=> r \in out[s].stolen
    BY <1>4, <1>5, <2>2 DEF Shows
  <2> HIDE DEF v, w
  <2>6. w.p[s] = IF s \in v.sto /\ s \notin v.loc THEN v.b[s] ELSE << >>
    BY <1>a, <2>4, <2>5
  <2>7. w.box[s] = IF s \in v.loc THEN v.box[s] \o v.b[s] ELSE v.box[s]
    <3>1. v.box[s] \in Seq(Nat) /\ w.box[s] = v.box[s] \o Nums(mine, r)
      BY <1>a, <2>4, <2>5 DEF resp
    <3>2. v.box[s] \o << >> = v.box[s]
      BY <3>1, JoinFacts
    <3>3. CASE s \in v.loc
      BY <1>a, <2>4, <3>1, <3>3
    <3>4. CASE s \notin v.loc
      BY <1>a, <2>4, <3>1, <3>2, <3>4
    <3> QED BY <3>3, <3>4
  <2>8. s \in w.mst <=> s \in v.mst /\ Length[r] \notin Range(v.b[s])
    BY <1>a, <2>4, <2>5
  <2>9. Elsewhere(v, w, s)
    BY <2>1 DEF v, w
  <2>10. Applies(v, w, s, Length[r])
    BY <1>3, <2>3, <2>4, <2>5, <2>6, <2>7, <2>8, <2>9 DEF Applies
  <2> QED BY <2>10 DEF v, w
<1>9. ASSUME NEW r \in Reqs
      PROVE  /\ Good(NextView(r), Home[r], Length[r])
             /\ r \in begun \ hurt => Whole(NextView(r), Home[r], Length[r])
  <2>1. s \in View(r).e => View(r).n # Length[r]
    <3>1. Shows(View(r), out, mem, resp_queue, engine, emitted, delivered, r)
      BY ViewsShow
    <3> QED BY <3>1 DEF Shows, EngineOpen
  <2> QED BY <1>8, <2>1, BothViews, ApplyStep DEF StreamInv, Views
<1>10. Views'
  <2>1. begun \subseteq Reqs
    BY DEF TypeOK
  <2> QED BY <1>9, <2>1, NextViews
<1>11. Batches(out', mem', hurt')
  <2>1. LostBatch(out'[s], mem'[s].tracked, hurt')
    BY <1>4, NoBatchLost
  <2> QED BY <1>4, <1>5, <2>1 DEF StreamInv, Batches
<1> QED BY <1>10, <1>11 DEF StreamInv

LEMMA ApplyStreams ==
    ASSUME TypeOK, TypeOK', EngineOpen, StreamInv, NEW s \in Scheds, ApplyBatch(s)
    PROVE  StreamInv'
<1> DEFINE mine == Of(out[s].batch, out[s].local)
           raises == \E i \in DOMAIN mine : mine[i].req \notin mem[s].tracked
<1>0. UNCHANGED <<resp_queue, engine, emitted, delivered, begun, hurt>> /\ out[s].batch # << >>
  BY DEF ApplyBatch, redis, faults
<1>1. CASE raises
  <2>1. out' = [out EXCEPT ![s].batch = << >>] /\ UNCHANGED mem
    BY <1>1 DEF ApplyBatch
  <2> QED BY <1>0, <1>1, <2>1, RaiseStreams
<1>2. CASE ~raises
  <2>1. /\ mem' = [mem EXCEPT ![s].responses = @ \o mine, ![s].stolen = @ \ Finished(out[s].batch)]
        /\ out' = [out EXCEPT ![s].batch = << >>,
                              ![s].pushing = Of(out[s].batch, out[s].stolen \ out[s].local)]
    BY <1>2 DEF ApplyBatch
  <2> QED BY <1>0, <2>1, AppliedStreams
<1> QED BY <1>1, <1>2

(* A request that a step does not touch. *)
Untouched(v, w, s) ==
    /\ Elsewhere(v, w, s) /\ SameSets(v, w, s) /\ w.y = v.y /\ w.d = v.d /\ w.n = v.n
    /\ w.p[s] = v.p[s] /\ w.b[s] = v.b[s] /\ w.q[s] = v.q[s] /\ w.box[s] = v.box[s]

LEMMA UntouchedStep ==
    ASSUME NEW len \in Nat, NEW h \in Scheds, NEW v, NEW w, Typed(v, len), Typed(w, len), NEW s,
           Untouched(v, w, s), Good(v, h, len)
    PROVE  Good(w, h, len) /\ (Whole(v, h, len) => Whole(w, h, len))
<1>1. /\ Elsewhere(v, w, s) /\ SameSets(v, w, s) /\ w.y = v.y /\ w.d = v.d /\ w.n = v.n
      /\ w.p[s] = v.p[s] /\ w.b[s] = v.b[s] /\ w.q[s] = v.q[s] /\ w.box[s] = v.box[s]
  BY DEF Untouched
<1>2. w.e = v.e /\ w.t = v.t /\ w.mst = v.mst /\ w.loc = v.loc /\ w.sto = v.sto
  BY <1>1, SetsEqual
<1>3. \A t \in Scheds : /\ w.p[t] = v.p[t] /\ w.b[t] = v.b[t] /\ w.q[t] = v.q[t]
                        /\ Row(w, t) = Row(v, t)
  BY <1>1, RowsEqual
<1>4. \A t \in Scheds : w.box[t] = v.box[t]
  BY <1>1 DEF Elsewhere
<1>5. Rows(w, len)
  BY <1>1, <1>2, <1>3 DEF Good, Rows
<1>6. Sides(w, h) /\ Started(w, h)
  BY <1>1, <1>2, <1>3, <1>4 DEF Good, Sides, Started
<1>7. Foreign(w, h) /\ LastOut(w, h, len)
  BY <1>1, <1>2, <1>3, <1>4 DEF Good, Foreign, LastOut
<1>8. ASSUME Whole(v, h, len) PROVE Whole(w, h, len)
  <2>1. Known(w, h) /\ Awaited(w, h, len)
    BY <1>1, <1>2, <1>3, <1>8 DEF Whole, Known, Awaited
  <2>2. Sent(w, h) = Sent(v, h)
    BY <1>1, <1>4 DEF Sent
  <2>3. Streamed(w, h)
    BY <1>1, <1>3, <1>8, <2>2, SameStream DEF Whole
  <2> QED BY <2>1, <2>3 DEF Whole
<1> QED BY <1>5, <1>6, <1>7, <1>8 DEF Good

(* The rpush to one home. *)
LEMMA PushStreams ==
    ASSUME TypeOK, TypeOK', StreamInv, NEW s \in Scheds, NEW h \in Scheds, PushStolen(s, h)
    PROVE  StreamInv'
<1> DEFINE there == {r \in Reqs : Home[r] = h}
           a == out[s].pushing
           go == Of(a, there)
           stay == Of(a, Reqs \ there)
           new == resp_queue[h] \o go
<1>1. /\ out \in [Scheds -> OutState] /\ out[s] \in OutState /\ a \in Seq(Response)
      /\ resp_queue \in [Scheds -> Seq(Response)] /\ resp_queue[h] \in Seq(Response)
      /\ go \in Seq(Response)
  BY OfType DEF TypeOK, OutState
<1>2. /\ out' = [out EXCEPT ![s] = [out[s] EXCEPT !.pushing = stay]]
      /\ resp_queue' = [resp_queue EXCEPT ![h] = new]
      /\ UNCHANGED <<mem, engine, emitted, delivered, begun, hurt>> /\ go # << >>
  BY DEF PushStolen, faults
<1>3. out[s].batch = << >>
  <2>1. a # << >>
    BY <1>2, KeptEmpty DEF Of
  <2> QED BY <2>1 DEF StreamInv, Batches
<1>a. ASSUME NEW r \in Reqs
      PROVE  /\ Nums(go, r) = IF Home[r] = h THEN Nums(a, r) ELSE << >>
             /\ Nums(stay, r) = IF Home[r] = h THEN << >> ELSE Nums(a, r)
             /\ IsJoin(Nums(new, r), Nums(resp_queue[h], r), Nums(go, r))
  <2>1. Nums(go, r) = IF r \in there THEN Nums(a, r) ELSE << >>
    BY <1>1, NumsOf
  <2>2. Nums(stay, r) = IF r \in Reqs \ there THEN Nums(a, r) ELSE << >>
    BY <1>1, NumsOf
  <2>3. IsJoin(Nums(new, r), Nums(resp_queue[h], r), Nums(go, r))
    <3> HIDE DEF go
    <3> QED BY <1>1, NumsConcat, SMTT(20) DEF IsJoin
  <2> QED BY <2>1, <2>2, <2>3
<1> HIDE DEF there, go, stay, new
<1>4. /\ out'[s].results = out[s].results /\ out'[s].batch = out[s].batch /\ out'[s].pushing = stay
      /\ out'[s].local = out[s].local /\ out'[s].stolen = out[s].stolen
      /\ \A t \in Scheds \ {s} : out'[t] = out[t]
  BY <1>1, <1>2 DEF OutState
<1>5. resp_queue'[h] = new /\ \A t \in Scheds \ {h} : resp_queue'[t] = resp_queue[t]
  BY <1>1, <1>2
<1>6. ASSUME NEW r \in Reqs
      PROVE  IF Home[r] = h THEN Pushes(View(r), NextView(r), s) ELSE Untouched(View(r), NextView(r), s)
  <2>1. Elsewhere(View(r), NextView(r), s)
    BY <1>2, <1>4, StepElsewhere
  <2>2. /\ Shows(View(r), out, mem, resp_queue, engine, emitted, delivered, r)
        /\ Shows(NextView(r), out', mem', resp_queue', engine', emitted', delivered', r)
    BY ViewsShow
  <2>3. SameSets(View(r), NextView(r), s)
    BY <1>2, <1>4, <2>2 DEF SameSets, Shows
  <2>4. Home[r] \in Scheds
    BY LengthType
  <2>5. CASE Home[r] = h
    <3>1. NextView(r).y = View(r).y \o View(r).p[s]
      <4>1. NextView(r).y = Nums(new, r) /\ View(r).y = Nums(resp_queue[h], r) /\ View(r).p[s] = Nums(go, r)
        BY <1>5, <1>a, <2>2, <2>5 DEF Shows
      <4> QED BY <1>a, <4>1 DEF IsJoin
    <3>2. NextView(r).p[s] = << >>
      BY <1>4, <1>a, <2>2, <2>5 DEF Shows
    <3>4. /\ NextView(r).d = View(r).d /\ NextView(r).n = View(r).n
          /\ NextView(r).b[s] = View(r).b[s] /\ NextView(r).q[s] = View(r).q[s]
          /\ NextView(r).box[s] = View(r).box[s]
      BY <1>2, <1>4, <2>2 DEF Shows
    <3>3. Pushes(View(r), NextView(r), s)
      BY <2>1, <2>3, <3>1, <3>2, <3>4 DEF Pushes
    <3> QED BY <2>5, <3>3
  <2>6. CASE Home[r] # h
    <3>1. Untouched(View(r), NextView(r), s)
      BY <1>2, <1>4, <1>5, <1>a, <2>1, <2>2, <2>3, <2>4, <2>6 DEF Untouched, Shows
    <3> QED BY <2>6, <3>1
  <2> QED BY <2>5, <2>6
<1>7. ASSUME NEW r \in Reqs
      PROVE  /\ Good(NextView(r), Home[r], Length[r])
             /\ r \in begun \ hurt => Whole(NextView(r), Home[r], Length[r])
  <2>1. CASE Home[r] = h
    BY <1>6, <2>1, BothViews, PushStep DEF StreamInv, Views
  <2>2. CASE Home[r] # h
    BY <1>6, <2>2, BothViews, UntouchedStep DEF StreamInv, Views
  <2> QED BY <2>1, <2>2
<1>8. Views'
  <2>1. begun \subseteq Reqs
    BY DEF TypeOK
  <2> QED BY <1>2, <1>7, <2>1, NextViews
<1>9. Batches(out', mem', hurt')
  <2>1. LostBatch(out'[s], mem'[s].tracked, hurt')
    BY <1>3, <1>4, NoBatchLost
  <2> QED BY <1>2, <1>3, <1>4, <2>1 DEF StreamInv, Batches
<1> QED BY <1>8, <1>9 DEF StreamInv

(* _get_results_worker. *)
LEMMA WorkerStreams ==
    ASSUME TypeOK, TypeOK', StreamInv, NEW s \in Scheds, GetResultsWorker(s)
    PROVE  StreamInv'
<1> DEFINE a == resp_queue[s]
           mine == Of(a, mem[s].tracked)
           new == mem[s].responses \o mine
<1>1. /\ mem \in [Scheds -> MemState] /\ mem[s] \in MemState /\ mem[s].responses \in Seq(Response)
      /\ resp_queue \in [Scheds -> Seq(Response)] /\ a \in Seq(Response) /\ mine \in Seq(Response)
  BY OfType DEF TypeOK, MemState
<1>2. /\ mem' = [mem EXCEPT ![s] = [mem[s] EXCEPT !.responses = new]]
      /\ resp_queue' = [resp_queue EXCEPT ![s] = << >>]
      /\ UNCHANGED <<out, engine, emitted, delivered, begun, hurt>>
  BY DEF GetResultsWorker, faults
<1>a. ASSUME NEW r \in Reqs
      PROVE  /\ Nums(mine, r) = IF r \in mem[s].tracked THEN Nums(a, r) ELSE << >>
             /\ IsJoin(Nums(new, r), Nums(mem[s].responses, r), Nums(mine, r))
             /\ Nums(mem[s].responses, r) \o << >> = Nums(mem[s].responses, r)
  <2>1. Nums(mine, r) = IF r \in mem[s].tracked THEN Nums(a, r) ELSE << >>
    BY <1>1, NumsOf
  <2>2. IsJoin(Nums(new, r), Nums(mem[s].responses, r), Nums(mine, r))
    <3> HIDE DEF mine
    <3> QED BY <1>1, NumsConcat, ZenonT(40) DEF IsJoin
  <2>3. Nums(mem[s].responses, r) \in Seq(Nat)
    BY <1>1, NumsType
  <2>4. Nums(mem[s].responses, r) \o << >> = Nums(mem[s].responses, r)
    BY <2>3, JoinFacts
  <2> QED BY <2>1, <2>2, <2>4
<1> HIDE DEF mine, new, a
<1>4. /\ mem'[s].responses = new /\ mem'[s].tracked = mem[s].tracked /\ mem'[s].stolen = mem[s].stolen
      /\ \A t \in Scheds \ {s} : mem'[t] = mem[t]
  BY <1>1, <1>2 DEF MemState
<1>5. resp_queue'[s] = << >> /\ \A t \in Scheds \ {s} : resp_queue'[t] = resp_queue[t]
  BY <1>1, <1>2
<1>6. ASSUME NEW r \in Reqs
      PROVE  IF Home[r] = s THEN Fetches(View(r), NextView(r), s) ELSE Untouched(View(r), NextView(r), s)
  <2>1. Elsewhere(View(r), NextView(r), s)
    BY <1>2, <1>4, StepElsewhere
  <2>2. /\ Shows(View(r), out, mem, resp_queue, engine, emitted, delivered, r)
        /\ Shows(NextView(r), out', mem', resp_queue', engine', emitted', delivered', r)
    BY ViewsShow
  <2>3. SameSets(View(r), NextView(r), s)
    BY <1>2, <1>4, <2>2 DEF SameSets, Shows
  <2>4. Home[r] \in Scheds
    BY LengthType
  <2>5. /\ NextView(r).box[s] = Nums(new, r) /\ View(r).box[s] = Nums(mem[s].responses, r)
        /\ s \in View(r).t <=> r \in mem[s].tracked
    BY <1>4, <2>2 DEF Shows
  <2>6. CASE Home[r] = s
    <3>1. NextView(r).y = << >> /\ View(r).y = Nums(a, r)
      BY <1>5, <2>2, <2>6, NumsEmpty DEF Shows, a
    <3>2. s \in View(r).t => NextView(r).box[s] = View(r).box[s] \o View(r).y
      BY <1>a, <2>5, <3>1 DEF IsJoin
    <3>3. s \notin View(r).t => NextView(r).box[s] = View(r).box[s]
      BY <1>a, <2>5 DEF IsJoin
    <3>4. NextView(r).box[s] = IF s \in View(r).t THEN View(r).box[s] \o View(r).y ELSE View(r).box[s]
      BY <3>2, <3>3
    <3>5. Fetches(View(r), NextView(r), s)
      BY <1>2, <2>1, <2>2, <2>3, <3>1, <3>4 DEF Fetches, Shows
    <3> QED BY <2>6, <3>5
  <2>7. CASE Home[r] # s
    <3>1. s \notin View(r).t
      BY <2>7 DEF StreamInv, Views, Good, Sides
    <3>2. NextView(r).box[s] = View(r).box[s]
      BY <1>a, <2>5, <3>1 DEF IsJoin
    <3>3. NextView(r).y = View(r).y
      BY <1>5, <2>2, <2>4, <2>7 DEF Shows
    <3>4. Untouched(View(r), NextView(r), s)
      BY <1>2, <2>1, <2>2, <2>3, <3>2, <3>3 DEF Untouched, Shows
    <3> QED BY <2>7, <3>4
  <2> QED BY <2>6, <2>7
<1>7. ASSUME NEW r \in Reqs
      PROVE  /\ Good(NextView(r), Home[r], Length[r])
             /\ r \in begun \ hurt => Whole(NextView(r), Home[r], Length[r])
  <2>1. CASE Home[r] = s
    BY <1>6, <2>1, BothViews, FetchStep DEF StreamInv, Views
  <2>2. CASE Home[r] # s
    BY <1>6, <2>2, BothViews, UntouchedStep DEF StreamInv, Views
  <2> QED BY <2>1, <2>2
<1>8. Views'
  <2>1. begun \subseteq Reqs
    BY DEF TypeOK
  <2> QED BY <1>2, <1>7, <2>1, NextViews
<1>9. Batches(out', mem', hurt')
  <2>1. \A t \in Scheds : mem'[t].tracked = mem[t].tracked
    BY <1>4
  <2> QED BY <1>2, <2>1 DEF StreamInv, Batches
<1> QED BY <1>8, <1>9 DEF StreamInv

(* get_results: what is handed out is appended to what the client has, and a  *)
(* request that is tracked no more has nothing left on the way.              *)
LEMMA HandStreams ==
    ASSUME TypeOK, TypeOK', StreamInv, NEW s \in Scheds, GetResults(s)
    PROVE  StreamInv'
<1> DEFINE a == mem[s].responses
           fin == Finished(a)
<1>1. /\ mem \in [Scheds -> MemState] /\ mem[s] \in MemState /\ a \in Seq(Response)
  BY DEF TypeOK, MemState
<1>2. /\ mem' = [mem EXCEPT ![s] = [mem[s] EXCEPT !.responses = << >>, !.tracked = mem[s].tracked \ fin]]
      /\ delivered' = [r \in Reqs |-> delivered[r] \o Nums(a, r)]
      /\ UNCHANGED <<out, resp_queue, engine, emitted, begun, hurt>>
  BY DEF GetResults, faults, redis, Nums
<1>3. \A r \in Reqs : r \in fin <=> Length[r] \in Range(Nums(a, r))
  BY <1>1, FinishedNums
<1>4. \A r \in Reqs : delivered'[r] = delivered[r] \o Nums(a, r) /\ delivered[r] \in Seq(Nat)
  BY <1>2 DEF TypeOK
<1> HIDE DEF fin, a
<1>5. /\ mem'[s].responses = << >> /\ mem'[s].tracked = mem[s].tracked \ fin
      /\ mem'[s].stolen = mem[s].stolen
      /\ \A t \in Scheds \ {s} : mem'[t] = mem[t]
  <2> DEFINE g == [mem[s] EXCEPT !.responses = << >>, !.tracked = mem[s].tracked \ fin]
  <2>1. mem'[s] = g /\ \A t \in Scheds \ {s} : mem'[t] = mem[t]
    BY <1>1, <1>2
  <2>2. g.responses = << >> /\ g.tracked = mem[s].tracked \ fin /\ g.stolen = mem[s].stolen
    BY <1>1 DEF MemState
  <2> HIDE DEF g
  <2> QED BY <2>1, <2>2
<1>6. ASSUME NEW r \in Reqs
      PROVE  IF Home[r] = s THEN Hands(View(r), NextView(r), s, Length[r])
             ELSE Untouched(View(r), NextView(r), s)
  <2> DEFINE v == View(r)
             w == NextView(r)
  <2>1. Elsewhere(v, w, s)
    BY <1>2, <1>5, StepElsewhere
  <2>2. /\ Shows(v, out, mem, resp_queue, engine, emitted, delivered, r)
        /\ Shows(w, out', mem', resp_queue', engine', emitted', delivered', r)
    BY ViewsShow
  <2>3. Nums(<< >>, r) = << >>
    BY NumsEmpty
  <2>4. Good(v, Home[r], Length[r])
    BY DEF StreamInv, Views
  <2> HIDE DEF v, w
  <2>5. /\ w.y = v.y /\ w.n = v.n /\ w.p[s] = v.p[s] /\ w.b[s] = v.b[s] /\ w.q[s] = v.q[s]
        /\ s \in w.e <=> s \in v.e
        /\ s \in w.mst <=> s \in v.mst
        /\ s \in w.loc <=> s \in v.loc
        /\ s \in w.sto <=> s \in v.sto
    BY <1>2, <1>5, <2>2 DEF Shows
  <2>6. /\ v.box[s] = Nums(a, r) /\ w.box[s] = << >> /\ v.d = delivered[r] /\ w.d = delivered'[r]
        /\ s \in v.t <=> r \in mem[s].tracked
        /\ s \in w.t <=> r \in mem[s].tracked \ fin
    BY <1>5, <2>2, <2>3 DEF Shows, a
  <2>7. w.d = v.d \o v.box[s] /\ v.d \in Seq(Nat)
    BY <1>4, <2>6
  <2>8. s \in w.t <=> s \in v.t /\ Length[r] \notin Range(v.box[s])
    BY <1>3, <2>6
  <2>9. Home[r] = s => Hands(v, w, s, Length[r])
    BY <2>1, <2>5, <2>6, <2>7, <2>8 DEF Hands
  <2>10. Home[r] # s => Untouched(v, w, s)
    <3> SUFFICES ASSUME Home[r] # s PROVE Untouched(v, w, s)
      OBVIOUS
    <3>1. v.box[s] = << >> /\ s \notin v.t
      BY <2>4 DEF Good, Sides
    <3>2. w.d = v.d
      <4>1. v.d \o << >> = v.d
        BY <2>7, JoinFacts
      <4> QED BY <2>7, <3>1, <4>1
    <3>3. SameSets(v, w, s)
      BY <2>5, <2>8, <3>1 DEF SameSets
    <3> QED BY <2>1, <2>5, <2>6, <3>1, <3>2, <3>3 DEF Untouched
  <2> QED BY <2>9, <2>10 DEF v, w
<1>7. ASSUME NEW r \in Reqs
      PROVE  /\ Good(NextView(r), Home[r], Length[r])
             /\ r \in begun \ hurt => Whole(NextView(r), Home[r], Length[r])
  <2>1. CASE Home[r] = s
    BY <1>6, <2>1, BothViews, HandStep DEF StreamInv, Views
  <2>2. CASE Home[r] # s
    BY <1>6, <2>2, BothViews, UntouchedStep DEF StreamInv, Views
  <2> QED BY <2>1, <2>2
<1>8. Views'
  <2>1. begun \subseteq Reqs
    BY DEF TypeOK
  <2> QED BY <1>2, <1>7, <2>1, NextViews
<1>9. Batches(out', mem', hurt')
  <2>1. LostBatch(out[s], mem'[s].tracked, hurt)
    <3> SUFFICES ASSUME NEW r \in out[s].local \ mem'[s].tracked, Nums(out[s].batch, r) # << >>
                 PROVE  r \notin mem[s].tracked
      BY DEF StreamInv, Batches, LostBatch
    <3> SUFFICES ASSUME r \in mem[s].tracked PROVE FALSE
      OBVIOUS
    <3>1. r \in fin /\ r \in Reqs
      BY <1>1, <1>5 DEF MemState
    <3>2. Shows(View(r), out, mem, resp_queue, engine, emitted, delivered, r)
      BY ViewsShow
    <3>3. Good(View(r), Home[r], Length[r]) /\ Typed(View(r), Length[r])
      BY <3>1, BothViews DEF StreamInv, Views
    <3>4. s \in View(r).t /\ View(r).b[s] # << >> /\ Length[r] \in Range(View(r).box[s])
      BY <1>3, <3>1, <3>2 DEF Shows, a
    <3>5. s = Home[r]
      BY <3>3, <3>4 DEF Good, Sides
    <3>6. Row(View(r), s) = << >>
      BY <3>3, <3>4, <3>5 DEF Good, LastOut
    <3> QED BY <3>3, <3>4, <3>6, RowFacts
  <2> QED BY <1>2, <1>5, <2>1 DEF StreamInv, Batches
<1> QED BY <1>8, <1>9 DEF StreamInv

(* Nothing has been produced for a request that is not in an engine yet: one *)
(* not put so far, being put, queued or pulled.                              *)
FreshInv ==
    /\ \A r \in Reqs \ begun : emitted[r] = 0
    /\ \A s \in Scheds : /\ put[s].pc = "push" => emitted[put[s].req] = 0
                         /\ \A r \in Range(req_queue[s]) : emitted[r] = 0
                         /\ \A r \in Range(Pulled(s)) : emitted[r] = 0

(* A request is in one engine at most. *)
LEMMA InOneEngine ==
    ASSUME TypeOK, PlaceInv, NEW s \in Scheds, NEW r \in engine[s]
    PROVE  \A t \in Scheds : r \in engine[t] => t = s
<1> SUFFICES ASSUME NEW t \in Scheds, r \in engine[t], t # s PROVE FALSE
  OBVIOUS
<1>1. <<"engine", s>> \in Place /\ <<"engine", t>> \in Place /\ <<"engine", s>> # <<"engine", t>>
  BY LayoutAt DEF Kinds
<1>2. r \in Layout[<<"engine", s>>] /\ r \in Layout[<<"engine", t>>]
  BY LayoutAt
<1> QED BY <1>1, <1>2 DEF PlaceInv, Apart

(* put_results: a new response goes behind all the others of its request. *)
LEMMA EmitStreams ==
    ASSUME TypeOK, TypeOK', PlaceInv, StreamInv, NEW s \in Scheds, NEW x \in Reqs, PutResults(s, x)
    PROVE  StreamInv'
<1> DEFINE e == [req |-> x, n |-> emitted[x] + 1]
           new == Append(out[s].results, e)
<1>1. /\ out \in [Scheds -> OutState] /\ out[s] \in OutState /\ out[s].results \in Seq(Response)
      /\ emitted \in [Reqs -> Nat] /\ engine \in [Scheds -> SUBSET Reqs]
  BY DEF TypeOK, OutState
<1>2. /\ out' = [out EXCEPT ![s] = [out[s] EXCEPT !.results = new]]
      /\ emitted' = [emitted EXCEPT ![x] = emitted[x] + 1]
      /\ engine' = [engine EXCEPT ![s] = IF emitted[x] + 1 = Length[x] THEN engine[s] \ {x} ELSE engine[s]]
      /\ UNCHANGED <<mem, resp_queue, delivered, begun, hurt>> /\ x \in engine[s]
  BY DEF PutResults, redis, faults
<1>3. emitted[x] \in Nat /\ Length[x] \in Nat /\ emitted[x] + 1 <= Length[x] /\ emitted[x] # Length[x]
  <2>1. emitted[x] \in Nat /\ Length[x] \in Nat /\ emitted[x] <= Length[x]
    BY LengthType DEF TypeOK
  <2>2. emitted[x] # Length[x]
    BY <1>2, OpenEngines DEF EngineOpen
  <2> QED BY <2>1, <2>2
<1>4. e \in Response /\ e.req = x /\ e.n = emitted[x] + 1
  <2>1. emitted[x] + 1 \in 1 .. Length[x]
    BY <1>3
  <2> QED BY <2>1 DEF Response
<1> HIDE DEF e
<1>5. \A r : Nums(new, r) = IF r = x THEN Append(Nums(out[s].results, r), emitted[x] + 1)
                            ELSE Nums(out[s].results, r)
  BY <1>1, <1>4, NumsAppend
<1> HIDE DEF new
<1>6. /\ out'[s].results = new /\ out'[s].batch = out[s].batch /\ out'[s].pushing = out[s].pushing
      /\ out'[s].local = out[s].local /\ out'[s].stolen = out[s].stolen
      /\ \A t \in Scheds \ {s} : out'[t] = out[t] /\ engine'[t] = engine[t]
  BY <1>1, <1>2 DEF OutState
<1>7. \A r \in Reqs : /\ emitted'[r] = IF r = x THEN emitted[x] + 1 ELSE emitted[r]
                      /\ r \in engine'[s] <=> r \in engine[s] /\ (r = x => emitted[x] + 1 # Length[x])
  BY <1>1, <1>2
<1>8. ASSUME NEW r \in Reqs
      PROVE  IF r = x THEN Emits(View(r), NextView(r), s, Length[r]) ELSE Untouched(View(r), NextView(r), s)
  <2> DEFINE v == View(r)
             w == NextView(r)
  <2>1. Elsewhere(v, w, s)
    BY <1>2, <1>6, StepElsewhere
  <2>2. /\ Shows(v, out, mem, resp_queue, engine, emitted, delivered, r)
        /\ Shows(w, out', mem', resp_queue', engine', emitted', delivered', r)
    BY ViewsShow
  <2> HIDE DEF v, w
  <2>3. /\ w.y = v.y /\ w.d = v.d /\ w.p[s] = v.p[s] /\ w.b[s] = v.b[s] /\ w.box[s] = v.box[s]
        /\ s \in w.t <=> s \in v.t
        /\ s \in w.mst <=> s \in v.mst
        /\ s \in w.loc <=> s \in v.loc
        /\ s \in w.sto <=> s \in v.sto
    BY <1>2, <1>6, <2>2 DEF Shows
  <2>4. /\ v.q[s] = Nums(out[s].results, r) /\ w.q[s] = Nums(new, r) /\ v.n = emitted[r] /\ w.n = emitted'[r]
        /\ s \in v.e <=> r \in engine[s]
        /\ s \in w.e <=> r \in engine'[s]
    BY <1>6, <2>2 DEF Shows
  <2>5. r = x => Emits(v, w, s, Length[r])
    BY <1>2, <1>5, <1>7, <2>1, <2>3, <2>4 DEF Emits
  <2>6. r # x => Untouched(v, w, s)
    <3> SUFFICES ASSUME r # x PROVE Untouched(v, w, s)
      OBVIOUS
    <3>1. SameSets(v, w, s)
      BY <1>7, <2>3, <2>4 DEF SameSets
    <3> QED BY <1>5, <1>7, <2>1, <2>3, <2>4, <3>1 DEF Untouched
  <2> QED BY <2>5, <2>6 DEF v, w
<1>9. View(x).n # Length[x] /\ \A t \in View(x).e : t = s
  <2>1. Shows(View(x), out, mem, resp_queue, engine, emitted, delivered, x) /\ Typed(View(x), Length[x])
    BY ViewsShow, BothViews
  <2>2. \A t \in Scheds : x \in engine[t] => t = s
    BY <1>2, InOneEngine
  <2>3. View(x).e \subseteq Scheds
    BY <2>1 DEF Typed
  <2> QED BY <1>3, <2>1, <2>2, <2>3 DEF Shows
<1>10. ASSUME NEW r \in Reqs
       PROVE  /\ Good(NextView(r), Home[r], Length[r])
              /\ r \in begun \ hurt => Whole(NextView(r), Home[r], Length[r])
  <2>1. CASE r = x
    BY <1>8, <1>9, <2>1, BothViews, EmitStep DEF StreamInv, Views
  <2>2. CASE r # x
    BY <1>8, <2>2, BothViews, UntouchedStep DEF StreamInv, Views
  <2> QED BY <2>1, <2>2
<1>11. Views'
  <2>1. begun \subseteq Reqs
    BY DEF TypeOK
  <2> QED BY <1>2, <1>10, <2>1, NextViews
<1>12. Batches(out', mem', hurt')
  <2>1. LostBatch(out'[s], mem'[s].tracked, hurt')
    BY <1>2, <1>6 DEF StreamInv, Batches, LostBatch
  <2> QED BY <1>2, <1>6, <2>1 DEF StreamInv, Batches
<1> QED BY <1>11, <1>12 DEF StreamInv

(* Requests that join an engine have no responses yet. *)
LEMMA FitStreams ==
    ASSUME TypeOK, TypeOK', FreshInv, StreamInv, NEW s \in Scheds, NEW k \in 0 .. Batch, CountAndFit(s, k)
    PROVE  StreamInv'
<1> DEFINE taken == get[s].taken
           mine == {taken[i] : i \in 1 .. k}
           theirs == {r \in mine : Home[r] # s}
<1>0. /\ taken \in Seq(Reqs) /\ k \in 0 .. Len(taken) /\ get[s].pc = "count"
      /\ mem \in [Scheds -> MemState] /\ mem[s] \in MemState /\ engine \in [Scheds -> SUBSET Reqs]
  <2>1. get[s].pc = "count" /\ k <= Len(get[s].taken) /\ Batch \in Nat
    BY GlobalAssumption DEF CountAndFit
  <2>2. get[s].taken \in Seq(Reqs)
    BY DEF TypeOK, GetState
  <2> QED BY <2>1, <2>2 DEF TypeOK
<1>1. /\ engine' = [engine EXCEPT ![s] = @ \cup mine]
      /\ mem' = [mem EXCEPT ![s] = [mem[s] EXCEPT !.stolen = mem[s].stolen \cup theirs]]
      /\ UNCHANGED <<out, resp_queue, emitted, delivered, begun, hurt>>
  BY DEF CountAndFit, faults
<1>2. \A r \in mine : emitted[r] = 0
  <2>1. mine \subseteq Range(taken)
    BY <1>0 DEF Range
  <2>2. Pulled(s) = taken
    BY <1>0 DEF Pulled
  <2> QED BY <2>1, <2>2 DEF FreshInv
<1>3. \A r : r \in theirs <=> r \in mine /\ Home[r] # s
  OBVIOUS
<1> HIDE DEF mine, theirs, taken
<1>4. /\ mem'[s].responses = mem[s].responses /\ mem'[s].tracked = mem[s].tracked
      /\ mem'[s].stolen = mem[s].stolen \cup theirs /\ engine'[s] = engine[s] \cup mine
      /\ \A t \in Scheds \ {s} : mem'[t] = mem[t] /\ engine'[t] = engine[t]
  BY <1>0, <1>1 DEF MemState
<1>5. ASSUME NEW r \in Reqs
      PROVE  IF r \in mine THEN Joins(View(r), NextView(r), s, Home[r]) /\ View(r).n = 0
             ELSE Untouched(View(r), NextView(r), s)
  <2> DEFINE v == View(r)
             w == NextView(r)
  <2>1. Elsewhere(v, w, s)
    BY <1>1, <1>4, StepElsewhere
  <2>2. /\ Shows(v, out, mem, resp_queue, engine, emitted, delivered, r)
        /\ Shows(w, out', mem', resp_queue', engine', emitted', delivered', r)
    BY ViewsShow
  <2> HIDE DEF v, w
  <2>3. /\ w.y = v.y /\ w.d = v.d /\ w.n = v.n /\ v.n = emitted[r]
        /\ w.p[s] = v.p[s] /\ w.b[s] = v.b[s] /\ w.q[s] = v.q[s] /\ w.box[s] = v.box[s]
        /\ s \in w.t <=> s \in v.t
        /\ s \in w.loc <=> s \in v.loc
        /\ s \in w.sto <=> s \in v.sto
    BY <1>1, <1>4, <2>2 DEF Shows
  <2>4. /\ s \in v.e <=> r \in engine[s]
        /\ s \in w.e <=> r \in engine[s] \cup mine
        /\ s \in v.mst <=> r \in mem[s].stolen
        /\ s \in w.mst <=> r \in mem[s].stolen \cup theirs
    BY <1>4, <2>2 DEF Shows
  <2>5. r \in mine => Joins(v, w, s, Home[r]) /\ v.n = 0
    BY <1>2, <1>3, <2>1, <2>3, <2>4 DEF Joins
  <2>6. r \notin mine => Untouched(v, w, s)
    <3> SUFFICES ASSUME r \notin mine PROVE Untouched(v, w, s)
      OBVIOUS
    <3>1. SameSets(v, w, s)
      BY <1>3, <2>3, <2>4 DEF SameSets
    <3> QED BY <2>1, <2>3, <3>1 DEF Untouched
  <2> QED BY <2>5, <2>6 DEF v, w
<1>6. ASSUME NEW r \in Reqs
      PROVE  /\ Good(NextView(r), Home[r], Length[r])
             /\ r \in begun \ hurt => Whole(NextView(r), Home[r], Length[r])
  <2>1. CASE r \in mine
    BY <1>5, <2>1, BothViews, JoinStep DEF StreamInv, Views
  <2>2. CASE r \notin mine
    BY <1>5, <2>2, BothViews, UntouchedStep DEF StreamInv, Views
  <2> QED BY <2>1, <2>2
<1>7. Views'
  <2>1. begun \subseteq Reqs
    BY DEF TypeOK
  <2> QED BY <1>1, <1>6, <2>1, NextViews
<1>8. Batches(out', mem', hurt')
  <2>1. \A t \in Scheds : mem'[t].tracked = mem[t].tracked
    BY <1>4
  <2> QED BY <1>1, <2>1 DEF StreamInv, Batches
<1> QED BY <1>7, <1>8 DEF StreamInv

(* put_requests starts to track the request. *)
LEMMA EnlistStreams ==
    ASSUME TypeOK, TypeOK', PlaceInv, FreshInv, StreamInv, NEW x \in Reqs, PutRequests(x)
    PROVE  StreamInv'
<1> DEFINE s == Home[x]
<1>0. /\ s \in Scheds /\ mem \in [Scheds -> MemState] /\ mem[s] \in MemState
  BY LengthType DEF TypeOK
<1>1. /\ mem' = [mem EXCEPT ![s] = [mem[s] EXCEPT !.tracked = mem[s].tracked \cup {x}]]
      /\ begun' = begun \cup {x} /\ x \notin begun
      /\ UNCHANGED <<out, resp_queue, engine, emitted, delivered, hurt>>
  BY DEF PutRequests, faults, redis
<1>2. emitted[x] = 0
  BY <1>1 DEF FreshInv
<1>3. \A t \in Scheds : x \notin engine[t]
  <2>1. \A t \in Scheds : <<"engine", t>> \in Place
    BY LayoutAt DEF Kinds
  <2>2. \A t \in Scheds : engine[t] \subseteq begun
    BY <2>1, LayoutAt DEF PlaceInv
  <2> QED BY <1>1, <2>2
<1>4. /\ mem'[s].responses = mem[s].responses /\ mem'[s].tracked = mem[s].tracked \cup {x}
      /\ mem'[s].stolen = mem[s].stolen
      /\ \A t \in Scheds \ {s} : mem'[t] = mem[t]
  BY <1>0, <1>1 DEF MemState
<1> HIDE DEF s
<1>5. ASSUME NEW r \in Reqs
      PROVE  IF r = x THEN Enlists(View(r), NextView(r), s) /\ View(r).n = 0 /\ View(r).e = {}
             ELSE Untouched(View(r), NextView(r), s)
  <2> DEFINE v == View(r)
             w == NextView(r)
  <2>1. Elsewhere(v, w, s)
    BY <1>1, <1>4, StepElsewhere
  <2>2. /\ Shows(v, out, mem, resp_queue, engine, emitted, delivered, r)
        /\ Shows(w, out', mem', resp_queue', engine', emitted', delivered', r)
    BY ViewsShow
  <2>0. Typed(v, Length[r])
    BY BothViews
  <2> HIDE DEF v, w
  <2>3. /\ w.y = v.y /\ w.d = v.d /\ w.n = v.n /\ v.n = emitted[r]
        /\ w.p[s] = v.p[s] /\ w.b[s] = v.b[s] /\ w.q[s] = v.q[s] /\ w.box[s] = v.box[s]
        /\ s \in w.e <=> s \in v.e
        /\ s \in w.mst <=> s \in v.mst
        /\ s \in w.loc <=> s \in v.loc
        /\ s \in w.sto <=> s \in v.sto
    BY <1>0, <1>1, <1>4, <2>2 DEF Shows
  <2>4. /\ s \in v.t <=> r \in mem[s].tracked
        /\ s \in w.t <=> r \in mem[s].tracked \cup {x}
    BY <1>0, <1>4, <2>2 DEF Shows
  <2>5. r = x => Enlists(v, w, s) /\ v.n = 0 /\ v.e = {}
    <3> SUFFICES ASSUME r = x PROVE Enlists(v, w, s) /\ v.n = 0 /\ v.e = {}
      OBVIOUS
    <3>1. v.e = {}
      BY <1>3, <2>0, <2>2 DEF Shows, Typed
    <3> QED BY <1>2, <2>1, <2>3, <2>4, <3>1 DEF Enlists
  <2>6. r # x => Untouched(v, w, s)
    <3> SUFFICES ASSUME r # x PROVE Untouched(v, w, s)
      OBVIOUS
    <3>1. SameSets(v, w, s)
      BY <2>3, <2>4 DEF SameSets
    <3> QED BY <2>1, <2>3, <3>1 DEF Untouched
  <2> QED BY <2>5, <2>6 DEF v, w
<1>6. ASSUME NEW r \in Reqs
      PROVE  /\ Good(NextView(r), Home[r], Length[r])
             /\ r \in (begun \cup {x}) \ hurt => Whole(NextView(r), Home[r], Length[r])
  <2>1. CASE r = x
    BY <1>0, <1>5, <2>1, BothViews, EnlistStep DEF StreamInv, Views, s
  <2>2. CASE r # x
    BY <1>0, <1>5, <2>2, BothViews, UntouchedStep DEF StreamInv, Views
  <2> QED BY <2>1, <2>2
<1>7. Views'
  <2>1. begun \subseteq Reqs
    BY DEF TypeOK
  <2> QED BY <1>1, <1>6, <2>1, NextViews
<1>8. Batches(out', mem', hurt')
  <2>1. \A t \in Scheds : mem[t].tracked \subseteq mem'[t].tracked
    BY <1>0, <1>4
  <2>2. ASSUME NEW t \in Scheds PROVE LostBatch(out[t], mem'[t].tracked, hurt)
    BY <2>1 DEF StreamInv, Batches, LostBatch
  <2> QED BY <1>1, <2>2 DEF StreamInv, Batches
<1> QED BY <1>7, <1>8 DEF StreamInv

(* A request that is not in the hand of a scheduler has nothing there. *)
LEMMA NotInHand ==
    ASSUME TypeOK, NEW s \in Scheds, NEW r \in Reqs \ InHand(s)
    PROVE  /\ r \notin engine[s] /\ Nums(out[s].results, r) = << >>
           /\ Nums(out[s].batch, r) = << >> /\ Nums(out[s].pushing, r) = << >>
<1> DEFINE a == out[s].results
           b == out[s].batch
           c == out[s].pushing
           ab == a \o b
           all == ab \o c
<1>1. a \in Seq(Response) /\ b \in Seq(Response) /\ c \in Seq(Response)
  BY DEF TypeOK, OutState
<1>2. r \notin engine[s] /\ r \notin {x.req : x \in Range(all)}
  BY DEF InHand
<1> HIDE DEF a, b, c
<1>3. ab \in Seq(Response) /\ IsJoin(Nums(ab, r), Nums(a, r), Nums(b, r))
  BY <1>1, ConcatProperties, NumsConcat DEF IsJoin
<1> HIDE DEF ab
<1>4. all \in Seq(Response) /\ IsJoin(Nums(all, r), Nums(ab, r), Nums(c, r))
  BY <1>1, <1>3, ConcatProperties, NumsConcat DEF IsJoin
<1> HIDE DEF all
<1>5. Nums(all, r) = << >>
  <2> SUFFICES ASSUME NEW i \in DOMAIN all, all[i].req = r PROVE FALSE
    BY <1>4, NumsSome
  <2>1. all[i] \in Range(all)
    BY DEF Range
  <2> QED BY <1>2, <2>1
<1>6. /\ Nums(a, r) \in Seq(Nat) /\ Nums(b, r) \in Seq(Nat) /\ Nums(c, r) \in Seq(Nat) /\ Nums(ab, r) \in Seq(Nat)
  BY <1>1, <1>3, NumsType
<1>7. Nums(ab, r) = << >> /\ Nums(c, r) = << >>
  BY <1>4, <1>5, <1>6, JoinFacts DEF IsJoin
<1>8. Nums(a, r) = << >> /\ Nums(b, r) = << >>
  BY <1>3, <1>6, <1>7, JoinFacts DEF IsJoin
<1> QED BY <1>2, <1>7, <1>8 DEF a, b, c

(* A fault of s hurts the requests of s and those in its hand, and no other. *)
LEMMA StruckStreams ==
    ASSUME TypeOK, TypeOK', StreamInv, NEW s \in Scheds, begun' = begun, hurt \subseteq hurt',
           \A r \in Reqs : Strikes(View(r), NextView(r), s),
           \A r \in begun \ hurt' : Home[r] # s /\ r \notin InHand(s) /\ NextView(r).y = View(r).y
    PROVE  Views'
<1>1. ASSUME NEW r \in Reqs PROVE Good(NextView(r), Home[r], Length[r])
  BY BothViews, StrikeStep DEF StreamInv, Views
<1>2. ASSUME NEW r \in begun \ hurt' PROVE Whole(NextView(r), Home[r], Length[r])
  <2>0. r \in Reqs /\ r \in begun \ hurt
    BY DEF TypeOK
  <2>1. /\ Shows(View(r), out, mem, resp_queue, engine, emitted, delivered, r)
        /\ Typed(View(r), Length[r])
    BY <2>0, ViewsShow, BothViews
  <2>2. /\ r \notin engine[s] /\ Nums(out[s].results, r) = << >>
        /\ Nums(out[s].batch, r) = << >> /\ Nums(out[s].pushing, r) = << >>
    BY <2>0, NotInHand
  <2>3. s \notin View(r).e /\ View(r).p[s] = << >> /\ View(r).b[s] = << >> /\ View(r).q[s] = << >>
    BY <2>1, <2>2 DEF Shows
  <2>4. Row(View(r), s) = << >>
    BY <2>1, <2>3, RowFacts
  <2>5. Whole(View(r), Home[r], Length[r]) /\ Good(View(r), Home[r], Length[r])
    BY <2>0 DEF StreamInv, Views
  <2> QED BY <2>0, <2>3, <2>4, <2>5, BothViews, StrikeStep
<1> QED BY <1>1, <1>2, NextViews

LEMMA ResetStreams ==
    ASSUME TypeOK, TypeOK', StreamInv, NEW s \in Scheds, Reset(s)
    PROVE  StreamInv'
<1>1. /\ mem' = [mem EXCEPT ![s] = Empty] /\ resp_queue' = [resp_queue EXCEPT ![s] = << >>]
      /\ hurt' = hurt \cup (begun \cap RequestsOf(s)) \cup InHand(s)
      /\ UNCHANGED <<out, engine, emitted, delivered, begun>>
      /\ mem \in [Scheds -> MemState] /\ resp_queue \in [Scheds -> Seq(Response)]
  BY DEF Reset, TypeOK
<1>2. /\ mem'[s].responses = << >> /\ mem'[s].tracked = {} /\ mem'[s].stolen = {}
      /\ \A t \in Scheds \ {s} : mem'[t] = mem[t] /\ resp_queue'[t] = resp_queue[t]
      /\ resp_queue'[s] = << >>
  BY <1>1 DEF Empty
<1>3. ASSUME NEW r \in Reqs
      PROVE  Strikes(View(r), NextView(r), s) /\ (Home[r] # s => NextView(r).y = View(r).y)
  <2> DEFINE v == View(r)
             w == NextView(r)
  <2>1. Elsewhere(v, w, s)
    BY <1>1, <1>2, StepElsewhere
  <2>2. /\ Shows(v, out, mem, resp_queue, engine, emitted, delivered, r)
        /\ Shows(w, out', mem', resp_queue', engine', emitted', delivered', r)
    BY ViewsShow
  <2>3. Nums(<< >>, r) = << >> /\ Home[r] \in Scheds
    BY NumsEmpty, LengthType
  <2> HIDE DEF v, w
  <2>4. /\ w.d = v.d /\ w.n = v.n
        /\ w.p[s] = v.p[s] /\ w.b[s] = v.b[s] /\ w.q[s] = v.q[s] /\ w.box[s] = << >>
        /\ s \in w.e <=> s \in v.e
        /\ s \notin w.t /\ s \notin w.mst
        /\ s \in w.loc <=> s \in v.loc
        /\ s \in w.sto <=> s \in v.sto
    BY <1>1, <1>2, <2>2, <2>3, SMTT(20) DEF Shows
  <2>5. (Home[r] # s => w.y = v.y) /\ (Home[r] = s => w.y = << >>)
    BY <1>2, <2>2, <2>3 DEF Shows
  <2>6. Strikes(v, w, s)
    BY <2>1, <2>4, <2>5 DEF Strikes
  <2> QED BY <2>5, <2>6 DEF v, w
<1>4. \A r \in begun \ hurt' : r \in Reqs /\ Home[r] # s /\ r \notin InHand(s)
  BY <1>1 DEF TypeOK, RequestsOf
<1>5. Views'
  BY <1>1, <1>3, <1>4, StruckStreams
<1>6. Batches(out', mem', hurt')
  <2>1. \A r \in Reqs : Nums(out[s].batch, r) # << >> => r \in hurt'
    <3> SUFFICES ASSUME NEW r \in Reqs, r \notin InHand(s) PROVE Nums(out[s].batch, r) = << >>
      BY <1>1
    <3> QED BY NotInHand
  <2>2. ASSUME NEW t \in Scheds PROVE LostBatch(out[t], mem'[t].tracked, hurt')
    <3>1. CASE t = s
      BY <2>1, <3>1 DEF LostBatch
    <3>2. CASE t # s
      <4>1. mem'[t] = mem[t] /\ hurt \subseteq hurt'
        BY <1>1, <1>2, <3>2
      <4> QED BY <4>1 DEF StreamInv, Batches, LostBatch
    <3> QED BY <3>1, <3>2
  <2> QED BY <1>1, <2>2 DEF StreamInv, Batches
<1> QED BY <1>5, <1>6 DEF StreamInv

LEMMA CrashStreams ==
    ASSUME TypeOK, TypeOK', StreamInv, NEW s \in Scheds, Crash(s)
    PROVE  StreamInv'
<1>1. /\ mem' = [mem EXCEPT ![s] = Empty] /\ out' = [out EXCEPT ![s] = NoBatch]
      /\ engine' = [engine EXCEPT ![s] = {}]
      /\ hurt' = hurt \cup RequestsOf(s) \cup InHand(s)
      /\ UNCHANGED <<resp_queue, emitted, delivered, begun>>
      /\ mem \in [Scheds -> MemState] /\ out \in [Scheds -> OutState] /\ engine \in [Scheds -> SUBSET Reqs]
  BY DEF Crash, TypeOK, redis
<1>2. /\ mem'[s].responses = << >> /\ mem'[s].tracked = {} /\ mem'[s].stolen = {} /\ engine'[s] = {}
      /\ out'[s].results = << >> /\ out'[s].batch = << >> /\ out'[s].pushing = << >>
      /\ out'[s].local = {} /\ out'[s].stolen = {}
      /\ \A t \in Scheds \ {s} : mem'[t] = mem[t] /\ out'[t] = out[t] /\ engine'[t] = engine[t]
  BY <1>1 DEF Empty, NoBatch
<1>3. ASSUME NEW r \in Reqs PROVE Strikes(View(r), NextView(r), s) /\ NextView(r).y = View(r).y
  <2> DEFINE v == View(r)
             w == NextView(r)
  <2>1. Elsewhere(v, w, s)
    BY <1>1, <1>2, StepElsewhere
  <2>2. /\ Shows(v, out, mem, resp_queue, engine, emitted, delivered, r)
        /\ Shows(w, out', mem', resp_queue', engine', emitted', delivered', r)
    BY ViewsShow
  <2>3. Nums(<< >>, r) = << >>
    BY NumsEmpty
  <2> HIDE DEF v, w
  <2>4. /\ w.d = v.d /\ w.n = v.n /\ w.y = v.y
        /\ w.p[s] = << >> /\ w.b[s] = << >> /\ w.q[s] = << >> /\ w.box[s] = << >>
        /\ s \notin w.e /\ s \notin w.t /\ s \notin w.mst /\ s \notin w.loc /\ s \notin w.sto
    BY <1>1, <1>2, <2>2, <2>3 DEF Shows
  <2>6. Strikes(v, w, s)
    BY <2>1, <2>4 DEF Strikes
  <2> QED BY <2>4, <2>6 DEF v, w
<1>4. \A r \in begun \ hurt' : r \in Reqs /\ Home[r] # s /\ r \notin InHand(s)
  BY <1>1 DEF TypeOK, RequestsOf
<1>5. Views'
  BY <1>1, <1>3, <1>4, StruckStreams
<1>6. Batches(out', mem', hurt')
  <2>1. LostBatch(out'[s], mem'[s].tracked, hurt')
    BY <1>2, NoBatchLost
  <2>2. ASSUME NEW t \in Scheds \ {s} PROVE LostBatch(out'[t], mem'[t].tracked, hurt')
    <3>1. mem'[t] = mem[t] /\ out'[t] = out[t] /\ hurt \subseteq hurt'
      BY <1>1, <1>2
    <3> QED BY <3>1 DEF StreamInv, Batches, LostBatch
  <2> QED BY <1>2, <2>1, <2>2 DEF StreamInv, Batches
<1> QED BY <1>5, <1>6 DEF StreamInv

(* The threads that move requests leave the responses alone. *)
LEMMA QuietStreams ==
    ASSUME StreamInv, UNCHANGED <<out, mem, resp_queue, engine, emitted, delivered, begun, hurt>>
    PROVE  StreamInv'
<1>1. \A r : NextView(r) = View(r)
  BY DEF View, NextView
<1>2. Views'
  BY <1>1, NextViews DEF StreamInv, Views
<1> QED BY <1>2 DEF StreamInv

-----------------------------------------------------------------------------
(* FreshInv, step by step. *)
LEMMA FreshStill ==
    ASSUME FreshInv, UNCHANGED <<begun, emitted>>,
           \A s \in Scheds : /\ put'[s].pc = "push" => put'[s] = put[s]
                             /\ Range(req_queue'[s]) \subseteq Range(req_queue[s])
                             /\ Range(Pulled(s)') \subseteq Range(Pulled(s))
    PROVE  FreshInv'
<1>1. \A r \in Reqs \ begun' : emitted'[r] = 0
  BY DEF FreshInv
<1>2. ASSUME NEW s \in Scheds
      PROVE  /\ put'[s].pc = "push" => emitted'[put'[s].req] = 0
             /\ \A r \in Range(req_queue'[s]) : emitted'[r] = 0
             /\ \A r \in Range(Pulled(s)') : emitted'[r] = 0
  BY DEF FreshInv
<1> QED BY <1>1, <1>2 DEF FreshInv

LEMMA PutFresh ==
    ASSUME TypeOK, FreshInv, NEW x \in Reqs, PutRequests(x)
    PROVE  FreshInv'
<1> DEFINE h == Home[x]
<1>0. /\ h \in Scheds /\ put \in [Scheds -> PutState] /\ x \notin begun
      /\ put' = [put EXCEPT ![h] = [pc |-> "push", req |-> x]] /\ begun' = begun \cup {x}
      /\ UNCHANGED <<req_queue, get, emitted>>
  BY LengthType DEF TypeOK, PutRequests, redis
<1>1. \A s \in Scheds : put'[s] = IF s = h THEN [pc |-> "push", req |-> x] ELSE put[s]
  BY <1>0
<1>2. \A s \in Scheds : Pulled(s)' = Pulled(s)
  BY <1>0 DEF Pulled
<1>3. \A r \in Reqs \ begun' : emitted'[r] = 0
  BY <1>0 DEF FreshInv
<1>4. ASSUME NEW s \in Scheds
      PROVE  /\ put'[s].pc = "push" => emitted'[put'[s].req] = 0
             /\ \A r \in Range(req_queue'[s]) : emitted'[r] = 0
             /\ \A r \in Range(Pulled(s)') : emitted'[r] = 0
  BY <1>0, <1>1, <1>2 DEF FreshInv
<1> QED BY <1>3, <1>4 DEF FreshInv

LEMMA PushFresh ==
    ASSUME TypeOK, PlaceInv, ListInv, FreshInv, NEW s \in Scheds, PutPush(s)
    PROVE  FreshInv'
<1> DEFINE r == put[s].req
<1>0. /\ put \in [Scheds -> PutState] /\ put[s] \in PutState /\ put[s].pc = "push" /\ r \in Reqs
      /\ put' = [put EXCEPT ![s] = [put[s] EXCEPT !.pc = "count"]]
      /\ req_queue \in [Scheds -> Seq(Reqs)] /\ req_queue[s] \in Seq(Reqs)
      /\ req_queue' = [req_queue EXCEPT ![s] = Append(@, r)]
      /\ UNCHANGED <<get, emitted, begun>>
  BY DEF TypeOK, PutPush
<1>1. r \notin Range(req_queue[s])
  <2>1. /\ <<"put", s>> \in Place /\ <<"queue", s>> \in Place
        /\ Layout[<<"put", s>>] = {x \in Reqs : put[s] = [pc |-> "push", req |-> x]}
        /\ Layout[<<"queue", s>>] = Range(req_queue[s])
    BY LayoutAt DEF Kinds
  <2>2. r \in Layout[<<"put", s>>]
    BY <1>0, <2>1 DEF PutState
  <2> QED BY <2>1, <2>2 DEF PlaceInv, Apart
<1>2. Range(req_queue'[s]) = Range(req_queue[s]) \cup {r}
  <2>1. req_queue'[s] = Append(req_queue[s], r)
    BY <1>0
  <2> QED BY <1>0, <1>1, <2>1, OnceAppend DEF ListInv
<1>3. /\ \A t \in Scheds \ {s} : put'[t] = put[t] /\ req_queue'[t] = req_queue[t]
      /\ put'[s].pc = "count"
  BY <1>0 DEF PutState
<1>4. \A t \in Scheds : Pulled(t)' = Pulled(t)
  BY <1>0 DEF Pulled
<1>5. emitted[r] = 0
  BY <1>0 DEF FreshInv
<1> HIDE DEF r
<1>6. ASSUME NEW t \in Scheds
      PROVE  /\ put'[t].pc = "push" => emitted'[put'[t].req] = 0
             /\ \A x \in Range(req_queue'[t]) : emitted'[x] = 0
             /\ \A x \in Range(Pulled(t)') : emitted'[x] = 0
  <2>1. CASE t = s
    BY <1>0, <1>2, <1>3, <1>4, <1>5, <2>1 DEF FreshInv
  <2>2. CASE t # s
    BY <1>0, <1>3, <1>4, <2>2 DEF FreshInv
  <2> QED BY <2>1, <2>2
<1>7. \A x \in Reqs \ begun' : emitted'[x] = 0
  BY <1>0 DEF FreshInv
<1> QED BY <1>6, <1>7 DEF FreshInv

LEMMA PopFresh ==
    ASSUME TypeOK, ListInv, FreshInv, NEW s \in Scheds, NEW q \in Scheds, NEW n \in Nat,
           NEW otherwise \in {"idle", "lookup", "exists"},
           get[s].pc \in {"idle", "steal", "block"}, Pop(s, q, n, otherwise)
    PROVE  FreshInv'
<1> DEFINE k == IF Len(req_queue[q]) < n THEN Len(req_queue[q]) ELSE n
           a == SubSeq(req_queue[q], 1, k)
           b == SubSeq(req_queue[q], k + 1, Len(req_queue[q]))
<1>0. /\ req_queue \in [Scheds -> Seq(Reqs)] /\ req_queue[q] \in Seq(Reqs)
      /\ get \in [Scheds -> GetState] /\ get[s] \in GetState
      /\ Len(req_queue[q]) \in Nat /\ k \in 0 .. Len(req_queue[q])
  BY DEF TypeOK
<1>1. /\ req_queue' = [req_queue EXCEPT ![q] = b]
      /\ get' = [get EXCEPT ![s] = IF k = 0 THEN [get[s] EXCEPT !.pc = otherwise]
                                   ELSE [get[s] EXCEPT !.pc = "count", !.from = q, !.taken = a]]
      /\ UNCHANGED <<put, emitted, begun>>
  BY DEF Pop, getFrame
<1>2. Range(a) \subseteq Range(req_queue[q]) /\ Range(b) = Range(req_queue[q]) \ Range(a)
  <2>1. Once(req_queue[q])
    BY DEF ListInv
  <2> HIDE DEF k
  <2> QED BY ONLY <1>0, <2>1, OnceCut
<1> HIDE DEF k, a, b
<1>3. get[s].taken = << >>
  BY DEF ListInv
<1>4. get'[s].taken \in {<< >>, a} /\ get'[s].pc # "recount" /\ \A t \in Scheds \ {s} : get'[t] = get[t]
  BY <1>0, <1>1, <1>3 DEF GetState
<1>5. \A t \in Scheds : Range(req_queue'[t]) \subseteq Range(req_queue[t])
  BY <1>0, <1>1, <1>2
<1>6. /\ Range(Pulled(s)') \subseteq Range(req_queue[q])
      /\ \A t \in Scheds \ {s} : Pulled(t)' = Pulled(t)
  BY <1>2, <1>4, OnceEmpty DEF Pulled
<1>7. ASSUME NEW t \in Scheds
      PROVE  /\ put'[t].pc = "push" => emitted'[put'[t].req] = 0
             /\ \A x \in Range(req_queue'[t]) : emitted'[x] = 0
             /\ \A x \in Range(Pulled(t)') : emitted'[x] = 0
  <2>1. \A x \in Range(Pulled(t)') : emitted[x] = 0
    BY <1>6 DEF FreshInv
  <2> QED BY <1>1, <1>5, <2>1 DEF FreshInv
<1>8. \A x \in Reqs \ begun' : emitted'[x] = 0
  BY <1>1 DEF FreshInv
<1> QED BY <1>7, <1>8 DEF FreshInv

(* A step of get_requests after which the scheduler holds nothing more. *)
LEMMA EmptyHandFresh ==
    ASSUME TypeOK, FreshInv, NEW s \in Scheds, UNCHANGED <<put, req_queue, emitted, begun>>,
           \A t \in Scheds \ {s} : get'[t] = get[t], Range(get'[s].taken) \subseteq Range(Pulled(s))
    PROVE  FreshInv'
<1>1. \A t \in Scheds : Range(Pulled(t)') \subseteq Range(Pulled(t))
  <2> TAKE t \in Scheds
  <2>1. CASE t = s
    BY <2>1, OnceEmpty DEF Pulled
  <2>2. CASE t # s
    BY <2>2 DEF Pulled
  <2> QED BY <2>1, <2>2
<1> QED BY <1>1, FreshStill

LEMMA GetFresh ==
    ASSUME TypeOK, ListInv, ListInv', FreshInv, NEW s \in Scheds,
           \/ GetLocal(s) \/ Lookup(s) \/ Steal(s) \/ RemoveDead(s) \/ BlockingPop(s) \/ Recount(s)
    PROVE  FreshInv'
<1>0. Batch \in Nat \ {0} /\ get[s] \in GetState /\ get \in [Scheds -> GetState]
  BY GlobalAssumption DEF TypeOK
<1>1. CASE GetLocal(s)
  BY <1>0, <1>1, PopFresh DEF GetLocal
<1>2. CASE Steal(s)
  <2>1. Pop(s, get[s].from, (Batch + 1) \div 2, "exists") /\ get[s].pc = "steal"
    BY <1>2 DEF Steal
  <2>2. (Batch + 1) \div 2 \in Nat /\ get[s].from \in Scheds
    BY <1>0, <2>1 DEF TypeOK
  <2> QED BY <2>1, <2>2, PopFresh
<1>3. CASE Lookup(s) \/ RemoveDead(s)
  <2>1. UNCHANGED <<req_queue, put, emitted, begun>>
    BY <1>3 DEF Lookup, RemoveDead, getFrame
  <2>2. get'[s].pc \in {"block", "steal"} /\ \A t \in Scheds \ {s} : get'[t] = get[t]
    <3>1. CASE RemoveDead(s)
      BY <1>0, <3>1 DEF RemoveDead, GetState
    <3>2. CASE Lookup(s)
      <4> DEFINE others == {q \in Scheds \ {s} : load[q] >= MinLoad}
      <4>1. CASE others = {}
        <5>1. get' = [get EXCEPT ![s] = [get[s] EXCEPT !.pc = "block"]]
          BY <3>2, <4>1 DEF Lookup
        <5> QED BY <1>0, <5>1 DEF GetState
      <4>2. CASE others # {}
        <5>1. PICK q \in others :
                get' = [get EXCEPT ![s] = [get[s] EXCEPT !.pc = "steal", !.from = q, !.names = others]]
          BY <3>2, <4>2 DEF Lookup
        <5> HIDE DEF others
        <5> QED BY <1>0, <5>1 DEF GetState
      <4> QED BY <4>1, <4>2
    <3> QED BY <1>3, <3>1, <3>2
  <2>3. get'[s].taken = << >>
    BY <2>2 DEF ListInv
  <2> QED BY <2>1, <2>2, <2>3, EmptyHandFresh, OnceEmpty
<1>4. CASE BlockingPop(s)
  <2>0. get[s].pc = "block" /\ get[s].names \subseteq Scheds
    BY <1>0, <1>4 DEF BlockingPop, GetState
  <2>1. \/ \E q \in get[s].names \cup {s} : Pop(s, q, 1, "idle")
        \/ get' = [get EXCEPT ![s] = IdleGet] /\ UNCHANGED <<req_queue, load, getFrame, skewed>>
    BY <1>4 DEF BlockingPop
  <2>2. CASE \E q \in get[s].names \cup {s} : Pop(s, q, 1, "idle")
    BY <2>0, <2>2, PopFresh
  <2>3. CASE get' = [get EXCEPT ![s] = IdleGet] /\ UNCHANGED <<req_queue, load, getFrame, skewed>>
    <3>1. get'[s].taken = << >> /\ \A t \in Scheds \ {s} : get'[t] = get[t]
      BY <1>0, <2>3 DEF IdleGet
    <3> QED BY <2>3, <3>1, EmptyHandFresh, OnceEmpty DEF getFrame
  <2> QED BY <2>1, <2>2, <2>3
<1>5. CASE Recount(s)
  <2>1. /\ get'[s].taken = << >> /\ \A t \in Scheds \ {s} : get'[t] = get[t]
        /\ UNCHANGED <<req_queue, put, emitted, begun>>
    BY <1>0, <1>5 DEF IdleGet, Recount, getFrame
  <2> QED BY <2>1, EmptyHandFresh, OnceEmpty
<1> QED BY <1>1, <1>2, <1>3, <1>4, <1>5

LEMMA FitFresh ==
    ASSUME TypeOK, ListInv, FreshInv, NEW s \in Scheds, NEW k \in 0 .. Batch, CountAndFit(s, k)
    PROVE  FreshInv'
<1> DEFINE taken == get[s].taken
           rest == SubSeq(taken, k + 1, Len(taken))
<1>0. /\ get \in [Scheds -> GetState] /\ get[s] \in GetState /\ taken \in Seq(Reqs)
      /\ k \in 0 .. Len(taken) /\ get[s].pc = "count"
  <2>1. get[s].pc = "count" /\ k <= Len(get[s].taken) /\ Batch \in Nat
    BY GlobalAssumption DEF CountAndFit
  <2>2. get \in [Scheds -> GetState] /\ get[s] \in GetState /\ get[s].taken \in Seq(Reqs)
    BY DEF TypeOK, GetState
  <2> QED BY <2>1, <2>2
<1>1. /\ get' = [get EXCEPT ![s] = IF rest = << >> THEN IdleGet
                                   ELSE [get[s] EXCEPT !.pc = "back", !.taken = rest]]
      /\ UNCHANGED <<req_queue, put, emitted, begun>>
  BY DEF CountAndFit
<1>2. Range(rest) \subseteq Range(taken)
  <2>1. Once(taken)
    BY DEF ListInv
  <2> HIDE DEF taken
  <2>2. Range(rest) = Range(taken) \ Range(SubSeq(taken, 1, k))
    BY ONLY <1>0, <2>1, OnceCut
  <2> QED BY <2>2
<1> HIDE DEF rest
<1>3. get'[s].taken = rest /\ \A t \in Scheds \ {s} : get'[t] = get[t]
  BY <1>0, <1>1 DEF IdleGet, GetState
<1>4. Pulled(s) = taken
  BY <1>0 DEF Pulled
<1> QED BY <1>1, <1>2, <1>3, <1>4, EmptyHandFresh

LEMMA PutBackFresh ==
    ASSUME TypeOK, PlaceInv, ListInv, FreshInv, NEW s \in Scheds, PutBack(s)
    PROVE  FreshInv'
<1> DEFINE q == get[s].from
           taken == get[s].taken
           new == Reverse(taken) \o req_queue[q]
<1>0. /\ get \in [Scheds -> GetState] /\ get[s] \in GetState /\ taken \in Seq(Reqs)
      /\ get[s].pc = "back" /\ q \in Scheds /\ req_queue \in [Scheds -> Seq(Reqs)]
      /\ req_queue[q] \in Seq(Reqs)
  <2>1. get[s].pc = "back"
    BY DEF PutBack
  <2>2. get \in [Scheds -> GetState] /\ get[s] \in GetState /\ get[s].taken \in Seq(Reqs)
    BY DEF TypeOK, GetState
  <2> QED BY <2>1, <2>2 DEF TypeOK
<1>1. /\ req_queue' = [req_queue EXCEPT ![q] = new]
      /\ get' = [get EXCEPT ![s] = [get[s] EXCEPT !.pc = "recount"]]
      /\ UNCHANGED <<put, emitted, begun>>
  BY DEF PutBack, getFrame
<1>2. Pulled(s) = taken
  BY <1>0 DEF Pulled
<1>3. Range(taken) \cap Range(req_queue[q]) = {}
  <2>1. /\ <<"pulled", s>> \in Place /\ <<"queue", q>> \in Place /\ <<"pulled", s>> # <<"queue", q>>
        /\ Layout[<<"pulled", s>>] = Range(Pulled(s)) /\ Layout[<<"queue", q>>] = Range(req_queue[q])
    BY <1>0, LayoutAt DEF Kinds
  <2>2. Layout[<<"pulled", s>>] \cap Layout[<<"queue", q>>] = {}
    BY <2>1 DEF PlaceInv, Apart
  <2> QED BY <1>2, <2>1, <2>2
<1>4. Range(new) = Range(taken) \cup Range(req_queue[q])
  BY <1>0, <1>3, OncePutBack DEF ListInv
<1> HIDE DEF new
<1>5. /\ \A t \in Scheds \ {s} : get'[t] = get[t]
      /\ \A t \in Scheds : req_queue'[t] = IF t = q THEN new ELSE req_queue[t]
      /\ get'[s].pc = "recount"
  BY <1>0, <1>1 DEF GetState
<1>6. \A r \in Range(new) : emitted[r] = 0
  BY <1>0, <1>2, <1>4 DEF FreshInv
<1>7. Pulled(s)' = << >> /\ \A t \in Scheds \ {s} : Pulled(t)' = Pulled(t)
  BY <1>5 DEF Pulled
<1>8. ASSUME NEW t \in Scheds
      PROVE  /\ put'[t].pc = "push" => emitted'[put'[t].req] = 0
             /\ \A x \in Range(req_queue'[t]) : emitted'[x] = 0
             /\ \A x \in Range(Pulled(t)') : emitted'[x] = 0
  <2>1. \A x \in Range(Pulled(t)') : emitted[x] = 0
    BY <1>7, OnceEmpty DEF FreshInv
  <2>2. \A x \in Range(req_queue'[t]) : emitted[x] = 0
    BY <1>5, <1>6 DEF FreshInv
  <2> QED BY <1>1, <2>1, <2>2 DEF FreshInv
<1>9. \A x \in Reqs \ begun' : emitted'[x] = 0
  BY <1>1 DEF FreshInv
<1> QED BY <1>8, <1>9 DEF FreshInv

LEMMA EmitFresh ==
    ASSUME TypeOK, PlaceInv, FreshInv, NEW s \in Scheds, NEW x \in Reqs, PutResults(s, x)
    PROVE  FreshInv'
<1>0. /\ x \in engine[s] /\ emitted \in [Reqs -> Nat] /\ emitted' = [emitted EXCEPT ![x] = @ + 1]
      /\ UNCHANGED <<req_queue, put, get, begun>>
  BY DEF TypeOK, PutResults, redis
<1>1. \A r : r # x => emitted'[r] = emitted[r]
  BY <1>0
<1>2. /\ <<"engine", s>> \in Place /\ x \in Layout[<<"engine", s>>]
  BY <1>0, LayoutAt DEF Kinds
<1>3. x \in begun
  BY <1>2 DEF PlaceInv
<1>4. ASSUME NEW t \in Scheds
      PROVE  /\ put[t].pc = "push" => put[t].req # x
             /\ x \notin Range(req_queue[t]) /\ x \notin Range(Pulled(t))
  <2>1. /\ <<"put", t>> \in Place /\ <<"queue", t>> \in Place /\ <<"pulled", t>> \in Place
        /\ <<"put", t>> # <<"engine", s>> /\ <<"queue", t>> # <<"engine", s>> /\ <<"pulled", t>> # <<"engine", s>>
    BY LayoutAt DEF Kinds
  <2>2. x \notin Layout[<<"put", t>>] /\ x \notin Layout[<<"queue", t>>] /\ x \notin Layout[<<"pulled", t>>]
    BY <1>2, <2>1 DEF PlaceInv, Apart
  <2>3. put[t].pc = "push" => put[t].req # x
    <3> SUFFICES ASSUME put[t].pc = "push", put[t].req = x PROVE FALSE
      OBVIOUS
    <3>1. put[t] = [pc |-> "push", req |-> x]
      BY DEF TypeOK, PutState
    <3> QED BY <2>2, <3>1, LayoutAt
  <2> QED BY <2>2, <2>3, LayoutAt
<1>5. \A t \in Scheds : Pulled(t)' = Pulled(t)
  BY <1>0 DEF Pulled
<1>6. ASSUME NEW t \in Scheds
      PROVE  /\ put'[t].pc = "push" => emitted'[put'[t].req] = 0
             /\ \A r \in Range(req_queue'[t]) : emitted'[r] = 0
             /\ \A r \in Range(Pulled(t)') : emitted'[r] = 0
  BY <1>0, <1>1, <1>4, <1>5 DEF FreshInv
<1>7. \A r \in Reqs \ begun' : emitted'[r] = 0
  BY <1>0, <1>1, <1>3 DEF FreshInv
<1> QED BY <1>6, <1>7 DEF FreshInv

LEMMA QuietFresh ==
    ASSUME FreshInv, UNCHANGED <<req_queue, put, get, emitted, begun>>
    PROVE  FreshInv'
<1>1. \A t \in Scheds : Pulled(t)' = Pulled(t)
  BY DEF Pulled
<1> QED BY <1>1, FreshStill

LEMMA FaultFresh ==
    ASSUME TypeOK, FreshInv, NEW s \in Scheds, Reset(s) \/ Crash(s)
    PROVE  FreshInv'
<1>1. CASE Reset(s)
  <2>1. /\ \A t \in Scheds : req_queue'[t] = IF t = s THEN << >> ELSE req_queue[t]
        /\ UNCHANGED <<put, get, emitted, begun>>
    BY <1>1 DEF Reset, TypeOK
  <2>2. \A t \in Scheds : Pulled(t)' = Pulled(t)
    BY <2>1 DEF Pulled
  <2>3. \A t \in Scheds : Range(req_queue'[t]) \subseteq Range(req_queue[t])
    BY <2>1, OnceEmpty
  <2> QED BY <2>1, <2>2, <2>3, FreshStill
<1>2. CASE Crash(s)
  <2>1. /\ \A t \in Scheds : put'[t] = IF t = s THEN IdlePut ELSE put[t]
        /\ \A t \in Scheds : get'[t] = IF t = s THEN IdleGet ELSE get[t]
        /\ UNCHANGED <<req_queue, emitted, begun>>
    BY <1>2 DEF Crash, TypeOK, redis
  <2>2. ASSUME NEW t \in Scheds PROVE Range(Pulled(t)') \subseteq Range(Pulled(t))
    <3>1. CASE t = s
      BY <2>1, <3>1, OnceEmpty DEF Pulled, IdleGet
    <3>2. CASE t # s
      BY <2>1, <3>2 DEF Pulled
    <3> QED BY <3>1, <3>2
  <2>3. \A t \in Scheds : put'[t].pc = "push" => put'[t] = put[t]
    BY <2>1 DEF IdlePut
  <2> QED BY <2>1, <2>2, <2>3, FreshStill
<1> QED BY <1>1, <1>2

(* Every step preserves both invariants, and they hold at the start. *)
LEMMA FreshPreserved ==
    ASSUME TypeOK, PlaceInv, ListInv, ListInv', FreshInv, [Next]_vars
    PROVE  FreshInv'
<1>1. ASSUME NEW r \in Reqs, PutRequests(r) PROVE FreshInv'
  BY <1>1, PutFresh
<1>2. ASSUME NEW s \in Scheds, PutPush(s) PROVE FreshInv'
  BY <1>2, PushFresh
<1>3. ASSUME NEW s \in Scheds, PutCount(s) PROVE FreshInv'
  <2>1. /\ \A t \in Scheds : put'[t] = IF t = s THEN IdlePut ELSE put[t]
        /\ UNCHANGED <<req_queue, get, emitted, begun>>
    BY <1>3 DEF PutCount, TypeOK
  <2>2. \A t \in Scheds : Pulled(t)' = Pulled(t)
    BY <2>1 DEF Pulled
  <2>3. \A t \in Scheds : put'[t].pc = "push" => put'[t] = put[t]
    BY <2>1 DEF IdlePut
  <2> QED BY <2>1, <2>2, <2>3, FreshStill
<1>4. ASSUME NEW s \in Scheds,
             \/ GetLocal(s) \/ Lookup(s) \/ Steal(s) \/ RemoveDead(s) \/ BlockingPop(s) \/ Recount(s)
      PROVE  FreshInv'
  BY <1>4, GetFresh
<1>5. ASSUME NEW s \in Scheds, NEW k \in 0 .. Batch, CountAndFit(s, k) PROVE FreshInv'
  BY <1>5, FitFresh
<1>6. ASSUME NEW s \in Scheds, PutBack(s) PROVE FreshInv'
  BY <1>6, PutBackFresh
<1>7. ASSUME NEW s \in Scheds, NEW r \in Reqs, PutResults(s, r) PROVE FreshInv'
  BY <1>7, EmitFresh
<1>8. ASSUME NEW s \in Scheds,
             TakeBatch(s) \/ ApplyBatch(s) \/ (\E h \in Scheds : PushStolen(s, h))
               \/ GetResultsWorker(s) \/ GetResults(s) \/ Expire(s)
      PROVE  FreshInv'
  <2>1. UNCHANGED <<req_queue, put, get, emitted, begun>>
    BY <1>8 DEF TakeBatch, ApplyBatch, PushStolen, GetResultsWorker, GetResults, Expire, redis
  <2> QED BY <2>1, QuietFresh
<1>9. ASSUME NEW s \in Scheds, Reset(s) \/ Crash(s) PROVE FreshInv'
  BY <1>9, FaultFresh
<1>10. CASE UNCHANGED vars
  BY <1>10, QuietFresh DEF vars, redis
<1> QED BY <1>1, <1>2, <1>3, <1>4, <1>5, <1>6, <1>7, <1>8, <1>9, <1>10 DEF Next

LEMMA StreamsPreserved ==
    ASSUME TypeOK, TypeOK', PlaceInv, FreshInv, StreamInv, [Next]_vars
    PROVE  StreamInv'
<1>0. EngineOpen
  BY OpenEngines
<1>1. ASSUME NEW r \in Reqs, PutRequests(r) PROVE StreamInv'
  BY <1>1, EnlistStreams
<1>2. ASSUME NEW s \in Scheds,
             \/ PutPush(s) \/ PutCount(s) \/ GetLocal(s) \/ Lookup(s) \/ Steal(s) \/ RemoveDead(s)
             \/ BlockingPop(s) \/ PutBack(s) \/ Recount(s) \/ Expire(s)
      PROVE  StreamInv'
  <2> DEFINE same == UNCHANGED <<out, mem, resp_queue, engine, emitted, delivered, begun, hurt>>
  <2>1. PutPush(s) \/ PutCount(s) \/ Expire(s) => same
    BY DEF PutPush, PutCount, Expire, faults
  <2>2. Lookup(s) \/ RemoveDead(s) \/ PutBack(s) \/ Recount(s) => same
    BY DEF Lookup, RemoveDead, PutBack, Recount, getFrame
  <2>3. GetLocal(s) \/ Steal(s) \/ BlockingPop(s) => same
    BY DEF GetLocal, Steal, BlockingPop, Pop, getFrame
  <2> QED BY <1>2, <2>1, <2>2, <2>3, QuietStreams
<1>3. ASSUME NEW s \in Scheds, NEW k \in 0 .. Batch, CountAndFit(s, k) PROVE StreamInv'
  BY <1>3, FitStreams
<1>4. ASSUME NEW s \in Scheds, NEW r \in Reqs, PutResults(s, r) PROVE StreamInv'
  BY <1>4, EmitStreams
<1>5. ASSUME NEW s \in Scheds, TakeBatch(s) \/ ApplyBatch(s) PROVE StreamInv'
  BY <1>0, <1>5, TakeStreams, ApplyStreams
<1>6. ASSUME NEW s \in Scheds, NEW h \in Scheds, PushStolen(s, h) PROVE StreamInv'
  BY <1>6, PushStreams
<1>7. ASSUME NEW s \in Scheds, GetResultsWorker(s) \/ GetResults(s) PROVE StreamInv'
  BY <1>7, WorkerStreams, HandStreams
<1>8. ASSUME NEW s \in Scheds, Reset(s) \/ Crash(s) PROVE StreamInv'
  BY <1>8, ResetStreams, CrashStreams
<1>9. CASE UNCHANGED vars
  BY <1>9, QuietStreams DEF vars, redis, faults
<1> QED BY <1>1, <1>2, <1>3, <1>4, <1>5, <1>6, <1>7, <1>8, <1>9 DEF Next

LEMMA InitStreams == Init => FreshInv /\ StreamInv
<1> SUFFICES ASSUME Init PROVE FreshInv /\ StreamInv
  OBVIOUS
<1>1. /\ begun = {} /\ \A r \in Reqs : emitted[r] = 0 /\ delivered[r] = << >>
      /\ \A s \in Scheds : /\ req_queue[s] = << >> /\ resp_queue[s] = << >> /\ engine[s] = {}
                           /\ put[s].pc = "idle" /\ get[s].pc = "idle" /\ get[s].taken = << >>
  BY DEF Init, IdlePut, IdleGet
<1>2. \A s \in Scheds : /\ mem[s].responses = << >> /\ mem[s].tracked = {} /\ mem[s].stolen = {}
                        /\ out[s].results = << >> /\ out[s].batch = << >> /\ out[s].pushing = << >>
                        /\ out[s].local = {} /\ out[s].stolen = {}
  BY DEF Init, Empty, NoBatch
<1>3. FreshInv
  BY <1>1, OnceEmpty DEF FreshInv, Pulled
<1>4. Batches(out, mem, hurt)
  BY <1>2, NoBatchLost DEF Batches
<1>5. ASSUME NEW r \in Reqs PROVE Good(View(r), Home[r], Length[r])
  <2>1. Shows(View(r), out, mem, resp_queue, engine, emitted, delivered, r)
    BY ViewShows DEF View
  <2>2. StateTypes(out, mem, resp_queue, engine, emitted, delivered)
    BY InitTypes DEF TypeOK, StateTypes
  <2>3. Typed(View(r), Length[r]) /\ Home[r] \in Scheds
    BY <2>2, ViewTyped, LengthType DEF View
  <2>4. Nums(<< >>, r) = << >>
    BY NumsEmpty
  <2> DEFINE v == View(r)
  <2>5. /\ v.y = << >> /\ v.d = << >> /\ v.n = 0
        /\ \A s \in Scheds : /\ v.p[s] = << >> /\ v.b[s] = << >> /\ v.q[s] = << >> /\ v.box[s] = << >>
                             /\ s \notin v.t /\ s \notin v.mst /\ s \notin v.loc /\ s \notin v.sto
    BY <1>1, <1>2, <2>1, <2>3, <2>4 DEF Shows
  <2>6. Typed(v, Length[r])
    BY <2>3
  <2> HIDE DEF v
  <2>7. \A s \in Scheds : Row(v, s) = << >>
    BY <2>5, <2>6, RowFacts
  <2>8. Rows(v, Length[r])
    <3>1. Seg(0, 0) = << >> /\ 0 \in 0 .. 0
      BY SegEmpty
    <3> QED BY <2>5, <2>7, <3>1 DEF Rows
  <2>9. Sides(v, Home[r])
    BY <2>3, <2>5, <2>6 DEF Sides, Typed
  <2>10. Started(v, Home[r]) /\ Foreign(v, Home[r]) /\ LastOut(v, Home[r], Length[r])
    BY <2>3, <2>5, OnceEmpty DEF Started, Foreign, LastOut
  <2>11. Good(v, Home[r], Length[r])
    BY <2>8, <2>9, <2>10 DEF Good
  <2> QED BY <2>11 DEF v
<1>6. Views
  BY <1>1, <1>5 DEF Views
<1> QED BY <1>3, <1>4, <1>6 DEF StreamInv

(* What the view says of the stream that the property names. *)
LEMMA StreamOfView ==
    ASSUME TypeOK, NEW r \in Reqs, Streamed(View(r), Home[r])
    PROVE  Stream(r) = [i \in 1 .. emitted[r] |-> i]
<1> DEFINE v == View(r)
           h == Home[r]
           from == {s \in Scheds : AtExecutor(r, s) # << >>}
<1>1. Shows(v, out, mem, resp_queue, engine, emitted, delivered, r)
  BY ViewShows DEF View
<1>2. Typed(v, Length[r]) /\ h \in Scheds
  <2>1. StateTypes(out, mem, resp_queue, engine, emitted, delivered)
    BY DEF TypeOK, StateTypes
  <2> QED BY <2>1, ViewTyped, LengthType DEF View
<1>3. ASSUME NEW s \in Scheds
      PROVE  Numbers(AtExecutor(r, s)) = Row(v, s) /\ (AtExecutor(r, s) = << >> <=> Row(v, s) = << >>)
  <2> DEFINE a == out[s].pushing
             b == out[s].batch
             c == out[s].results
             ab == a \o b
             all == ab \o c
  <2>1. a \in Seq(Response) /\ b \in Seq(Response) /\ c \in Seq(Response)
    BY DEF TypeOK, OutState
  <2>2. AtExecutor(r, s) = Of(all, {r})
    BY DEF AtExecutor
  <2>3. Row(v, s) = Nums(a, r) \o (Nums(b, r) \o Nums(c, r))
    BY <1>1 DEF Shows, Row
  <2> HIDE DEF a, b, c
  <2>4. ab \in Seq(Response) /\ IsJoin(Nums(ab, r), Nums(a, r), Nums(b, r))
    BY <2>1, ConcatProperties, NumsConcat DEF IsJoin
  <2> HIDE DEF ab
  <2>5. all \in Seq(Response) /\ IsJoin(Nums(all, r), Nums(ab, r), Nums(c, r))
    BY <2>1, <2>4, ConcatProperties, NumsConcat DEF IsJoin
  <2> HIDE DEF all
  <2>6. Nums(a, r) \in Seq(Nat) /\ Nums(b, r) \in Seq(Nat) /\ Nums(c, r) \in Seq(Nat)
    BY <2>1, NumsType
  <2>7. Nums(all, r) = Row(v, s)
    <3> DEFINE x == Nums(a, r)
               y == Nums(b, r)
               z == Nums(c, r)
    <3>1. x \in Seq(Nat) /\ y \in Seq(Nat) /\ z \in Seq(Nat)
      BY <2>6
    <3>2. Nums(all, r) = (x \o y) \o z /\ Row(v, s) = x \o (y \o z)
      BY <2>3, <2>4, <2>5 DEF IsJoin
    <3> HIDE DEF x, y, z
    <3>3. (x \o y) \o z = x \o (y \o z)
      BY <3>1, JoinAssoc
    <3> QED BY <3>2, <3>3
  <2>8. Nums(all, r) = Numbers(AtExecutor(r, s))
    BY <2>2 DEF Nums
  <2>9. /\ Of(all, {r}) \in Seq(Response) /\ Nums(all, r) \in Seq(Nat)
        /\ Len(Nums(all, r)) = Len(Of(all, {r}))
    BY <2>5, NumsType
  <2>10. Of(all, {r}) = << >> <=> Nums(all, r) = << >>
    BY <2>9, EmptySeq
  <2> QED BY <2>2, <2>7, <2>8, <2>10
<1>4. Numbers(AtHome(r)) = v.box[h] \o v.y
  <2> DEFINE a == mem[h].responses
             b == resp_queue[h]
  <2>1. a \in Seq(Response) /\ b \in Seq(Response)
    BY <1>2 DEF TypeOK, MemState
  <2>2. Numbers(AtHome(r)) = Nums(a \o b, r) /\ v.box[h] = Nums(a, r) /\ v.y = Nums(b, r)
    BY <1>1, <1>2 DEF AtHome, Nums, Shows
  <2> HIDE DEF a, b
  <2>3. Nums(a \o b, r) = Nums(a, r) \o Nums(b, r)
    BY <2>1, NumsConcat
  <2> QED BY <2>2, <2>3
<1>5. delivered[r] \o Numbers(AtHome(r)) = Sent(v, h)
  <2> DEFINE d == v.d
             x == v.box[h]
             y == v.y
  <2>1. d \in Seq(Nat) /\ x \in Seq(Nat) /\ y \in Seq(Nat)
    BY <1>2 DEF Typed
  <2>2. delivered[r] = d /\ Numbers(AtHome(r)) = x \o y /\ Sent(v, h) = (d \o x) \o y
    BY <1>1, <1>4 DEF Shows, Sent
  <2> HIDE DEF d, x, y
  <2>3. (d \o x) \o y = d \o (x \o y)
    BY <2>1, JoinAssoc
  <2> QED BY <2>2, <2>3
<1>6. PICK s \in Scheds : /\ \A t \in Scheds \ {s} : Row(v, t) = << >>
                          /\ Sent(v, h) \o Row(v, s) = Seg(0, v.n)
  BY DEF Streamed
<1> DEFINE tail == IF from = {} THEN << >> ELSE Numbers(AtExecutor(r, CHOOSE t \in from : TRUE))
<1>7. tail = Row(v, s)
  <2>1. from \subseteq {s} /\ (Row(v, s) # << >> => s \in from) /\ (s \in from => Row(v, s) # << >>)
    BY <1>3, <1>6
  <2> HIDE DEF from
  <2>2. CASE from = {}
    BY <2>1, <2>2
  <2>3. CASE from # {}
    <3>1. (CHOOSE t \in from : TRUE) \in from
      BY <2>3
    <3>2. (CHOOSE t \in from : TRUE) = s
      BY <2>1, <3>1
    <3> QED BY <1>3, <2>3, <3>2
  <2> QED BY <2>2, <2>3
<1>8. Stream(r) = (delivered[r] \o Numbers(AtHome(r))) \o tail
  BY DEF Stream
<1> HIDE DEF tail, from
<1>9. Stream(r) = Seg(0, v.n)
  BY <1>5, <1>6, <1>7, <1>8
<1>10. v.n = emitted[r] /\ emitted[r] \in Nat
  BY <1>1 DEF Shows, TypeOK
<1>11. Seg(0, emitted[r]) = [i \in 1 .. emitted[r] |-> i]
  BY <1>10 DEF Seg
<1> QED BY <1>9, <1>10, <1>11

(* The responses of a request that no reset or crash has struck pass through *)
(* its executor, Redis and its home to the client complete and in order: for *)
(* any number of schedulers, and whatever its batches are mixed with, none   *)
(* is lost, doubled or overtaken, stolen or not.                             *)
THEOREM StreamsStayIntact == Spec => []StreamsIntact
<1>1. Init => FreshInv /\ StreamInv
  BY InitStreams
<1>2. IInv /\ IInv' /\ FreshInv /\ StreamInv /\ [Next]_vars => FreshInv' /\ StreamInv'
  BY FreshPreserved, StreamsPreserved DEF IInv
<1>3. IInv /\ StreamInv => StreamsIntact
  <2> SUFFICES ASSUME TypeOK, StreamInv, NEW r \in begun \ hurt
               PROVE  Stream(r) = [i \in 1 .. emitted[r] |-> i]
    BY DEF IInv, StreamsIntact
  <2>1. r \in Reqs /\ Streamed(View(r), Home[r])
    BY DEF TypeOK, StreamInv, Views, Whole
  <2> QED BY <2>1, StreamOfView
<1> QED BY <1>1, <1>2, <1>3, Inductive, PTL DEF Spec
=============================================================================
