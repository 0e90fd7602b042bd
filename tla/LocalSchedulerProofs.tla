------------------------ MODULE LocalSchedulerProofs ------------------------
(***************************************************************************)
(* LocalScheduler for every set of requests and every max_size: it is      *)
(* never over its size, so the branch of _recycle() that looks for expired *)
(* requests is never reached; every request is handed out once, whatever   *)
(* get_results recycles in between; and its client gets its stream.        *)
(***************************************************************************)
EXTENDS LocalScheduler, ListOpsProofs, FunctionTheorems

SizeInv == requests \in SUBSET Ids /\ SizeBounded

(* The requests held are finitely many. *)
LEMMA RequestsFinite ==
    ASSUME NEW S \in SUBSET Ids
    PROVE  IsFiniteSet(S) /\ Cardinality(S) \in Nat
<1>1. IsFiniteSet(S)
  BY SizesAssumption, FS_Subset
<1> QED BY <1>1, FS_CardinalityType

(* put_requests keeps the size within max_size. *)
LEMMA PutKeepsSize ==
    ASSUME SizeInv, NEW r \in Ids, PutRequests(r)
    PROVE  SizeInv'
<1>1. requests' = requests \cup {r} /\ requests' \in SUBSET Ids
  BY DEF PutRequests, SizeInv
<1>2. IsFiniteSet(requests) /\ Cardinality(requests) \in Nat
  BY RequestsFinite DEF SizeInv
<1>3. Cardinality(requests') \in {Cardinality(requests), Cardinality(requests) + 1}
  BY <1>1, <1>2, FS_AddElement
<1>4. SizeBounded'
  BY <1>2, <1>3, SizesAssumption DEF SizeInv, SizeBounded, PutRequests, Room
<1> QED BY <1>1, <1>4 DEF SizeInv

(* Steps that add no request. *)
LEMMA FewerKeepsSize ==
    ASSUME SizeInv, requests' \subseteq requests
    PROVE  SizeInv'
<1>1. requests' \in SUBSET Ids
  BY DEF SizeInv
<1>2. IsFiniteSet(requests) /\ Cardinality(requests) \in Nat /\ Cardinality(requests') \in Nat
  BY <1>1, RequestsFinite DEF SizeInv
<1>3. Cardinality(requests') <= Cardinality(requests)
  BY <1>2, FS_Subset
<1>4. SizeBounded'
  BY <1>2, <1>3, SizesAssumption DEF SizeInv, SizeBounded
<1> QED BY <1>1, <1>4 DEF SizeInv

(* Every step keeps the size within max_size. *)
LEMMA NextKeepsSize == SizeInv /\ [Next]_vars => SizeInv'
<1> SUFFICES ASSUME SizeInv, [Next]_vars PROVE SizeInv'
  OBVIOUS
<1>1. CASE \E r \in Ids : PutRequests(r)
  BY <1>1, PutKeepsSize
<1>2. CASE \E blocks \in 0 .. MaxBlocks, batch \in 0 .. MaxBatch : GetRequests(blocks, batch)
  BY <1>2, FewerKeepsSize DEF GetRequests
<1>3. CASE \E batch \in SUBSET Working : \E finished \in SUBSET batch : PutResults(batch, finished)
  BY <1>3, FewerKeepsSize DEF PutResults
<1>4. CASE GetResults
  BY <1>4, FewerKeepsSize DEF GetResults
<1>5. CASE Reset
  BY <1>5, FewerKeepsSize DEF Reset
<1>6. CASE UNCHANGED vars
  BY <1>6, FewerKeepsSize DEF vars, schedulerVars
<1> QED BY <1>1, <1>2, <1>3, <1>4, <1>5, <1>6 DEF Next

(* The scheduler never holds more than max_size requests: put_requests       *)
(* refuses what would exceed it, and no other method adds any.               *)
THEOREM SizeIsBounded == Spec => []SizeBounded
<1>1. Init => SizeInv
  <2> SUFFICES ASSUME Init PROVE SizeInv
    OBVIOUS
  <2>1. requests = {} /\ Cardinality(requests) = 0
    BY FS_EmptySet DEF Init
  <2> QED BY <2>1, SizesAssumption DEF SizeInv, SizeBounded
<1>2. SizeInv => SizeBounded
  BY DEF SizeInv
<1> QED BY <1>1, <1>2, NextKeepsSize, PTL DEF Spec

-----------------------------------------------------------------------------
(* What becomes of a request: it is known to the scheduler, or a reset has *)
(* dropped it, or it is done and its responses have been collected.        *)
Accounts ==
    /\ requests \cup dropped \subseteq accepted /\ requests \cap dropped = {}
    /\ \A r \in Ids :
        /\ r \in done => handed[r] > 0
        /\ handed[r] > 0 => r \in accepted
        /\ r \in accepted \ (requests \cup dropped) => r \in done
        /\ responses[r] # << >> => r \in requests
        /\ r \notin done => produced[r] < MaxResponses

IInv == TypeOK /\ Accounts /\ HandedOutOnce /\ StreamsIntact

(* Lists of responses. *)
LEMMA ConcatElements ==
    ASSUME NEW M, NEW d \in Seq(M), NEW s \in Seq(M)
    PROVE  /\ DOMAIN (d \o s) = 1 .. Len(d) + Len(s)
           /\ d \o s = [i \in DOMAIN (d \o s) |-> (d \o s)[i]]
           /\ \A i \in 1 .. Len(d) : (d \o s)[i] = d[i]
           /\ \A i \in Len(d) + 1 .. Len(d) + Len(s) : (d \o s)[i] = s[i - Len(d)]
<1>1. Len(d) \in Nat /\ Len(s) \in Nat
  BY LenProperties
<1>2. /\ d \o s \in Seq(M) /\ Len(d \o s) = Len(d) + Len(s)
      /\ \A i \in 1 .. Len(d) + Len(s) : (d \o s)[i] = IF i <= Len(d) THEN d[i] ELSE s[i - Len(d)]
  BY ConcatProperties
<1>3. DOMAIN (d \o s) = 1 .. Len(d) + Len(s) /\ d \o s = [i \in DOMAIN (d \o s) |-> (d \o s)[i]]
  <2> DEFINE w == d \o s
  <2>1. w \in Seq(M) /\ Len(w) = Len(d) + Len(s)
    BY <1>2
  <2> HIDE DEF w
  <2>2. DOMAIN w = 1 .. Len(d) + Len(s) /\ w = [i \in DOMAIN w |-> w[i]]
    BY <2>1, LenProperties
  <2> QED BY <2>2 DEF w
<1> QED BY <1>1, <1>2, <1>3

Stream(n) == [i \in 1 .. n |-> i]

LEMMA NextResponse ==
    ASSUME NEW d \in Seq(1 .. MaxResponses), NEW s \in Seq(1 .. MaxResponses), NEW n \in 0 .. MaxResponses - 1,
           d \o s = Stream(n)
    PROVE  d \o Append(s, n + 1) = Stream(n + 1)
<1> DEFINE M == 1 .. MaxResponses
<1>0. n \in Nat /\ n + 1 \in M /\ d \in Seq(M) /\ s \in Seq(M)
  BY SizesAssumption
<1> HIDE DEF M
<1> DEFINE a == Append(s, n + 1)
           u == d \o s
           v == d \o a
<1>1. /\ a \in Seq(M) /\ Len(a) = Len(s) + 1 /\ a[Len(s) + 1] = n + 1
      /\ \A i \in 1 .. Len(s) : a[i] = s[i]
  BY <1>0, AppendProperties
<1> HIDE DEF a
<1>2. Len(d) \in Nat /\ Len(s) \in Nat
  BY <1>0, LenProperties
<1>3. /\ DOMAIN u = 1 .. Len(d) + Len(s) /\ \A i \in 1 .. Len(d) : u[i] = d[i]
      /\ \A i \in Len(d) + 1 .. Len(d) + Len(s) : u[i] = s[i - Len(d)]
  BY ONLY <1>0, ConcatElements
<1>4. /\ DOMAIN v = 1 .. Len(d) + Len(a) /\ \A i \in 1 .. Len(d) : v[i] = d[i]
      /\ \A i \in Len(d) + 1 .. Len(d) + Len(a) : v[i] = a[i - Len(d)]
  BY <1>0, <1>1, ConcatElements
<1>5. v = [i \in DOMAIN v |-> v[i]]
  BY <1>0, <1>1, ConcatElements
<1>6. DOMAIN u = 1 .. n /\ \A i \in 1 .. n : u[i] = i
  BY DEF Stream
<1> HIDE DEF u, v
<1>7. Len(d) + Len(s) = n
  BY <1>0, <1>2, <1>3, <1>6
<1>8. ASSUME NEW i \in 1 .. n + 1 PROVE v[i] = i
  <2>1. CASE i \in 1 .. Len(d)
    BY <1>2, <1>3, <1>4, <1>6, <1>7, <2>1
  <2>2. CASE i \in Len(d) + 1 .. n
    <3>1. i - Len(d) \in 1 .. Len(s) /\ i \in Len(d) + 1 .. Len(d) + Len(a) /\ i \in 1 .. n
      BY <1>0, <1>1, <1>2, <1>7, <2>2
    <3> QED BY <1>1, <1>3, <1>4, <1>6, <1>7, <2>2, <3>1
  <2>3. CASE i = n + 1
    <3>1. i - Len(d) = Len(s) + 1 /\ i \in Len(d) + 1 .. Len(d) + Len(a)
      BY <1>0, <1>1, <1>2, <1>7, <2>3
    <3> QED BY <1>1, <1>4, <2>3, <3>1
  <2> QED BY <1>0, <1>2, <1>7, <2>1, <2>2, <2>3
<1>9. DOMAIN v = 1 .. n + 1
  <2>1. Len(d) + Len(a) = n + 1
    BY <1>0, <1>1, <1>2, <1>7
  <2> QED BY <1>4, <2>1
<1> QED BY <1>5, <1>8, <1>9 DEF v, a, Stream

-----------------------------------------------------------------------------
(* put_requests: the new id is last, and not handed out. *)
LEMMA PutKeeps ==
    ASSUME IInv, NEW r \in Ids, PutRequests(r)
    PROVE  IInv'
<1>t. ids \in Seq(Ids) /\ ids_read_cursor \in 0 .. Len(ids) /\ handed \in [Ids -> Nat] /\ Len(ids) \in Nat
  BY DEF IInv, TypeOK
<1>1. /\ r \notin accepted /\ requests' = requests \cup {r} /\ ids' = Append(ids, r)
      /\ accepted' = accepted \cup {r}
      /\ UNCHANGED <<ids_read_cursor, responses, handed, produced, done, delivered, dropped, resets>>
  BY DEF PutRequests
<1>2. r \notin requests /\ handed[r] = 0
  BY <1>t, <1>1 DEF IInv, Accounts
<1>3. /\ ids' \in Seq(Ids) /\ Len(ids') = Len(ids) + 1 /\ ids'[Len(ids) + 1] = r
      /\ \A i \in 1 .. Len(ids) : ids'[i] = ids[i]
  BY <1>t, <1>1, AppendProperties
<1>4. TypeOK'
  BY <1>t, <1>1, <1>3 DEF IInv, TypeOK
<1>5. Accounts'
  BY <1>1, <1>2 DEF IInv, Accounts
<1>6. \A i \in 1 .. Len(ids) : ids[i] \in requests
  BY DEF IInv, HandedOutOnce, Members
<1>7. HandedOutOnce'
  <2>1. ASSUME NEW i \in 1 .. Len(ids')
        PROVE  handed'[ids'[i]] = IF i <= ids_read_cursor' THEN 1 ELSE 0
    <3>1. CASE i = Len(ids) + 1
      BY <1>t, <1>1, <1>2, <1>3, <3>1
    <3>2. CASE i \in 1 .. Len(ids)
      BY <1>1, <1>3, <3>2 DEF IInv, HandedOutOnce
    <3> QED BY <1>t, <1>3, <3>1, <3>2
  <2>2. ASSUME NEW i \in 1 .. Len(ids'), NEW j \in 1 .. Len(ids'), i # j
        PROVE  ids'[i] # ids'[j]
    <3>1. i \in 1 .. Len(ids) \/ i = Len(ids) + 1
      BY <1>t, <1>3
    <3>2. j \in 1 .. Len(ids) \/ j = Len(ids) + 1
      BY <1>t, <1>3
    <3> QED BY <1>2, <1>3, <1>6, <2>2, <3>1, <3>2 DEF IInv, HandedOutOnce
  <2>3. Members(ids)' = requests'
    <3>1. \A x \in requests : \E i \in 1 .. Len(ids) : ids[i] = x
      BY DEF IInv, HandedOutOnce, Members
    <3>2. \A i \in 1 .. Len(ids') : i \in 1 .. Len(ids) \/ i = Len(ids) + 1
      BY <1>t, <1>3
    <3>3. Len(ids) + 1 \in 1 .. Len(ids') /\ \A i \in 1 .. Len(ids) : i \in 1 .. Len(ids')
      BY <1>t, <1>3
    <3> QED BY <1>1, <1>3, <1>6, <3>1, <3>2, <3>3 DEF Members
  <2> QED BY <2>1, <2>2, <2>3 DEF HandedOutOnce
<1>8. StreamsIntact'
  BY <1>1 DEF IInv, StreamsIntact
<1> QED BY <1>4, <1>5, <1>7, <1>8 DEF IInv

(* get_requests: the next k ids, each once. *)
LEMMA GetRequestsKeeps ==
    ASSUME IInv, NEW blocks, NEW batch \in Nat, GetRequests(blocks, batch)
    PROVE  IInv'
<1> DEFINE c == ids_read_cursor
<1>t. ids \in Seq(Ids) /\ c \in 0 .. Len(ids) /\ handed \in [Ids -> Nat] /\ Len(ids) \in Nat /\ c \in Nat
  BY DEF IInv, TypeOK
<1>1. PICK k \in 1 .. batch :
          /\ c + k <= Len(ids) /\ ids_read_cursor' = c + k
          /\ handed' = [r \in Ids |-> handed[r] + Cardinality({i \in 1 .. k : ids[c + i] = r})]
  BY DEF GetRequests
<1>2. UNCHANGED <<ids, requests, responses, accepted, produced, done, delivered, dropped, resets>>
  BY DEF GetRequests
<1> DEFINE at(r) == {i \in 1 .. k : ids[c + i] = r}
           times(r) == Cardinality(at(r))
<1>3. \A r \in Ids : handed'[r] = handed[r] + times(r)
  BY <1>1
<1> HIDE DEF c
<1>4. \A r \in Ids : /\ times(r) \in Nat
                     /\ times(r) = 0 <=> at(r) = {}
  <2> TAKE r \in Ids
  <2>1. IsFiniteSet(1 .. k) /\ at(r) \subseteq 1 .. k
    BY FS_Interval
  <2> HIDE DEF at
  <2>2. IsFiniteSet(at(r))
    BY <2>1, FS_Subset
  <2> QED BY <2>2, FS_CardinalityType, FS_EmptySet
<1> HIDE DEF times
<1>5. ASSUME NEW i \in 1 .. Len(ids)
      PROVE  ids[i] \in Ids /\ times(ids[i]) = IF i \in c + 1 .. c + k THEN 1 ELSE 0
  <2>1. ids[i] \in Ids
    BY <1>t, ElementOfSeq
  <2>2. \A j \in 1 .. k : c + j \in 1 .. Len(ids)
    BY <1>t, <1>1
  <2>3. \A j \in 1 .. k : ids[c + j] = ids[i] => c + j = i
    BY <2>2 DEF IInv, HandedOutOnce
  <2>4. CASE i \in c + 1 .. c + k
    <3>1. i - c \in 1 .. k /\ c + (i - c) = i
      BY <1>t, <2>4
    <3>2. \A j \in 1 .. k : c + j = i => j = i - c
      BY <1>t
    <3>3. at(ids[i]) = {i - c}
      BY <2>3, <3>1, <3>2
    <3>4. Cardinality({i - c}) = 1
      BY FS_Singleton
    <3> QED BY <2>1, <2>4, <3>3, <3>4 DEF times
  <2>5. CASE i \notin c + 1 .. c + k
    <3>1. \A j \in 1 .. k : c + j \in c + 1 .. c + k
      BY <1>t
    <3>2. at(ids[i]) = {}
      BY <2>3, <2>5, <3>1
    <3> QED BY <1>4, <2>1, <2>5, <3>2
  <2> QED BY <2>4, <2>5
<1>6. handed' \in [Ids -> Nat]
  <2>1. \A r \in Ids : handed[r] + times(r) \in Nat
    BY <1>t, <1>4
  <2>2. handed' = [r \in Ids |-> handed[r] + times(r)]
    BY <1>1 DEF times, c
  <2> QED BY <2>1, <2>2
<1>7. TypeOK'
  <2>1. ids_read_cursor' \in 0 .. Len(ids)'
    BY <1>t, <1>1, <1>2
  <2> QED BY <1>2, <1>6, <2>1 DEF IInv, TypeOK
<1>8. Accounts'
  <2>1. ASSUME NEW r \in Ids, handed'[r] > 0 PROVE r \in accepted
    <3>1. CASE handed[r] > 0
      BY <3>1 DEF IInv, Accounts
    <3>2. CASE handed[r] = 0
      <4>1. at(r) # {}
        BY <1>3, <1>4, <2>1, <3>2
      <4>2. PICK j \in 1 .. k : ids[c + j] = r
        BY <4>1
      <4>3. c + j \in 1 .. Len(ids)
        BY <1>t, <1>1
      <4> QED BY <4>2, <4>3 DEF IInv, HandedOutOnce, Members, Accounts
    <3> QED BY <1>t, <3>1, <3>2
  <2>2. \A r \in Ids : handed[r] > 0 => handed'[r] > 0
    BY <1>t, <1>3, <1>4
  <2> QED BY <1>2, <2>1, <2>2 DEF IInv, Accounts
<1>9. HandedOutOnce'
  <2>1. ASSUME NEW i \in 1 .. Len(ids)
        PROVE  handed'[ids[i]] = IF i <= c + k THEN 1 ELSE 0
    <3>1. handed[ids[i]] = IF i <= c THEN 1 ELSE 0
      BY DEF IInv, HandedOutOnce, c
    <3> QED BY <1>t, <1>3, <1>5, <3>1
  <2> QED BY <1>1, <1>2, <2>1 DEF IInv, HandedOutOnce, Members
<1>10. StreamsIntact'
  BY <1>2 DEF IInv, StreamsIntact
<1> QED BY <1>7, <1>8, <1>9, <1>10 DEF IInv

(* put_results: the response that comes next in each stream. *)
LEMMA PutResultsKeeps ==
    ASSUME IInv, NEW batch \in SUBSET Working, NEW finished \in SUBSET batch, PutResults(batch, finished)
    PROVE  IInv'
<1> USE SizesAssumption
<1> DEFINE M == 1 .. MaxResponses
<1>t. /\ responses \in [Ids -> Seq(M)] /\ delivered \in [Ids -> Seq(M)]
      /\ produced \in [Ids -> 0 .. MaxResponses] /\ handed \in [Ids -> Nat]
  BY DEF IInv, TypeOK
<1>1. /\ produced' = [r \in Ids |-> IF r \in batch THEN produced[r] + 1 ELSE produced[r]]
      /\ done' = done \cup finished
      /\ responses' = [r \in Ids |->
            IF r \in batch \cap requests THEN Append(responses[r], produced[r] + 1) ELSE responses[r]]
      /\ \A r \in batch : produced[r] + 1 = MaxResponses => r \in finished
      /\ UNCHANGED <<ids, ids_read_cursor, requests, accepted, handed, delivered, dropped, resets>>
  BY DEF PutResults, Added
<1>2. \A r \in batch : r \in Ids /\ handed[r] > 0 /\ r \notin done
  BY DEF Working
<1>3. \A r \in batch : produced[r] \in Nat /\ produced[r] + 1 \in M /\ (r \in requests \/ r \in dropped)
  BY <1>t, <1>2 DEF IInv, Accounts
<1>4. \A r \in batch : Append(responses[r], produced[r] + 1) \in Seq(M)
  BY <1>t, <1>2, <1>3, AppendProperties
<1>5. TypeOK'
  <2>1. responses' \in [Ids -> Seq(M)]
    BY <1>t, <1>1, <1>4
  <2>2. produced' \in [Ids -> 0 .. MaxResponses]
    BY <1>t, <1>1, <1>3
  <2>3. done' \in SUBSET Ids
    BY <1>1, <1>2 DEF IInv, TypeOK
  <2> QED BY <1>1, <2>1, <2>2, <2>3 DEF IInv, TypeOK
<1>6. Accounts'
  <2>1. ASSUME NEW r \in Ids PROVE /\ r \in done' => handed'[r] > 0
                                   /\ responses'[r] # << >> => r \in requests'
                                   /\ r \notin done' => produced'[r] < MaxResponses
    BY <1>t, <1>1, <1>2, <1>3 DEF IInv, Accounts
  <2> QED BY <1>1, <2>1 DEF IInv, Accounts
<1>7. HandedOutOnce'
  BY <1>1 DEF IInv, HandedOutOnce, Members
<1>8. StreamsIntact'
  <2> SUFFICES ASSUME NEW r \in Ids, r \notin dropped
               PROVE  delivered[r] \o responses'[r] = [i \in 1 .. produced'[r] |-> i]
    BY <1>1 DEF StreamsIntact
  <2>1. delivered[r] \o responses[r] = [i \in 1 .. produced[r] |-> i]
    BY DEF IInv, StreamsIntact
  <2>2. CASE r \in batch
    <3>1. responses'[r] = Append(responses[r], produced[r] + 1) /\ produced'[r] = produced[r] + 1
      BY <1>1, <1>3, <2>2
    <3>2. delivered[r] \in Seq(M) /\ responses[r] \in Seq(M) /\ produced[r] \in 0 .. MaxResponses - 1
      BY <1>t, <1>3, <2>2
    <3>3. delivered[r] \o responses[r] = Stream(produced[r])
      BY <2>1 DEF Stream
    <3>4. delivered[r] \o Append(responses[r], produced[r] + 1) = Stream(produced[r] + 1)
      BY <3>2, <3>3, NextResponse
    <3> QED BY <3>1, <3>4 DEF Stream
  <2>3. CASE r \notin batch
    <3>1. responses'[r] = responses[r] /\ produced'[r] = produced[r]
      BY <1>1, <2>3
    <3> QED BY <2>1, <3>1
  <2> QED BY <2>2, <2>3
<1> QED BY <1>5, <1>6, <1>7, <1>8 DEF IInv

(* The ids that get_results recycles were all before the cursor, so it     *)
(* stays between the ids handed out and the others.                        *)
LEMMA CursorMovesBack ==
    ASSUME IInv, NEW over \in SUBSET requests, over \subseteq done
    PROVE  /\ IsFiniteSet(over) /\ Cardinality(over) \in Nat
           /\ Rank(ids, Ids \ over, ids_read_cursor) = ids_read_cursor - Cardinality(over)
<1> DEFINE c == ids_read_cursor
           gone == {i \in 1 .. c : ids[i] \in over}
           left == {i \in 1 .. c : ids[i] \in Ids \ over}
<1>t. ids \in Seq(Ids) /\ c \in 0 .. Len(ids) /\ c \in Nat /\ Len(ids) \in Nat /\ requests \subseteq Ids
  BY DEF IInv, TypeOK
<1>1. IsFiniteSet(over) /\ Cardinality(over) \in Nat
  BY <1>t, SizesAssumption, FS_Subset, FS_CardinalityType
<1>2. \A i \in 1 .. c : i \in 1 .. Len(ids) /\ ids[i] \in Ids
  BY <1>t, ElementOfSeq
<1>3. ASSUME NEW x \in over PROVE \E i \in gone : ids[i] = x
  <2>1. PICK i \in 1 .. Len(ids) : ids[i] = x
    BY DEF IInv, HandedOutOnce, Members
  <2>2. handed[x] > 0
    BY <1>t DEF IInv, Accounts
  <2>3. i <= c
    BY <2>1, <2>2 DEF IInv, HandedOutOnce
  <2>4. i \in gone
    BY <1>t, <2>1, <2>3
  <2> QED BY <2>1, <2>4
<1>4. IsFiniteSet(1 .. c) /\ Cardinality(1 .. c) = c
  BY <1>t, FS_Interval
<1>5. gone \subseteq 1 .. c /\ (1 .. c) \ gone = left /\ (1 .. c) \cap gone = gone
  BY <1>2
<1>6. \A i, j \in gone : ids[i] = ids[j] => i = j
  BY <1>2 DEF IInv, HandedOutOnce
<1>7. \A i \in gone : ids[i] \in over
  OBVIOUS
<1>8. Rank(ids, Ids \ over, c) = Cardinality(left)
  BY DEF Rank
<1> HIDE DEF gone, left, c
<1>9. IsFiniteSet(gone) /\ Cardinality(gone) \in Nat
  BY <1>4, <1>5, FS_Subset, FS_CardinalityType
<1>10. Cardinality(left) = c - Cardinality(gone)
  <2>1. Cardinality((1 .. c) \ gone) = Cardinality(1 .. c) - Cardinality((1 .. c) \cap gone)
    BY <1>4, FS_Difference
  <2> QED BY <1>4, <1>5, <2>1
<1>11. Cardinality(over) = Cardinality(gone)
  <2> DEFINE f == [i \in gone |-> ids[i]]
  <2>1. f \in [gone -> over]
    BY <1>7
  <2>2. \A x \in over : \E i \in gone : f[i] = x
    BY <1>3
  <2>3. \A i, j \in gone : f[i] = f[j] => i = j
    BY <1>6
  <2> HIDE DEF f
  <2>4. f \in Bijection(gone, over)
    BY <2>1, <2>2, <2>3, Fun_IsBij
  <2>5. ExistsBijection(gone, over)
    BY <2>4 DEF ExistsBijection
  <2> QED BY <1>9, <2>5, FS_Bijection
<1> QED BY <1>1, <1>8, <1>10, <1>11 DEF c

(* get_results: every response, and the requests that are over. *)
LEMMA GetResultsKeeps == ASSUME IInv, GetResults PROVE IInv'
<1> DEFINE M == 1 .. MaxResponses
           c == ids_read_cursor
           over == {r \in Ids : responses[r] # << >>} \cap done
           rest == Ids \ over
           R(i) == Rank(ids, rest, i)
<1>t. /\ responses \in [Ids -> Seq(M)] /\ delivered \in [Ids -> Seq(M)] /\ ids \in Seq(Ids)
      /\ c \in 0 .. Len(ids) /\ c \in Nat /\ Len(ids) \in Nat
  BY DEF IInv, TypeOK
<1>1. /\ delivered' = [r \in Ids |-> delivered[r] \o responses[r]]
      /\ responses' = [r \in Ids |-> << >>] /\ requests' = requests \ over
      /\ ids' = Kept(ids, rest) /\ ids_read_cursor' = c - Cardinality(over)
      /\ UNCHANGED <<accepted, handed, produced, done, dropped, resets>>
  BY DEF GetResults, CursorBack
<1>2. over \in SUBSET requests /\ over \subseteq done
  BY DEF IInv, Accounts
<1> HIDE DEF c, over
<1>3. ids_read_cursor' = R(c)
  BY <1>1, <1>2, CursorMovesBack DEF c
<1> HIDE DEF rest
<1>4. /\ ids' \in Seq(Ids) /\ Len(ids') = R(Len(ids))
      /\ \A i \in 1 .. Len(ids) : ids[i] \in rest => R(i) \in 1 .. Len(ids') /\ ids'[R(i)] = ids[i]
      /\ \A k \in 1 .. Len(ids') : \E i \in 1 .. Len(ids) : ids[i] \in rest /\ R(i) = k
  <2>1. Kept(ids, rest) \in Seq(Ids) /\ InRankOrder(Kept(ids, rest), ids, rest)
    BY <1>t, KeptFacts
  <2>2. ids' \in Seq(Ids) /\ InRankOrder(ids', ids, rest)
    BY <1>1, <2>1
  <2> QED BY <2>2 DEF InRankOrder
<1>5. R(c) \in Nat /\ R(c) <= Len(ids')
  <2>1. R(c) \in Nat /\ R(Len(ids)) \in Nat
    BY <1>t, RankNext
  <2>2. c < Len(ids) => R(c) <= R(Len(ids))
    BY <1>t, RankMonotone
  <2>3. c = Len(ids) \/ c < Len(ids)
    BY <1>t
  <2> QED BY <1>4, <2>1, <2>2, <2>3
<1>6. \A i \in 1 .. Len(ids) : ids[i] \in rest => (R(i) <= R(c) <=> i <= c)
  <2> SUFFICES ASSUME NEW i \in 1 .. Len(ids), ids[i] \in rest PROVE R(i) <= R(c) <=> i <= c
    OBVIOUS
  <2>1. i \in Nat /\ R(i) \in Nat /\ R(c) \in Nat
    BY <1>t, RankNext
  <2>2. CASE i < c
    BY <1>t, <2>1, <2>2, RankMonotone
  <2>3. CASE i = c
    BY <1>t, <2>1, <2>3
  <2>4. CASE c < i
    <3>1. R(c) < R(i)
      BY <1>t, <2>1, <2>4, RankMonotone
    <3> QED BY <1>t, <2>1, <2>4, <3>1
  <2> QED BY <1>t, <2>1, <2>2, <2>3, <2>4
<1>7. TypeOK'
  <2>1. ids_read_cursor' \in 0 .. Len(ids')
    BY <1>3, <1>4, <1>5
  <2>2. responses' \in [Ids -> Seq(M)]
    <3>1. << >> \in Seq(M)
      BY EmptySeq
    <3> QED BY <1>1, <3>1
  <2>3. delivered' \in [Ids -> Seq(M)]
    <3>1. \A r \in Ids : delivered[r] \o responses[r] \in Seq(M)
      BY <1>t, ConcatProperties
    <3> QED BY <1>1, <3>1
  <2> QED BY <1>1, <1>4, <2>1, <2>2, <2>3 DEF IInv, TypeOK
<1>8. Accounts'
  <2>1. \A r \in Ids : responses'[r] = << >>
    BY <1>1
  <2> QED BY <1>1, <1>2, <2>1 DEF IInv, Accounts
<1>9. HandedOutOnce'
  <2>1. ASSUME NEW k \in 1 .. Len(ids')
        PROVE  \E i \in 1 .. Len(ids) : ids[i] \in rest /\ R(i) = k /\ ids'[k] = ids[i]
    <3>1. PICK i \in 1 .. Len(ids) : ids[i] \in rest /\ R(i) = k
      BY <1>4
    <3> QED BY <1>4, <3>1
  <2> HIDE DEF R
  <2>2. ASSUME NEW k \in 1 .. Len(ids')
        PROVE  handed'[ids'[k]] = IF k <= ids_read_cursor' THEN 1 ELSE 0
    <3>1. PICK i \in 1 .. Len(ids) : ids[i] \in rest /\ R(i) = k /\ ids'[k] = ids[i]
      BY <2>1
    <3>2. handed[ids[i]] = IF i <= c THEN 1 ELSE 0
      BY DEF IInv, HandedOutOnce, c
    <3> QED BY <1>1, <1>3, <1>6, <3>1, <3>2
  <2>3. ASSUME NEW k \in 1 .. Len(ids'), NEW l \in 1 .. Len(ids'), k # l
        PROVE  ids'[k] # ids'[l]
    <3>1. PICK i \in 1 .. Len(ids) : ids[i] \in rest /\ R(i) = k /\ ids'[k] = ids[i]
      BY <2>1
    <3>2. PICK j \in 1 .. Len(ids) : ids[j] \in rest /\ R(j) = l /\ ids'[l] = ids[j]
      BY <2>1
    <3>3. i # j
      BY <2>3, <3>1, <3>2
    <3> QED BY <3>1, <3>2, <3>3 DEF IInv, HandedOutOnce
  <2>4. Members(ids)' = requests'
    <3>1. ASSUME NEW k \in 1 .. Len(ids') PROVE ids'[k] \in requests'
      <4>1. PICK i \in 1 .. Len(ids) : ids[i] \in rest /\ R(i) = k /\ ids'[k] = ids[i]
        BY <2>1
      <4>2. ids[i] \in requests
        BY DEF IInv, HandedOutOnce, Members
      <4> QED BY <1>1, <4>1, <4>2 DEF rest
    <3>2. ASSUME NEW x \in requests' PROVE \E k \in 1 .. Len(ids') : ids'[k] = x
      <4>1. PICK i \in 1 .. Len(ids) : ids[i] = x
        BY <1>1, <3>2 DEF IInv, HandedOutOnce, Members
      <4>2. ids[i] \in rest
        BY <1>1, <1>t, <3>2, <4>1, ElementOfSeq DEF rest
      <4> QED BY <1>4, <4>1, <4>2
    <3> QED BY <3>1, <3>2 DEF Members
  <2> QED BY <2>2, <2>3, <2>4 DEF HandedOutOnce
<1>10. StreamsIntact'
  <2> SUFFICES ASSUME NEW r \in Ids, r \notin dropped
               PROVE  delivered'[r] \o responses'[r] = [i \in 1 .. produced[r] |-> i]
    BY <1>1 DEF StreamsIntact
  <2>1. delivered[r] \o responses[r] = [i \in 1 .. produced[r] |-> i]
    BY DEF IInv, StreamsIntact
  <2>2. delivered[r] \o responses[r] \in Seq(M)
    BY <1>t, ConcatProperties
  <2>3. (delivered[r] \o responses[r]) \o << >> = delivered[r] \o responses[r]
    BY <2>2, ConcatEmptySeq
  <2> QED BY <1>1, <2>1, <2>3
<1> QED BY <1>7, <1>8, <1>9, <1>10 DEF IInv

(* reset forgets every request. *)
LEMMA ResetKeeps == ASSUME IInv, Reset PROVE IInv'
<1>1. /\ resets < MaxResets /\ resets' = resets + 1
      /\ ids' = << >> /\ ids_read_cursor' = 0 /\ requests' = {}
      /\ responses' = [r \in Ids |-> << >>] /\ dropped' = dropped \cup requests
      /\ UNCHANGED <<accepted, handed, produced, done, delivered>>
  BY DEF Reset
<1>2. TypeOK'
  <2>1. << >> \in Seq(Ids) /\ << >> \in Seq(1 .. MaxResponses) /\ Len(<< >>) = 0
    BY EmptySeq
  <2>2. responses' \in [Ids -> Seq(1 .. MaxResponses)]
    BY <1>1, <2>1
  <2>3. resets' \in 0 .. MaxResets
    BY <1>1, SizesAssumption DEF IInv, TypeOK
  <2> QED BY <1>1, <2>1, <2>2, <2>3 DEF IInv, TypeOK
<1>3. Accounts'
  <2>1. \A r \in Ids : responses'[r] = << >>
    BY <1>1
  <2> QED BY <1>1, <2>1 DEF IInv, Accounts
<1>4. HandedOutOnce'
  BY <1>1 DEF HandedOutOnce, Members
<1>5. StreamsIntact'
  <2> SUFFICES ASSUME NEW r \in Ids, r \notin dropped'
               PROVE  delivered[r] \o responses'[r] = [i \in 1 .. produced[r] |-> i]
    BY <1>1 DEF StreamsIntact
  <2>1. responses[r] = << >> /\ responses'[r] = << >> /\ r \notin dropped
    BY <1>1 DEF IInv, Accounts
  <2> QED BY <2>1 DEF IInv, StreamsIntact
<1> QED BY <1>2, <1>3, <1>4, <1>5 DEF IInv

LEMMA InitIInv == Init => IInv
<1> SUFFICES ASSUME Init PROVE IInv
  OBVIOUS
<1>1. TypeOK
  <2>1. << >> \in Seq(Ids) /\ << >> \in Seq(1 .. MaxResponses) /\ Len(<< >>) = 0
    BY EmptySeq
  <2>2. responses \in [Ids -> Seq(1 .. MaxResponses)] /\ delivered \in [Ids -> Seq(1 .. MaxResponses)]
    BY <2>1 DEF Init
  <2>3. handed \in [Ids -> Nat] /\ produced \in [Ids -> 0 .. MaxResponses] /\ resets \in 0 .. MaxResets
    BY SizesAssumption DEF Init
  <2> QED BY <2>1, <2>2, <2>3 DEF Init, TypeOK
<1>2. Accounts
  BY SizesAssumption DEF Init, Accounts
<1>3. HandedOutOnce
  BY DEF Init, HandedOutOnce, Members
<1>4. StreamsIntact
  BY DEF Init, StreamsIntact
<1> QED BY <1>1, <1>2, <1>3, <1>4 DEF IInv

LEMMA StepIInv == IInv /\ [Next]_vars => IInv'
<1> SUFFICES ASSUME IInv, [Next]_vars PROVE IInv'
  OBVIOUS
<1>1. CASE \E r \in Ids : PutRequests(r)
  BY <1>1, PutKeeps
<1>2. ASSUME NEW blocks \in 0 .. MaxBlocks, NEW batch \in 0 .. MaxBatch, GetRequests(blocks, batch)
      PROVE  IInv'
  <2>1. batch \in Nat
    BY SizesAssumption
  <2> QED BY <1>2, <2>1, GetRequestsKeeps
<1>3. CASE \E batch \in SUBSET Working : \E finished \in SUBSET batch : PutResults(batch, finished)
  BY <1>3, PutResultsKeeps
<1>4. CASE GetResults
  BY <1>4, GetResultsKeeps
<1>5. CASE Reset
  BY <1>5, ResetKeeps
<1>6. CASE UNCHANGED vars
  <2>1. UNCHANGED <<ids, ids_read_cursor, requests, responses, accepted, handed, produced, done,
                    delivered, dropped, resets>>
    BY <1>6 DEF vars, schedulerVars
  <2>2. TypeOK'
    BY <2>1 DEF IInv, TypeOK
  <2>3. Accounts'
    BY <2>1 DEF IInv, Accounts
  <2>4. HandedOutOnce'
    BY <2>1 DEF IInv, HandedOutOnce, Members
  <2>5. StreamsIntact'
    BY <2>1 DEF IInv, StreamsIntact
  <2> QED BY <2>2, <2>3, <2>4, <2>5 DEF IInv
<1> QED BY <1>1, <1>2, <1>3, <1>4, <1>5, <1>6 DEF Next

(* The lists, the cursor and the streams stay typed: the cursor, which     *)
(* every recycled request moves back, stays within the list.               *)
THEOREM TypeCorrect == Spec => []TypeOK
<1>1. IInv => TypeOK
  BY DEF IInv
<1> QED BY <1>1, InitIInv, StepIInv, PTL DEF Spec

(* The ids before the cursor are the ones handed out, each once, and the   *)
(* ids from the cursor on have not been, in whatever order requests finish.*)
THEOREM RequestsHandedOutOnce == Spec => []HandedOutOnce
<1>1. IInv => HandedOutOnce
  BY DEF IInv
<1> QED BY <1>1, InitIInv, StepIInv, PTL DEF Spec

(* What put_results stores and get_results hands over is the stream of the *)
(* request, each response once and in order, unless a reset dropped it.    *)
THEOREM StreamsStayIntact == Spec => []StreamsIntact
<1>1. IInv => StreamsIntact
  BY DEF IInv
<1> QED BY <1>1, InitIInv, StepIInv, PTL DEF Spec
=============================================================================
