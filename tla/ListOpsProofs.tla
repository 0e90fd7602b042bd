--------------------------- MODULE ListOpsProofs ---------------------------
(***************************************************************************)
(* What Kept returns: the elements that are in the set, each at the place  *)
(* that its rank among them gives.  Proved by induction, which rests on    *)
(* the least element of a set of naturals.                                 *)
(***************************************************************************)
EXTENDS ListOps, FiniteSets, FiniteSetTheorems, SequenceTheorems, WellFoundedInduction, TLAPS

(* A set of naturals that is not empty has a least element. *)
LEMMA LeastNat ==
    ASSUME NEW T, T \subseteq Nat, T # {}
    PROVE  \E n \in T : \A m \in T : n <= m
<1> DEFINE R == OpToRel(<, Nat)
<1>1. IsWellFoundedOn(R, Nat)
  BY NatLessThanWellFounded
<1>2. \A x, y \in Nat : y < x => <<y, x>> \in R
  BY DEF OpToRel
<1> HIDE DEF R
<1>3. PICK x \in T : \A y \in T : <<y, x>> \notin R
  BY <1>1, WFMin
<1>4. \A y \in T : ~(y < x)
  BY <1>2, <1>3
<1>5. \A y \in T : x <= y
  BY <1>4
<1> QED BY <1>5

(* Induction over the naturals, for a set. *)
LEMMA SetInduction ==
    ASSUME NEW S, 0 \in S, \A n \in Nat : n \in S => n + 1 \in S
    PROVE  \A n \in Nat : n \in S
<1> SUFFICES ASSUME Nat \ S # {} PROVE FALSE
  OBVIOUS
<1>1. PICK n \in Nat \ S : \A m \in Nat \ S : n <= m
  BY LeastNat
<1>2. n # 0 /\ n - 1 \in Nat
  BY <1>1
<1>3. n - 1 \in S
  BY <1>1, <1>2
<1> QED BY <1>1, <1>2, <1>3

-----------------------------------------------------------------------------
(* How many of the first n elements of seq are in S. *)
Rank(seq, S, n) == Cardinality({i \in 1 .. n : seq[i] \in S})

LEMMA RankZero ==
    ASSUME NEW seq, NEW S
    PROVE  Rank(seq, S, 0) = 0
<1>1. {i \in 1 .. 0 : seq[i] \in S} = {}
  OBVIOUS
<1> QED BY <1>1, FS_EmptySet DEF Rank

LEMMA RankNext ==
    ASSUME NEW seq, NEW S, NEW n \in Nat
    PROVE  /\ Rank(seq, S, n) \in Nat /\ Rank(seq, S, n) <= n
           /\ Rank(seq, S, n + 1) = IF seq[n + 1] \in S THEN Rank(seq, S, n) + 1 ELSE Rank(seq, S, n)
<1> DEFINE At(k) == {i \in 1 .. k : seq[i] \in S}
<1>1. IsFiniteSet(1 .. n) /\ Cardinality(1 .. n) = n
  BY FS_Interval
<1>2. At(n) \subseteq 1 .. n
  OBVIOUS
<1>3. Rank(seq, S, n) = Cardinality(At(n)) /\ Rank(seq, S, n + 1) = Cardinality(At(n + 1))
  BY DEF Rank
<1> HIDE DEF At
<1>4. IsFiniteSet(At(n)) /\ Cardinality(At(n)) \in Nat /\ Cardinality(At(n)) <= n
  BY <1>1, <1>2, FS_Subset, FS_CardinalityType
<1>5. CASE seq[n + 1] \in S
  <2>1. At(n + 1) = At(n) \cup {n + 1}
    BY <1>5 DEF At
  <2>2. n + 1 \notin At(n)
    BY DEF At
  <2>3. Cardinality(At(n) \cup {n + 1}) = Cardinality(At(n)) + 1
    BY <1>4, <2>2, FS_AddElement
  <2> QED BY <1>3, <1>4, <1>5, <2>1, <2>3
<1>6. CASE seq[n + 1] \notin S
  <2>1. At(n + 1) = At(n)
    BY <1>6 DEF At
  <2> QED BY <1>3, <1>4, <1>6, <2>1
<1> QED BY <1>5, <1>6

LEMMA RankMonotone ==
    ASSUME NEW seq, NEW S, NEW m \in Nat, NEW n \in Nat, m < n
    PROVE  /\ Rank(seq, S, m) <= Rank(seq, S, n)
           /\ seq[n] \in S => Rank(seq, S, m) < Rank(seq, S, n)
<1> DEFINE At(k) == {i \in 1 .. k : seq[i] \in S}
<1>1. \A k \in Nat : IsFiniteSet(At(k)) /\ Cardinality(At(k)) \in Nat
  <2> TAKE k \in Nat
  <2>1. IsFiniteSet(1 .. k) /\ At(k) \subseteq 1 .. k
    BY FS_Interval
  <2> QED BY <2>1, FS_Subset, FS_CardinalityType
<1>2. At(m) \subseteq At(n) /\ (seq[n] \in S => n \in At(n) /\ n \notin At(m))
  OBVIOUS
<1> HIDE DEF At
<1>3. Cardinality(At(m)) <= Cardinality(At(n))
  BY <1>1, <1>2, FS_Subset
<1>4. ASSUME seq[n] \in S PROVE Cardinality(At(m)) # Cardinality(At(n))
  <2>1. At(m) # At(n)
    BY <1>2, <1>4
  <2> QED BY <1>1, <1>2, <2>1, FS_Subset
<1>5. Rank(seq, S, m) = Cardinality(At(m)) /\ Rank(seq, S, n) = Cardinality(At(n))
  BY DEF Rank, At
<1> QED BY <1>1, <1>3, <1>4, <1>5

-----------------------------------------------------------------------------
(* The function that Kept builds exists. *)
Builds(f, seq, S) ==
    /\ f[0] = << >>
    /\ \A n \in 1 .. Len(seq) : f[n] = IF seq[n] \in S THEN Append(f[n - 1], seq[n]) ELSE f[n - 1]

LEMMA KeptFunction ==
    ASSUME NEW T, NEW seq \in Seq(T), NEW S
    PROVE  \E f \in [0 .. Len(seq) -> Seq(T)] : Builds(f, seq, S) /\ Kept(seq, S) = f[Len(seq)]
<1> DEFINE L == Len(seq)
           step(f, n) == IF n = 0 THEN << >>
                         ELSE IF seq[n] \in S THEN Append(f[n - 1], seq[n]) ELSE f[n - 1]
           upto(n) == {f \in [0 .. n -> Seq(T)] : \A i \in 0 .. n : f[i] = step(f, i)}
           D == {n \in Nat : n <= L => upto(n) # {}}
<1>l. L \in Nat
  BY LenProperties
<1>1. 0 \in D
  <2> DEFINE f == [i \in 0 .. 0 |-> << >>]
  <2>1. << >> \in Seq(T)
    BY EmptySeq
  <2>2. f \in [0 .. 0 -> Seq(T)] /\ \A i \in 0 .. 0 : i = 0 /\ f[i] = << >>
    BY <2>1
  <2>3. f \in upto(0)
    BY <2>2
  <2> QED BY <2>3
<1>2. ASSUME NEW n \in Nat, n \in D PROVE n + 1 \in D
  <2> HIDE DEF upto
  <2> SUFFICES ASSUME n + 1 <= L PROVE upto(n + 1) # {}
    OBVIOUS
  <2>0. PICK g \in upto(n) : TRUE
    BY <1>2, <1>l
  <2> USE DEF upto
  <2>1. g \in [0 .. n -> Seq(T)] /\ \A i \in 0 .. n : g[i] = step(g, i)
    BY <2>0
  <2> DEFINE f == [i \in 0 .. n + 1 |-> IF i = n + 1 THEN step(g, n + 1) ELSE g[i]]
  <2>2. seq[n + 1] \in T
    BY <1>l, ElementOfSeq
  <2>3. step(g, n + 1) \in Seq(T)
    <3>1. g[n] \in Seq(T) /\ (n + 1) - 1 = n
      BY <2>1
    <3>2. Append(g[n], seq[n + 1]) \in Seq(T)
      BY <2>2, <3>1, AppendProperties
    <3> QED BY <3>1, <3>2
  <2>4. f \in [0 .. n + 1 -> Seq(T)]
    BY <2>1, <2>3
  <2>5. f[n + 1] = step(g, n + 1) /\ \A i \in 0 .. n : f[i] = g[i]
    <3> HIDE DEF step
    <3> QED BY <1>2
  <2> HIDE DEF f
  <2>6. ASSUME NEW i \in 0 .. n + 1 PROVE f[i] = step(f, i)
    <3>1. CASE i = n + 1
      <4>1. f[n] = g[n] /\ (n + 1) - 1 = n
        BY <2>5
      <4> QED BY <2>5, <3>1, <4>1
    <3>2. CASE i \in 0 .. n
      <4>1. i # 0 => i - 1 \in 0 .. n
        BY <3>2
      <4>2. step(f, i) = step(g, i)
        BY <2>5, <4>1
      <4> QED BY <2>1, <2>5, <3>2, <4>2
    <3> QED BY <3>1, <3>2
  <2> QED BY <2>4, <2>6
<1>3. \A n \in Nat : n \in D
  <2> HIDE DEF D
  <2> QED BY <1>1, <1>2, SetInduction
<1>p. PICK f \in upto(L) : TRUE
  <2> HIDE DEF upto
  <2> QED BY <1>l, <1>3
<1>4. f \in [0 .. L -> Seq(T)] /\ \A i \in 0 .. L : f[i] = step(f, i)
  BY <1>p
<1> DEFINE fix(g) == g = [n \in 0 .. L |-> step(g, n)]
<1>5. fix(f)
  BY <1>4
<1>6. Kept(seq, S) = (CHOOSE g : fix(g))[L]
  BY DEF Kept
<1>7. fix(CHOOSE g : fix(g))
  <2> HIDE DEF fix
  <2> QED BY <1>5
<1>8. ASSUME NEW g, fix(g) PROVE g = f
  <2> DEFINE E == {n \in Nat : n <= L => g[n] = f[n]}
  <2>1. \A n \in 0 .. L : g[n] = step(g, n)
    BY <1>8
  <2>2. 0 \in E
    BY <1>4, <1>l, <2>1
  <2>3. ASSUME NEW n \in Nat, n \in E PROVE n + 1 \in E
    <3> SUFFICES ASSUME n + 1 <= L PROVE g[n + 1] = f[n + 1]
      OBVIOUS
    <3>1. g[n] = f[n] /\ (n + 1) - 1 = n /\ n + 1 \in 0 .. L
      BY <1>l, <2>3
    <3>2. step(g, n + 1) = step(f, n + 1)
      BY <3>1
    <3> QED BY <1>4, <2>1, <3>1, <3>2
  <2> HIDE DEF E
  <2>4. \A n \in Nat : n \in E
    BY <2>2, <2>3, SetInduction
  <2>5. \A n \in 0 .. L : g[n] = f[n]
    BY <1>l, <2>4 DEF E
  <2>6. g = [n \in 0 .. L |-> g[n]] /\ f = [n \in 0 .. L |-> f[n]]
    BY <1>4, <1>8
  <2> QED BY <2>5, <2>6
<1>9. Kept(seq, S) = f[L]
  <2> HIDE DEF fix
  <2> QED BY <1>6, <1>7, <1>8
<1>10. Builds(f, seq, S)
  <2>1. f[0] = << >>
    BY <1>4, <1>l
  <2>2. ASSUME NEW n \in 1 .. L
        PROVE  f[n] = IF seq[n] \in S THEN Append(f[n - 1], seq[n]) ELSE f[n - 1]
    <3>1. n # 0 /\ n \in 0 .. L
      BY <1>l
    <3> QED BY <1>4, <3>1
  <2> QED BY <2>1, <2>2 DEF Builds
<1> QED BY <1>4, <1>9, <1>10

(* Kept returns the elements that are in S, each at its rank. *)
InRankOrder(kept, seq, S) ==
    /\ Len(kept) = Rank(seq, S, Len(seq))
    /\ \A i \in 1 .. Len(seq) : seq[i] \in S =>
          /\ Rank(seq, S, i) \in 1 .. Len(kept)
          /\ kept[Rank(seq, S, i)] = seq[i]
    /\ \A k \in 1 .. Len(kept) : \E i \in 1 .. Len(seq) : seq[i] \in S /\ Rank(seq, S, i) = k

LEMMA KeptFacts ==
    ASSUME NEW T, NEW seq \in Seq(T), NEW S
    PROVE  Kept(seq, S) \in Seq(T) /\ InRankOrder(Kept(seq, S), seq, S)
<1> DEFINE L == Len(seq)
           R(n) == Rank(seq, S, n)
<1>l. L \in Nat
  BY LenProperties
<1>r. /\ R(0) = 0
      /\ \A n \in Nat : R(n) \in Nat /\ R(n + 1) = IF seq[n + 1] \in S THEN R(n) + 1 ELSE R(n)
  BY RankZero, RankNext
<1>p. PICK f \in [0 .. L -> Seq(T)] : Builds(f, seq, S) /\ Kept(seq, S) = f[L]
  BY KeptFunction
<1>1. /\ f \in [0 .. L -> Seq(T)] /\ Kept(seq, S) = f[L]
      /\ f[0] = << >>
      /\ \A n \in 1 .. L : f[n] = IF seq[n] \in S THEN Append(f[n - 1], seq[n]) ELSE f[n - 1]
  BY <1>p DEF Builds
<1> HIDE DEF L, R
<1> DEFINE Good(n) == /\ Len(f[n]) = R(n)
                      /\ \A i \in 1 .. n : seq[i] \in S => R(i) \in 1 .. R(n) /\ f[n][R(i)] = seq[i]
                      /\ \A k \in 1 .. R(n) : \E i \in 1 .. n : seq[i] \in S /\ R(i) = k
           D == {n \in Nat : n <= L => Good(n)}
<1>2. 0 \in D
  <2>1. Len(f[0]) = R(0) /\ 1 .. 0 = {} /\ R(0) = 0
    BY <1>1, <1>r
  <2>2. Good(0)
    BY <2>1
  <2> HIDE DEF Good
  <2> QED BY <2>2
<1>3. ASSUME NEW n \in Nat, n \in D PROVE n + 1 \in D
  <2> SUFFICES ASSUME n + 1 <= L PROVE Good(n + 1)
    OBVIOUS
  <2>1. Good(n)
    BY <1>3, <1>l
  <2>2. n \in 0 .. L /\ n + 1 \in 1 .. L /\ (n + 1) - 1 = n /\ f[n] \in Seq(T) /\ R(n) \in Nat
    <3>1. n \in 0 .. L /\ n + 1 \in 1 .. L /\ (n + 1) - 1 = n
      BY <1>l
    <3>2. f[n] \in Seq(T)
      BY <1>1, <3>1
    <3> QED BY <1>r, <3>1, <3>2
  <2>3. seq[n + 1] \in T
    BY <2>2, ElementOfSeq DEF L
  <2>4. CASE seq[n + 1] \notin S
    <3>1. f[n + 1] = f[n] /\ R(n + 1) = R(n)
      BY <1>1, <1>r, <2>2, <2>4
    <3> HIDE DEF Good
    <3>2. Len(f[n + 1]) = R(n + 1)
      BY <2>1, <3>1 DEF Good
    <3>3. ASSUME NEW i \in 1 .. n + 1, seq[i] \in S PROVE R(i) \in 1 .. R(n + 1) /\ f[n + 1][R(i)] = seq[i]
      <4>1. i \in 1 .. n
        BY <2>4, <3>3
      <4> QED BY <2>1, <3>1, <3>3, <4>1 DEF Good
    <3>4. ASSUME NEW k \in 1 .. R(n + 1) PROVE \E i \in 1 .. n + 1 : seq[i] \in S /\ R(i) = k
      <4>1. PICK i \in 1 .. n : seq[i] \in S /\ R(i) = k
        BY <2>1, <3>1 DEF Good
      <4> QED BY <4>1
    <3> QED BY <3>2, <3>3, <3>4 DEF Good
  <2>5. CASE seq[n + 1] \in S
    <3>1. f[n + 1] = Append(f[n], seq[n + 1]) /\ R(n + 1) = R(n) + 1
      BY <1>1, <1>r, <2>2, <2>5
    <3> HIDE DEF Good
    <3>0. Len(f[n]) = R(n)
      BY <2>1 DEF Good
    <3>2. /\ Len(f[n + 1]) = R(n + 1) /\ f[n + 1][R(n) + 1] = seq[n + 1]
          /\ \A k \in 1 .. R(n) : f[n + 1][k] = f[n][k]
      BY <2>2, <2>3, <3>0, <3>1, AppendProperties
    <3>3. ASSUME NEW i \in 1 .. n + 1, seq[i] \in S PROVE R(i) \in 1 .. R(n + 1) /\ f[n + 1][R(i)] = seq[i]
      <4>1. CASE i = n + 1
        BY <2>2, <3>1, <3>2, <4>1
      <4>2. CASE i \in 1 .. n
        <5>1. R(i) \in 1 .. R(n) /\ f[n][R(i)] = seq[i]
          BY <2>1, <3>3, <4>2 DEF Good
        <5> QED BY <2>2, <3>1, <3>2, <5>1
      <4> QED BY <4>1, <4>2
    <3>4. ASSUME NEW k \in 1 .. R(n + 1) PROVE \E i \in 1 .. n + 1 : seq[i] \in S /\ R(i) = k
      <4>1. CASE k = R(n) + 1
        BY <2>5, <3>1, <4>1
      <4>2. CASE k \in 1 .. R(n)
        <5>1. PICK i \in 1 .. n : seq[i] \in S /\ R(i) = k
          BY <2>1, <4>2 DEF Good
        <5> QED BY <5>1
      <4> QED BY <2>2, <3>1, <4>1, <4>2
    <3> QED BY <3>2, <3>3, <3>4 DEF Good
  <2> QED BY <2>4, <2>5
<1>4. L \in D
  <2> HIDE DEF D
  <2>1. \A n \in Nat : n \in D
    BY <1>2, <1>3, SetInduction
  <2> QED BY <1>l, <2>1
<1>5. Good(L) /\ f[L] \in Seq(T)
  BY <1>1, <1>l, <1>4
<1> QED BY <1>1, <1>5 DEF L, R, InRankOrder

-----------------------------------------------------------------------------
(* Kept and the operations that build lists. *)
LEMMA SeqInduction ==
    ASSUME NEW T, NEW D, << >> \in D, \A s \in Seq(T), e \in T : s \in D => Append(s, e) \in D
    PROVE  Seq(T) \subseteq D
<1> DEFINE N == {n \in Nat : \A s \in Seq(T) : Len(s) = n => s \in D}
<1>1. 0 \in N
  <2>1. \A s \in Seq(T) : Len(s) = 0 => s = << >>
    BY EmptySeq
  <2> QED BY <2>1
<1>2. ASSUME NEW n \in Nat, n \in N PROVE n + 1 \in N
  <2> SUFFICES ASSUME NEW s \in Seq(T), Len(s) = n + 1 PROVE s \in D
    OBVIOUS
  <2>1. s # << >>
    BY EmptySeq
  <2>2. PICK u \in Seq(T), e \in T : s = Append(u, e)
    BY <2>1, SequenceEmptyOrAppend
  <2>3. Len(u) \in Nat /\ Len(s) = Len(u) + 1
    BY <2>2, AppendProperties, LenProperties
  <2>4. Len(u) = n
    BY <2>3
  <2> QED BY <1>2, <2>2, <2>4
<1> HIDE DEF N
<1>3. \A n \in Nat : n \in N
  BY <1>1, <1>2, SetInduction
<1>4. ASSUME NEW s \in Seq(T) PROVE s \in D
  <2>1. Len(s) \in Nat
    BY LenProperties
  <2> QED BY <1>3, <2>1 DEF N
<1> QED BY <1>4

LEMMA RankOrderUnique ==
    ASSUME NEW T, NEW seq, NEW S, NEW a \in Seq(T), NEW b \in Seq(T),
           InRankOrder(a, seq, S), InRankOrder(b, seq, S)
    PROVE  a = b
<1>1. Len(a) = Len(b)
  BY DEF InRankOrder
<1>2. ASSUME NEW k \in 1 .. Len(a) PROVE a[k] = b[k]
  <2>1. PICK i \in 1 .. Len(seq) : seq[i] \in S /\ Rank(seq, S, i) = k
    BY DEF InRankOrder
  <2>2. a[k] = seq[i] /\ b[k] = seq[i]
    BY <2>1 DEF InRankOrder
  <2> QED BY <2>2
<1> QED BY <1>1, <1>2, SeqEqual

LEMMA KeptEmpty ==
    ASSUME NEW S
    PROVE  Kept(<< >>, S) = << >>
<1>1. << >> \in Seq({}) /\ Len(<< >>) = 0
  BY EmptySeq
<1>2. Kept(<< >>, S) \in Seq({}) /\ Len(Kept(<< >>, S)) = Rank(<< >>, S, 0)
  BY <1>1, KeptFacts DEF InRankOrder
<1>3. Len(Kept(<< >>, S)) = 0
  BY <1>2, RankZero
<1> QED BY <1>2, <1>3, EmptySeq

\* RankNext with its parameters bound, for sequences that are built up.
LEMMA RankSteps ==
    \A seq, S : \A n \in Nat :
        /\ Rank(seq, S, n) \in Nat
        /\ seq[n + 1] \in S => Rank(seq, S, n + 1) = Rank(seq, S, n) + 1
        /\ seq[n + 1] \notin S => Rank(seq, S, n + 1) = Rank(seq, S, n)
  BY RankNext

LEMMA KeptAppend ==
    ASSUME NEW T, NEW seq \in Seq(T), NEW e \in T, NEW S
    PROVE  Kept(Append(seq, e), S) = IF e \in S THEN Append(Kept(seq, S), e) ELSE Kept(seq, S)
<1> DEFINE L == Len(seq)
           w == Append(seq, e)
           old == Kept(seq, S)
           new == IF e \in S THEN Append(old, e) ELSE old
<1>1. /\ L \in Nat /\ w \in Seq(T) /\ Len(w) = L + 1 /\ w[L + 1] = e
      /\ \A i \in 1 .. L : w[i] = seq[i]
  BY AppendProperties, LenProperties
<1>2. old \in Seq(T) /\ InRankOrder(old, seq, S)
  BY KeptFacts
<1>3. \A i \in 0 .. L : Rank(w, S, i) = Rank(seq, S, i)
  <2> HIDE DEF w, L
  <2> TAKE i \in 0 .. L
  <2>0. \A j \in 1 .. i : j \in 1 .. L
    BY <1>1
  <2>1. {j \in 1 .. i : w[j] \in S} = {j \in 1 .. i : seq[j] \in S}
    BY <1>1, <2>0
  <2> QED BY <2>1 DEF Rank
<1>4. /\ Len(old) = Rank(seq, S, L) /\ Rank(seq, S, L) \in Nat
      /\ Rank(w, S, L + 1) = IF e \in S THEN Len(old) + 1 ELSE Len(old)
  <2>1. Len(old) = Rank(seq, S, L)
    BY <1>2 DEF InRankOrder
  <2>2. L \in 0 .. L
    BY <1>1
  <2>3. /\ Rank(w, S, L) \in Nat
        /\ Rank(w, S, L + 1) = IF w[L + 1] \in S THEN Rank(w, S, L) + 1 ELSE Rank(w, S, L)
    <3>1. L \in Nat
      BY <1>1
    <3> HIDE DEF w, L
    <3>2. /\ Rank(w, S, L) \in Nat
          /\ w[L + 1] \in S => Rank(w, S, L + 1) = Rank(w, S, L) + 1
          /\ w[L + 1] \notin S => Rank(w, S, L + 1) = Rank(w, S, L)
      BY ONLY <3>1, RankSteps, Zenon
    <3> QED BY ONLY <3>2
  <2> QED BY <1>1, <1>3, <2>1, <2>2, <2>3
<1> HIDE DEF L, w, old
<1>5. /\ new \in Seq(T) /\ Len(new) = Rank(w, S, L + 1)
      /\ \A k \in 1 .. Len(old) : new[k] = old[k]
      /\ e \in S => new[Len(old) + 1] = e
  BY <1>2, <1>4, AppendProperties
<1> HIDE DEF new
<1>6. InRankOrder(new, w, S)
  <2>1. ASSUME NEW i \in 1 .. L + 1, w[i] \in S
        PROVE  Rank(w, S, i) \in 1 .. Len(new) /\ new[Rank(w, S, i)] = w[i]
    <3>1. CASE i = L + 1
      BY <1>1, <1>4, <1>5, <2>1, <3>1
    <3>2. CASE i # L + 1
      <4>1. i \in 1 .. L /\ i \in 0 .. L
        BY <1>1, <3>2
      <4>2. Rank(w, S, i) = Rank(seq, S, i) /\ w[i] = seq[i]
        BY <1>1, <1>3, <4>1
      <4>3. Rank(seq, S, i) \in 1 .. Len(old) /\ old[Rank(seq, S, i)] = seq[i]
        BY <1>2, <2>1, <4>1, <4>2 DEF InRankOrder, L
      <4> QED BY <1>4, <1>5, <4>2, <4>3
    <3> QED BY <3>1, <3>2
  <2>2. ASSUME NEW k \in 1 .. Len(new) PROVE \E i \in 1 .. L + 1 : w[i] \in S /\ Rank(w, S, i) = k
    <3>1. CASE k \in 1 .. Len(old)
      <4>1. PICK i \in 1 .. L : seq[i] \in S /\ Rank(seq, S, i) = k
        BY <1>2, <3>1 DEF InRankOrder, L
      <4>2. i \in 0 .. L /\ i \in 1 .. L + 1
        BY <1>1
      <4> QED BY <1>1, <1>3, <4>1, <4>2
    <3>2. CASE k \notin 1 .. Len(old)
      <4>1. e \in S /\ k = Len(old) + 1
        BY <1>4, <1>5, <3>2
      <4> QED BY <1>1, <1>4, <4>1
    <3> QED BY <3>1, <3>2
  <2> QED BY <1>1, <1>5, <2>1, <2>2 DEF InRankOrder
<1>7. Kept(w, S) \in Seq(T) /\ InRankOrder(Kept(w, S), w, S)
  BY <1>1, KeptFacts
<1>8. Kept(w, S) = new
  BY <1>5, <1>6, <1>7, RankOrderUnique
<1> QED BY <1>8 DEF new, old, w

LEMMA KeptConcat ==
    ASSUME NEW T, NEW a, NEW b, NEW S, a \in Seq(T), b \in Seq(T)
    PROVE  Kept(a \o b, S) = Kept(a, S) \o Kept(b, S)
<1>5. \A p, q \in Seq(T) : \A e \in T : Append(p \o q, e) = p \o Append(q, e)
  <2>1. ASSUME NEW p \in Seq(T), NEW q \in Seq(T), NEW e \in T
        PROVE  Append(p \o q, e) = p \o Append(q, e)
    BY ONLY <2>1
  <2> QED BY <2>1
<1> DEFINE D == {s \in Seq(T) : Kept(a \o s, S) = Kept(a, S) \o Kept(s, S)}
<1>0. Kept(a, S) \in Seq(T)
  BY KeptFacts
<1>1. << >> \in D
  <2>1. << >> \in Seq(T) /\ a \o << >> = a /\ Kept(a, S) \o << >> = Kept(a, S)
    BY <1>0, ConcatEmptySeq, EmptySeq
  <2> QED BY <2>1, KeptEmpty
<1>2. ASSUME NEW s \in Seq(T), NEW e \in T, s \in D PROVE Append(s, e) \in D
  <2>0. Kept(s, S) \in Seq(T) /\ Append(s, e) \in Seq(T) /\ a \o s \in Seq(T) /\ <<e>> \in Seq(T)
    BY KeptFacts, AppendProperties, ConcatProperties
  <2>1. a \o Append(s, e) = Append(a \o s, e)
    BY <1>5, Zenon
  <2>2. Kept(Append(a \o s, e), S) = IF e \in S THEN Append(Kept(a \o s, S), e) ELSE Kept(a \o s, S)
    BY <2>0, KeptAppend
  <2>3. Kept(Append(s, e), S) = IF e \in S THEN Append(Kept(s, S), e) ELSE Kept(s, S)
    BY KeptAppend
  <2>4. Append(Kept(a, S) \o Kept(s, S), e) = Kept(a, S) \o Append(Kept(s, S), e)
    BY <1>0, <2>0, <1>5, Zenon
  <2>5. Kept(a \o s, S) = Kept(a, S) \o Kept(s, S)
    BY <1>2
  <2>6. Kept(a \o Append(s, e), S) = Kept(a, S) \o Kept(Append(s, e), S)
    BY <2>1, <2>2, <2>3, <2>4, <2>5
  <2> QED BY <2>0, <2>6
<1> HIDE DEF D
<1>3. Seq(T) \subseteq D
  BY <1>1, <1>2, SeqInduction
<1> QED BY <1>3 DEF D

LEMMA KeptKept ==
    ASSUME NEW T, NEW a \in Seq(T), NEW R, NEW S
    PROVE  Kept(Kept(a, R), S) = Kept(a, R \cap S)
<1> DEFINE D == {s \in Seq(T) : Kept(Kept(s, R), S) = Kept(s, R \cap S)}
<1>1. << >> \in D
  BY KeptEmpty, EmptySeq
<1>2. ASSUME NEW s \in Seq(T), NEW e \in T, s \in D PROVE Append(s, e) \in D
  <2>0. Kept(s, R) \in Seq(T) /\ Append(s, e) \in Seq(T)
    BY KeptFacts, AppendProperties
  <2>1. Kept(Append(s, e), R) = IF e \in R THEN Append(Kept(s, R), e) ELSE Kept(s, R)
    BY KeptAppend
  <2>2. Kept(Append(Kept(s, R), e), S) = IF e \in S THEN Append(Kept(Kept(s, R), S), e) ELSE Kept(Kept(s, R), S)
    BY <2>0, KeptAppend
  <2>3. Kept(Append(s, e), R \cap S) = IF e \in R \cap S THEN Append(Kept(s, R \cap S), e) ELSE Kept(s, R \cap S)
    BY KeptAppend
  <2>4. Kept(Kept(s, R), S) = Kept(s, R \cap S)
    BY <1>2
  <2>5. Kept(Kept(Append(s, e), R), S) = Kept(Append(s, e), R \cap S)
    <3>1. CASE e \in R
      <4>1. Kept(Append(s, e), R) = Append(Kept(s, R), e)
        BY <2>1, <3>1
      <4>2. CASE e \in S
        <5>1. Kept(Append(s, e), R \cap S) = Append(Kept(s, R \cap S), e)
          BY <2>3, <3>1, <4>2
        <5>2. Kept(Append(Kept(s, R), e), S) = Append(Kept(Kept(s, R), S), e)
          BY <2>2, <4>2
        <5> QED BY <2>4, <4>1, <5>1, <5>2
      <4>3. CASE e \notin S
        <5>1. Kept(Append(s, e), R \cap S) = Kept(s, R \cap S)
          BY <2>3, <4>3
        <5>2. Kept(Append(Kept(s, R), e), S) = Kept(Kept(s, R), S)
          BY <2>2, <4>3
        <5> QED BY <2>4, <4>1, <5>1, <5>2
      <4> QED BY <4>2, <4>3
    <3>2. CASE e \notin R
      <4>1. Kept(Append(s, e), R) = Kept(s, R) /\ Kept(Append(s, e), R \cap S) = Kept(s, R \cap S)
        BY <2>1, <2>3, <3>2
      <4> QED BY <2>4, <4>1
    <3> QED BY <3>1, <3>2
  <2> QED BY <2>0, <2>5
<1> HIDE DEF D
<1>3. Seq(T) \subseteq D
  BY <1>1, <1>2, SeqInduction
<1> QED BY <1>3 DEF D

LEMMA KeptRange ==
    ASSUME NEW T, NEW a \in Seq(T), NEW S
    PROVE  \A x : (\E i \in DOMAIN Kept(a, S) : Kept(a, S)[i] = x) <=> (x \in S /\ \E i \in DOMAIN a : a[i] = x)
<1>1. Kept(a, S) \in Seq(T) /\ InRankOrder(Kept(a, S), a, S)
  BY KeptFacts
<1>2. DOMAIN Kept(a, S) = 1 .. Len(Kept(a, S)) /\ DOMAIN a = 1 .. Len(a)
  BY <1>1, LenProperties
<1>3. ASSUME NEW k \in 1 .. Len(Kept(a, S)) PROVE \E i \in 1 .. Len(a) : a[i] \in S /\ a[i] = Kept(a, S)[k]
  <2>1. PICK i \in 1 .. Len(a) : a[i] \in S /\ Rank(a, S, i) = k
    BY <1>1 DEF InRankOrder
  <2> QED BY <1>1, <2>1 DEF InRankOrder
<1>4. ASSUME NEW i \in 1 .. Len(a), a[i] \in S PROVE \E k \in 1 .. Len(Kept(a, S)) : Kept(a, S)[k] = a[i]
  BY <1>1, <1>4 DEF InRankOrder
<1> QED BY <1>2, <1>3, <1>4
=============================================================================
