--------------------------- MODULE Selection_proofs ---------------------------
(***************************************************************************)
(* What Select returns, for any sequence and any of its indices.           *)
(***************************************************************************)
EXTENDS Selection, FiniteSetTheorems, SequenceTheorems,
         WellFoundedInduction, TLAPS

(* Every set of numbers has a least one.                                   *)
LEMMA LeastNatural ==
  ASSUME NEW T \in SUBSET Nat, T # {}
  PROVE  \E m \in T : \A k \in T : m <= k
<1>1. PICK m \in T : \A k \in T : ~ (<< k, m >> \in OpToRel(<, Nat))
  BY NatLessThanWellFounded, WFMin
<1>2. \A k \in T : k \in Nat /\ m \in Nat /\ ~ (k < m)
  BY <1>1 DEF OpToRel
<1> QED BY <1>2

(* How ranks grow along the indices.                                       *)
LEMMA RankFacts ==
  ASSUME NEW N \in Nat, NEW S \in SUBSET (1..N)
  PROVE  /\ IsFiniteSet(S) /\ Cardinality(S) \in Nat
         /\ \A i \in 0..N : Rank(S, i) \in Nat
         /\ Rank(S, 0) = 0 /\ Rank(S, N) = Cardinality(S)
         /\ \A i \in 1..N : Rank(S, i) = IF i \in S THEN Rank(S, i - 1) + 1
                                                    ELSE Rank(S, i - 1)
         /\ \A i \in S : Rank(S, i) \in 1..Cardinality(S)
         /\ \A i, j \in S : i < j => Rank(S, i) < Rank(S, j)
<1>0. \A j \in S : j \in Nat /\ 1 <= j /\ j <= N
  OBVIOUS
<1>1. IsFiniteSet(S) /\ Cardinality(S) \in Nat
  <2>1. IsFiniteSet(1..N)
    BY FS_Interval
  <2> QED BY <2>1, FS_Subset, FS_CardinalityType
<1>2. \A i \in 0..N : IsFiniteSet(Upto(S, i)) /\ Rank(S, i) \in Nat
  BY <1>1, FS_Subset, FS_CardinalityType DEF Rank, Upto
<1>3. Rank(S, 0) = 0
  <2>1. \A j \in S : ~ (j <= 0)
    BY <1>0
  <2>2. Upto(S, 0) = {}
    BY <2>1 DEF Upto
  <2> QED BY <2>2, FS_EmptySet DEF Rank
<1>4. Rank(S, N) = Cardinality(S)
  <2>1. Upto(S, N) = S
    BY <1>0 DEF Upto
  <2> QED BY <2>1 DEF Rank
<1>5. ASSUME NEW i \in 1..N
      PROVE  Rank(S, i) = IF i \in S THEN Rank(S, i - 1) + 1 ELSE Rank(S, i - 1)
  <2>1. CASE i \in S
    <3>1. Upto(S, i) = Upto(S, i - 1) \cup {i} /\ i \notin Upto(S, i - 1) /\ i - 1 \in 0..N
      <4>1. \A j \in S : j <= i <=> j <= i - 1 \/ j = i
        BY <1>0
      <4>2. ~ (i <= i - 1) /\ i <= i /\ i - 1 \in 0..N
        OBVIOUS
      <4> QED BY <4>1, <4>2, <2>1 DEF Upto
    <3> QED BY <2>1, <3>1, <1>2, FS_AddElement DEF Rank
  <2>2. CASE i \notin S
    <3>1. Upto(S, i) = Upto(S, i - 1)
      <4>1. \A j \in S : j <= i <=> j <= i - 1
        BY <1>0, <2>2
      <4> QED BY <4>1 DEF Upto
    <3> QED BY <2>2, <3>1 DEF Rank
  <2> QED BY <2>1, <2>2
<1>6. ASSUME NEW i \in S, NEW j \in S, i < j
      PROVE  Rank(S, i) < Rank(S, j)
  <2>1. Upto(S, i) \subseteq Upto(S, j) /\ j \in Upto(S, j) /\ j \notin Upto(S, i)
    <3>1. ~ (j <= i) /\ j <= j /\ \A k \in S : k <= i => k <= j
      BY <1>0, <1>6
    <3> QED BY <3>1 DEF Upto
  <2>2. i \in 0..N /\ j \in 0..N
    OBVIOUS
  <2>3. /\ IsFiniteSet(Upto(S, j)) /\ Upto(S, i) \in SUBSET Upto(S, j)
        /\ Upto(S, i) # Upto(S, j)
    BY <2>1, <2>2, <1>2
  <2>4. /\ Cardinality(Upto(S, i)) <= Cardinality(Upto(S, j))
        /\ Cardinality(Upto(S, i)) # Cardinality(Upto(S, j))
    BY <2>3, FS_Subset
  <2> QED BY <2>2, <2>4, <1>2 DEF Rank
<1>7. ASSUME NEW i \in S
      PROVE  Rank(S, i) \in 1..Cardinality(S)
  <2>1. i \in 1..N /\ i - 1 \in 0..N /\ i \in 0..N
    OBVIOUS
  <2>2. Rank(S, i) = Rank(S, i - 1) + 1
    BY <2>1, <1>5
  <2>3. Cardinality(Upto(S, i)) <= Cardinality(S)
    BY <1>1, FS_Subset DEF Upto
  <2>4. Rank(S, i) \in Nat /\ Rank(S, i - 1) \in Nat
    BY <2>1, <1>2
  <2> QED BY <2>2, <2>3, <2>4, <1>1 DEF Rank
<1> QED BY <1>1, <1>2, <1>3, <1>4, <1>5, <1>6, <1>7

(* Every rank is that of an index, and of no other.                        *)
LEMMA RankedIndex ==
  ASSUME NEW N \in Nat, NEW S \in SUBSET (1..N), NEW n \in 1..Cardinality(S)
  PROVE  \E i \in S : Rank(S, i) = n /\ \A j \in S : Rank(S, j) = n => j = i
<1> DEFINE T == { i \in 0..N : n <= Rank(S, i) }
<1>1. n \in Nat /\ 0 < n /\ n <= Cardinality(S)
  BY RankFacts
<1>2. T \in SUBSET Nat /\ N \in T
  BY <1>1, RankFacts
<1>3. PICK m \in T : \A k \in T : m <= k
  BY <1>2, LeastNatural
<1>4. m \in 1..N /\ m - 1 \in 0..N /\ m - 1 \notin T
  BY <1>1, <1>2, <1>3, RankFacts
<1>5. Rank(S, m - 1) < n /\ n <= Rank(S, m)
  BY <1>1, <1>3, <1>4, RankFacts
<1>6. m \in S /\ Rank(S, m) = n
  BY <1>1, <1>4, <1>5, RankFacts
<1>7. ASSUME NEW j \in S, Rank(S, j) = n
      PROVE  j = m
  <2>1. ~ (j < m) /\ ~ (m < j)
    BY <1>1, <1>6, <1>7, RankFacts
  <2> QED BY <2>1, <1>6
<1> QED BY <1>6, <1>7

(* What Select keeps, and nothing else, is at the indices that it is given. *)
THEOREM SelectFacts ==
  ASSUME NEW T, NEW s \in Seq(T), NEW S \in SUBSET (DOMAIN s)
  PROVE  /\ Select(s, S) \in Seq(T)
         /\ Len(Select(s, S)) = Cardinality(S) /\ Cardinality(S) \in Nat
         /\ Range(Select(s, S)) = { s[i] : i \in S }
<1> DEFINE at(n) == CHOOSE i \in S : Rank(S, i) = n
<1>1. Len(s) \in Nat /\ S \in SUBSET (1..Len(s)) /\ \A i \in S : s[i] \in T
  OBVIOUS
<1>2. IsFiniteSet(S) /\ Cardinality(S) \in Nat
  BY <1>1, RankFacts
<1>3. \A n \in 1..Cardinality(S) : at(n) \in S /\ Rank(S, at(n)) = n
  <2> SUFFICES ASSUME NEW n \in 1..Cardinality(S)
               PROVE  at(n) \in S /\ Rank(S, at(n)) = n
    OBVIOUS
  <2>1. \E i \in S : Rank(S, i) = n
    BY <1>1, RankedIndex
  <2> QED BY <2>1
<1>4. /\ DOMAIN Select(s, S) = 1..Cardinality(S)
      /\ \A n \in 1..Cardinality(S) : Select(s, S)[n] = s[at(n)]
      /\ Select(s, S) = [n \in 1..Cardinality(S) |-> s[at(n)]]
  BY DEF Select
<1>5. Select(s, S) \in Seq(T) /\ Len(Select(s, S)) = Cardinality(S)
  <2>1. Select(s, S) \in [1..Cardinality(S) -> T]
    BY <1>1, <1>3, <1>4
  <2> QED BY <1>2, <2>1, IsASeq, LenProperties
<1>6. Range(Select(s, S)) \subseteq { s[i] : i \in S }
  BY <1>3, <1>4 DEF Range
<1>7. ASSUME NEW i \in S
      PROVE  s[i] \in Range(Select(s, S))
  <2>1. Rank(S, i) \in 1..Cardinality(S)
    BY <1>1, RankFacts
  <2>2. at(Rank(S, i)) = i
    <3>1. PICK k \in S : /\ Rank(S, k) = Rank(S, i)
                         /\ \A j \in S : Rank(S, j) = Rank(S, i) => j = k
      BY <1>1, <2>1, RankedIndex
    <3> QED BY <3>1, <2>1, <1>3
  <2> QED BY <2>1, <2>2, <1>4 DEF Range
<1> QED BY <1>2, <1>5, <1>6, <1>7

(* What Select keeps stays in its order.                                   *)
LEMMA SelectKeepsOrder ==
  ASSUME NEW s \in Seq(Nat), NEW S \in SUBSET (DOMAIN s),
         \A i, j \in DOMAIN s : i < j => s[i] < s[j]
  PROVE  \A n, m \in 1..Cardinality(S) : n < m => Select(s, S)[n] < Select(s, S)[m]
<1> DEFINE at(n) == CHOOSE i \in S : Rank(S, i) = n
<1>1. Len(s) \in Nat /\ S \in SUBSET (1..Len(s)) /\ DOMAIN s = 1..Len(s)
  OBVIOUS
<1>2. \A n \in 1..Cardinality(S) : at(n) \in S /\ Rank(S, at(n)) = n
  <2> SUFFICES ASSUME NEW n \in 1..Cardinality(S)
               PROVE  at(n) \in S /\ Rank(S, at(n)) = n
    OBVIOUS
  <2>1. \E i \in S : Rank(S, i) = n
    BY <1>1, RankedIndex
  <2> QED BY <2>1
<1>3. \A n \in 1..Cardinality(S) : Select(s, S)[n] = s[at(n)]
  BY DEF Select
<1> HIDE DEF at
<1> SUFFICES ASSUME NEW n \in 1..Cardinality(S), NEW m \in 1..Cardinality(S), n < m
             PROVE  s[at(n)] < s[at(m)]
  BY <1>3
<1>4. at(n) \in 1..Len(s) /\ at(m) \in 1..Len(s) /\ at(n) \in S /\ at(m) \in S
  BY <1>1, <1>2
<1>5. n \in Nat /\ m \in Nat
  BY <1>1, RankFacts
<1>6. ~ (at(m) < at(n)) /\ at(m) # at(n)
  <2>1. at(m) < at(n) => Rank(S, at(m)) < Rank(S, at(n))
    BY <1>1, <1>4, RankFacts
  <2> QED
    BY <1>2, <1>5, <2>1
<1>7. at(n) < at(m)
  BY <1>1, <1>4, <1>6
<1> QED
  BY <1>1, <1>4, <1>7

(* All of them are the sequence itself.                                    *)
LEMMA SelectAll ==
  ASSUME NEW T, NEW s \in Seq(T)
  PROVE  Select(s, DOMAIN s) = s
<1> DEFINE N == Len(s)
<1>1. N \in Nat /\ DOMAIN s = 1..N
  OBVIOUS
<1>2. ASSUME NEW i \in 1..N
      PROVE  Rank(1..N, i) = i
  <2>1. Upto(1..N, i) = 1..i
    BY <1>1 DEF Upto
  <2> QED
    BY <1>1, <2>1, FS_Interval DEF Rank
<1>3. Cardinality(1..N) = N
  BY <1>1, FS_Interval
<1>4. \A n \in 1..N : (CHOOSE i \in 1..N : Rank(1..N, i) = n) = n
  BY <1>2
<1>5. Select(s, 1..N) = [n \in 1..N |-> s[CHOOSE i \in 1..N : Rank(1..N, i) = n]]
  BY <1>3 DEF Select
<1>6. Select(s, 1..N) = [n \in 1..N |-> s[n]]
  BY <1>4, <1>5
<1> QED
  BY <1>1, <1>6

(* What other operations on sequences keep.                                *)
LEMMA Appended ==
  ASSUME NEW S, NEW s \in Seq(S), NEW e \in S
  PROVE  /\ Append(s, e) \in Seq(S) /\ Len(Append(s, e)) = Len(s) + 1
         /\ Append(s, e) # << >>
         /\ Range(Append(s, e)) = Range(s) \cup {e}
<1>1. /\ Append(s, e) \in Seq(S) /\ Len(Append(s, e)) = Len(s) + 1
      /\ DOMAIN Append(s, e) = 1..(Len(s) + 1)
      /\ \A i \in 1..Len(s) : Append(s, e)[i] = s[i]
      /\ Append(s, e)[Len(s) + 1] = e
  OBVIOUS
<1>2. Len(s) \in Nat /\ DOMAIN s = 1..Len(s)
  OBVIOUS
<1>3. 1..(Len(s) + 1) = 1..Len(s) \cup {Len(s) + 1}
  BY <1>2
<1> QED BY <1>1, <1>2, <1>3 DEF Range

LEMMA Unpacked ==
  ASSUME NEW S, NEW s \in Seq(S), s # << >>
  PROVE  /\ Head(s) \in S /\ Tail(s) \in Seq(S)
         /\ Range(s) = {Head(s)} \cup Range(Tail(s))
<1>1. /\ Head(s) = s[1] /\ Tail(s) \in Seq(S) /\ Len(Tail(s)) = Len(s) - 1
      /\ Len(s) \in Nat \ {0}
      /\ \A i \in 1..(Len(s) - 1) : Tail(s)[i] = s[i + 1]
      /\ DOMAIN s = 1..Len(s) /\ DOMAIN Tail(s) = 1..(Len(s) - 1)
  OBVIOUS
<1>3. Range(s) \subseteq {Head(s)} \cup Range(Tail(s))
  <2> SUFFICES ASSUME NEW i \in 1..Len(s), i # 1
               PROVE  s[i] \in Range(Tail(s))
    BY <1>1 DEF Range
  <2>1. i - 1 \in 1..(Len(s) - 1) /\ s[i] = Tail(s)[i - 1]
    BY <1>1
  <2> QED BY <1>1, <2>1 DEF Range
<1>4. Range(Tail(s)) \subseteq Range(s) /\ Head(s) \in Range(s)
  BY <1>1 DEF Range
<1>5. Head(s) \in S
  BY <1>1
<1> QED BY <1>1, <1>3, <1>4, <1>5

LEMMA Joined ==
  ASSUME NEW S, NEW s \in Seq(S), NEW t \in Seq(S)
  PROVE  /\ s \o t \in Seq(S)
         /\ Range(s \o t) = Range(s) \cup Range(t)
BY RangeConcatenation, ConcatProperties
=============================================================================
