----------------------------- MODULE FilterProofs -----------------------------
(***************************************************************************)
(* What Keep keeps of a sequence, for every sequence and all places.       *)
(***************************************************************************)
EXTENDS Filters, FiniteSetTheorems, SequenceTheorems, TLAPS

\* Ranks count the places from 0, in their order.
LEMMA RanksCount ==
  ASSUME NEW len \in Nat, NEW places \in SUBSET (1..len)
  PROVE  /\ IsFiniteSet(places) /\ Cardinality(places) \in Nat
         /\ \A k \in places : Rank(places, k) \in 0..(Cardinality(places) - 1)
         /\ \A j, k \in places : j < k => Rank(places, j) < Rank(places, k)
         /\ \A n \in 0..(Cardinality(places) - 1) : \E k \in places : Rank(places, k) = n
<1>1. IsFiniteSet(places) /\ Cardinality(places) \in Nat
  <2>1. IsFiniteSet(1..len)
    BY FS_Interval
  <2>2. IsFiniteSet(places)
    BY <2>1, FS_Subset
  <2> QED
    BY <2>2, FS_CardinalityType
<1>2. \A k \in places : k \in Nat
  OBVIOUS
<1>3. ASSUME NEW k \in places
      PROVE  /\ IsFiniteSet({j \in places : j < k}) /\ Rank(places, k) \in Nat /\ Rank(places, k) <= Cardinality(places) - 1
  <2> DEFINE before == {j \in places : j < k}
  <2>1. before \subseteq places \ {k}
    OBVIOUS
  <2>2. IsFiniteSet(places \ {k}) /\ Cardinality(places \ {k}) = Cardinality(places) - 1
    BY <1>1, FS_RemoveElement
  <2>3. IsFiniteSet(before) /\ Cardinality(before) <= Cardinality(places \ {k}) /\ Cardinality(before) \in Nat
    <3> HIDE DEF before
    <3> QED
      BY <2>1, <2>2, FS_Subset, FS_CardinalityType
  <2> QED
    BY <2>2, <2>3 DEF Rank
<1>4. ASSUME NEW j \in places, NEW k \in places, j < k PROVE Rank(places, j) < Rank(places, k)
  <2> DEFINE before(i) == {h \in places : h < i}
  <2>1. before(j) \cup {j} \subseteq before(k) /\ j \notin before(j)
    <3>1. \A h \in places : h < j => h < k
      BY <1>2, <1>4
    <3>2. ~(j < j)
      BY <1>2
    <3> QED
      BY <1>4, <3>1, <3>2
  <2>2. IsFiniteSet(before(j)) /\ IsFiniteSet(before(k))
    BY <1>3
  <2> HIDE DEF before
  <2>3. IsFiniteSet(before(j) \cup {j}) /\ Cardinality(before(j) \cup {j}) = Cardinality(before(j)) + 1
    BY <2>1, <2>2, FS_AddElement
  <2>4. Cardinality(before(j) \cup {j}) <= Cardinality(before(k))
    BY <2>1, <2>2, FS_Subset
  <2>5. Rank(places, j) = Cardinality(before(j)) /\ Rank(places, k) = Cardinality(before(k))
    BY DEF Rank, before
  <2>6. Rank(places, j) \in Nat /\ Rank(places, k) \in Nat
    BY <1>3
  <2> QED
    BY <2>3, <2>4, <2>5, <2>6
<1> DEFINE R == 0..(Cardinality(places) - 1)
           f == [k \in places |-> Rank(places, k)]
<1>5. \A k \in places : Rank(places, k) \in 0..(Cardinality(places) - 1)
  <2>1. ASSUME NEW k \in places PROVE Rank(places, k) \in 0..(Cardinality(places) - 1)
    <3>1. Rank(places, k) \in Nat /\ Rank(places, k) <= Cardinality(places) - 1
      BY <1>3
    <3> QED
      BY <1>1, <3>1
  <2> QED
    BY <2>1
<1>6. f \in Injection(places, R)
  <2>1. f \in [places -> R]
    BY <1>5
  <2>2. \A j, k \in places : f[j] = f[k] => j = k
    <3>1. ASSUME NEW j \in places, NEW k \in places, j # k PROVE f[j] # f[k]
      <4>1. j \in Nat /\ k \in Nat
        OBVIOUS
      <4>2. j < k \/ k < j
        BY <3>1, <4>1
      <4>3. Rank(places, j) \in Nat /\ Rank(places, k) \in Nat
        BY <1>3
      <4>4. Rank(places, j) # Rank(places, k)
        BY <1>4, <4>2, <4>3
      <4> QED
        BY <4>4
    <3> QED
      BY <3>1
  <2> QED
    <3> HIDE DEF f, R
    <3> QED
      BY <2>1, <2>2 DEF Injection, IsInjective
<1>7. IsFiniteSet(R) /\ Cardinality(R) = Cardinality(places)
  <2>1. Cardinality(places) - 1 \in Int
    BY <1>1
  <2> QED
    BY <1>1, <2>1, FS_Interval
<1>8. f \in Surjection(places, R)
  <2> HIDE DEF f, R
  <2> QED
    BY <1>6, <1>7, FS_Injection
<1>9. \A n \in R : \E k \in places : Rank(places, k) = n
  BY <1>8 DEF Surjection
<1>10. \A j, k \in places : j < k => Rank(places, j) < Rank(places, k)
  BY <1>4
<1> QED
  BY <1>1, <1>5, <1>10, <1>9

\* What is kept: the elements at the places, in their order, one for each place.
LEMMA KeepKeeps ==
  ASSUME NEW S, NEW seq \in Seq(S), NEW places \in SUBSET (1..Len(seq))
  PROVE  /\ Keep(seq, places) \in Seq(S) /\ Len(Keep(seq, places)) = Cardinality(places)
         /\ IsFiniteSet(places) /\ Cardinality(places) \in Nat
         /\ \E at \in [1..Cardinality(places) -> places] :
              /\ \A n \in 1..Cardinality(places) : Keep(seq, places)[n] = seq[at[n]]
              /\ \A m, n \in 1..Cardinality(places) : m < n => at[m] < at[n]
              /\ \A k \in places : \E n \in 1..Cardinality(places) : at[n] = k
<1> DEFINE N == Cardinality(places)
           at == [n \in 1..N |-> CHOOSE k \in places : Rank(places, k) = n - 1]
<1>1. /\ IsFiniteSet(places) /\ N \in Nat /\ Len(seq) \in Nat /\ places \subseteq Nat
      /\ \A k \in places : Rank(places, k) \in 0..(N - 1)
      /\ \A j, k \in places : j < k => Rank(places, j) < Rank(places, k)
      /\ \A n \in 0..(N - 1) : \E k \in places : Rank(places, k) = n
  <2>1. Len(seq) \in Nat
    OBVIOUS
  <2>2. places \subseteq Nat
    BY <2>1
  <2> QED
    BY <2>1, <2>2, RanksCount
<1> HIDE DEF N
<1>2. \A n \in 1..N : at[n] \in places /\ Rank(places, at[n]) = n - 1
  <2>1. \A n \in 1..N : n - 1 \in 0..(N - 1)
    BY <1>1
  <2> QED
    BY <1>1, <2>1
<1>3. Keep(seq, places) = [n \in 1..N |-> seq[at[n]]]
  BY DEF Keep, N
<1>4. at \in [1..N -> places]
  BY <1>2
<1> HIDE DEF at
<1>5. \A n \in 1..N : seq[at[n]] \in S
  <2>1. \A k \in 1..Len(seq) : seq[k] \in S
    OBVIOUS
  <2> QED
    BY <1>2, <2>1
<1>6. Keep(seq, places) \in Seq(S) /\ Len(Keep(seq, places)) = N
  BY <1>1, <1>3, <1>5
<1>7. \A m, n \in 1..N : m < n => at[m] < at[n]
  <2>1. ASSUME NEW m \in 1..N, NEW n \in 1..N, m < n PROVE at[m] < at[n]
    <3>1. at[m] \in Nat /\ at[n] \in Nat
      BY <1>1, <1>2
    <3>2. Rank(places, at[m]) < Rank(places, at[n])
      BY <1>1, <1>2, <2>1
    <3>3. at[m] # at[n]
      BY <1>1, <1>2, <3>2
    <3>4. ~(at[n] < at[m])
      <4>1. at[n] < at[m] => n - 1 < m - 1
        BY <1>1, <1>2
      <4> QED
        BY <1>1, <2>1, <4>1
    <3> QED
      BY <3>1, <3>3, <3>4
  <2> QED
    BY <2>1
<1>8. \A k \in places : \E n \in 1..N : at[n] = k
  <2>1. ASSUME NEW k \in places PROVE at[Rank(places, k) + 1] = k /\ Rank(places, k) + 1 \in 1..N
    <3> DEFINE n == Rank(places, k) + 1
    <3>1. n \in 1..N /\ Rank(places, k) \in Nat
      BY <1>1
    <3>2. at[n] \in places /\ Rank(places, at[n]) = Rank(places, k)
      BY <1>2, <3>1
    <3>3. at[n] \in Nat /\ k \in Nat
      BY <1>1, <3>2
    <3>4. ~(at[n] < k) /\ ~(k < at[n])
      <4>1. ~(Rank(places, k) < Rank(places, k))
        BY <3>1
      <4> HIDE DEF n
      <4> QED
        BY <1>1, <3>2, <4>1
    <3> HIDE DEF n
    <3>5. at[n] = k
      BY <3>3, <3>4
    <3> QED
      BY <3>1, <3>5 DEF n
  <2> QED
    BY <2>1
<1> QED
  BY <1>1, <1>3, <1>4, <1>6, <1>7, <1>8 DEF N

\* What is kept from a place on.
LEMMA KeepFrom ==
  ASSUME NEW S, NEW seq \in Seq(S), NEW a \in {1, 2}, a <= Len(seq) + 1
  PROVE  Keep(seq, a..Len(seq)) = [n \in 1..(Len(seq) - a + 1) |-> seq[n + a - 1]]
<1> DEFINE N == Len(seq)
           M == N - a + 1
<1>1. N \in Nat /\ a \in Nat /\ M \in Nat /\ M = N - a + 1
  OBVIOUS
<1> HIDE DEF N, M
<1>2. Cardinality(a..N) = M
  <2>1. IsFiniteSet(a..N) /\ Cardinality(a..N) = IF a > N THEN 0 ELSE N - a + 1
    <3>1. a \in Int /\ N \in Int
      BY <1>1
    <3> QED
      BY <3>1, FS_Interval
  <2>2. M = IF a > N THEN 0 ELSE N - a + 1
    BY <1>1
  <2> QED
    BY <2>1, <2>2
<1>3. \A k \in a..N : Rank(a..N, k) = k - a
  <2>1. ASSUME NEW k \in a..N PROVE Rank(a..N, k) = k - a
    <3>1. {j \in a..N : j < k} = a..(k - 1)
      BY <1>1
    <3>2. k - 1 \in Int /\ a \in Int
      BY <1>1
    <3>3. IsFiniteSet(a..(k - 1)) /\ Cardinality(a..(k - 1)) = IF a > k - 1 THEN 0 ELSE (k - 1) - a + 1
      BY <3>2, FS_Interval
    <3>4. (IF a > k - 1 THEN 0 ELSE (k - 1) - a + 1) = k - a
      BY <1>1, <2>1
    <3> QED
      BY <3>1, <3>3, <3>4 DEF Rank
  <2> QED
    BY <2>1
<1>4. \A n \in 1..M : (CHOOSE k \in a..N : Rank(a..N, k) = n - 1) = n + a - 1
  <2>1. ASSUME NEW n \in 1..M PROVE (CHOOSE k \in a..N : Rank(a..N, k) = n - 1) = n + a - 1
    <3>1. n + a - 1 \in a..N /\ Rank(a..N, n + a - 1) = n - 1
      BY <1>1, <1>3
    <3>2. \A k \in a..N : Rank(a..N, k) = n - 1 => k = n + a - 1
      BY <1>1, <1>3
    <3> QED
      BY <3>1, <3>2
  <2> QED
    BY <2>1
<1>5. Keep(seq, a..N) = [n \in 1..M |-> seq[CHOOSE k \in a..N : Rank(a..N, k) = n - 1]]
  BY <1>2 DEF Keep
<1>6. Keep(seq, a..N) = [n \in 1..M |-> seq[n + a - 1]]
  BY <1>4, <1>5
<1> QED
  BY <1>6 DEF M, N

\* All of a sequence, and all but its first element.
LEMMA KeepAll ==
  ASSUME NEW S, NEW seq \in Seq(S) PROVE Keep(seq, 1..Len(seq)) = seq
<1>1. Keep(seq, 1..Len(seq)) = [n \in 1..(Len(seq) - 1 + 1) |-> seq[n + 1 - 1]]
  <2>1. 1 \in {1, 2} /\ 1 <= Len(seq) + 1
    OBVIOUS
  <2> QED
    BY <2>1, KeepFrom
<1>2. Len(seq) - 1 + 1 = Len(seq) /\ \A n \in 1..Len(seq) : n + 1 - 1 = n
  OBVIOUS
<1>3. Keep(seq, 1..Len(seq)) = [n \in 1..Len(seq) |-> seq[n]]
  BY <1>1, <1>2
<1> QED
  BY <1>3

LEMMA KeepTail ==
  ASSUME NEW S, NEW seq \in Seq(S), seq # <<>> PROVE Keep(seq, 2..Len(seq)) = Tail(seq)
<1>1. Len(seq) \in Nat /\ Len(seq) >= 1
  OBVIOUS
<1>2. Keep(seq, 2..Len(seq)) = [n \in 1..(Len(seq) - 2 + 1) |-> seq[n + 2 - 1]]
  BY <1>1, KeepFrom
<1>3. Len(seq) - 2 + 1 = Len(seq) - 1 /\ \A n \in 1..(Len(seq) - 1) : n + 2 - 1 = n + 1
  BY <1>1
<1>4. Keep(seq, 2..Len(seq)) = [n \in 1..(Len(seq) - 1) |-> seq[n + 1]]
  BY <1>2, <1>3
<1>5. Tail(seq) = [n \in 1..(Len(seq) - 1) |-> seq[n + 1]]
  <2>1. Tail(seq) \in Seq(S) /\ Len(Tail(seq)) = Len(seq) - 1 /\ \A i \in 1 .. Len(Tail(seq)) : Tail(seq)[i] = seq[i+1]
    BY HeadTailProperties
  <2>2. PICK rest \in Seq(S) : rest = Tail(seq)
    BY <2>1
  <2>3. rest \in [1..Len(rest) -> S]
    BY <2>2, LenProperties
  <2> QED
    BY <2>1, <2>2, <2>3
<1> QED
  BY <1>4, <1>5

\* The first element stays first.
LEMMA KeepFirst ==
  ASSUME NEW S, NEW seq \in Seq(S), NEW places \in SUBSET (1..Len(seq)), 1 \in places
  PROVE  Len(Keep(seq, places)) >= 1 /\ Keep(seq, places)[1] = seq[1]
<1> DEFINE N == Cardinality(places)
           kept == Keep(seq, places)
<1>1. /\ Len(kept) = N /\ N \in Nat
      /\ \E at \in [1..N -> places] :
           /\ \A n \in 1..N : kept[n] = seq[at[n]]
           /\ \A m, n \in 1..N : m < n => at[m] < at[n]
           /\ \A k \in places : \E n \in 1..N : at[n] = k
  BY KeepKeeps
<1>0. places \subseteq Nat \ {0}
  OBVIOUS
<1> HIDE DEF N, kept
<1>2. PICK at \in [1..N -> places] :
        /\ \A n \in 1..N : kept[n] = seq[at[n]]
        /\ \A m, n \in 1..N : m < n => at[m] < at[n]
        /\ \A k \in places : \E n \in 1..N : at[n] = k
  BY <1>1
<1>3. PICK n \in 1..N : at[n] = 1
  BY <1>2
<1>4. n = 1
  <2>1. SUFFICES ASSUME n # 1 PROVE FALSE
    OBVIOUS
  <2>2. 1 \in 1..N /\ 1 < n
    BY <1>1, <2>1
  <2>3. at[1] < 1 /\ at[1] \in places
    BY <1>2, <1>3, <2>2
  <2>4. at[1] \in Nat /\ at[1] # 0
    BY <1>0, <2>3
  <2> QED
    BY <2>3, <2>4
<1> QED
  BY <1>1, <1>2, <1>3, <1>4 DEF N, kept
=============================================================================
