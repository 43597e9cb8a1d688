--------------------------- MODULE SequenceLemmas ---------------------------
(***************************************************************************)
(* Queues, as the semaphores of SessionQueue and BackgroundJobs keep them: *)
(* who is in one after the first leaves, one joins, or one gives up, and   *)
(* what a queue is when others are put in front of it; and the last of a   *)
(* set of places.                                                          *)
(***************************************************************************)
EXTENDS SequencesExt, SequenceTheorems, FiniteSetTheorems, WellFoundedInduction, TLAPS

(* The elements of a queue, by their places. *)
LEMMA SeqRange ==
    ASSUME NEW S, NEW s \in Seq(S)
    PROVE  \A e : e \in Range(s) <=> \E i \in 1 .. Len(s) : s[i] = e
BY LenProperties DEF Range

(* Nobody is in an empty queue. *)
LEMMA RangeEmpty == Range(<<>>) = {}
BY DEF Range

(* A set of places that is not empty has a last one. *)
LEMMA MaxOf ==
    ASSUME NEW n \in Nat, NEW I \in SUBSET (1 .. n), I # {}
    PROVE  Max(I) \in I /\ \A k \in I : Max(I) >= k
<1> DEFINE T == {m \in Nat : n - m \in I}
           R == {p \in Nat \X Nat : p[1] < p[2]}
<1>1. T \subseteq Nat /\ T # {}
  <2>1. PICK i \in I : TRUE
    OBVIOUS
  <2>2. n - i \in Nat /\ n - (n - i) = i
    OBVIOUS
  <2> QED
    BY <2>1, <2>2
<1>2. IsWellFoundedOn(R, Nat)
  BY NatLessThanWellFounded DEF OpToRel
<1>3. PICK m \in T : \A y \in T : ~(<<y, m>> \in R)
  BY <1>1, <1>2, WFMin
<1>4. \A y \in T : ~(y < m)
  BY <1>1, <1>3
<1>5. \A k \in I : n - m >= k
  <2> SUFFICES ASSUME NEW k \in I PROVE n - m >= k
    OBVIOUS
  <2>1. n - k \in T
    <3>1. n - k \in Nat /\ n - (n - k) = k
      OBVIOUS
    <3> QED
      BY <3>1
  <2>2. ~(n - k < m) /\ k \in Nat
    BY <1>4, <2>1
  <2> QED
    BY <2>2
<1>6. n - m \in I
  OBVIOUS
<1> HIDE DEF T, R
<1> QED
  BY <1>5, <1>6 DEF Max

(* It is the one that none is behind. *)
LEMMA LastIs ==
    ASSUME NEW n \in Nat, NEW K \in SUBSET (1 .. n), NEW i \in K, \A k \in K : k <= i
    PROVE  Max(K) = i
<1>1. K # {} /\ \A k \in K : k \in Nat
  OBVIOUS
<1>2. Max(K) \in K /\ \A k \in K : Max(K) >= k
  BY <1>1, MaxOf
<1>3. i \in Nat /\ \A x \in Nat : x <= i /\ x >= i => x = i
  BY <1>1
<1>4. Max(K) \in Nat /\ Max(K) <= i /\ Max(K) >= i
  BY <1>1, <1>2
<1> QED
  BY <1>3, <1>4

(* It has a first one. *)
LEMMA MinOf ==
    ASSUME NEW n \in Nat, NEW I \in SUBSET (1 .. n), I # {}
    PROVE  Min(I) \in I /\ \A k \in I : Min(I) <= k
<1> DEFINE R == {p \in Nat \X Nat : p[1] < p[2]}
<1>1. I \subseteq Nat
  OBVIOUS
<1>2. IsWellFoundedOn(R, Nat)
  BY NatLessThanWellFounded DEF OpToRel
<1>3. PICK m \in I : \A y \in I : ~(<<y, m>> \in R)
  BY <1>1, <1>2, WFMin
<1>4. \A y \in I : m <= y
  <2>1. \A y \in I : ~(y < m)
    BY <1>1, <1>3
  <2> QED
    BY <1>1, <2>1
<1> HIDE DEF R
<1> QED
  BY <1>4 DEF Min

(* A set of places is finite ... *)
LEMMA PlacesFinite ==
    ASSUME NEW n \in Nat, NEW I \in SUBSET (1 .. n)
    PROVE  IsFiniteSet(I) /\ Cardinality(I) \in 0 .. n
<1>1. IsFiniteSet(1 .. n) /\ Cardinality(1 .. n) = n
  BY FS_Interval
<1>2. /\ IsFiniteSet(I) /\ Cardinality(I) \in Nat /\ Cardinality(I) <= n
  BY <1>1, FS_Subset, FS_CardinalityType
<1> QED
  BY <1>2

(* ... and so are those of it up to one of them. *)
LEMMA RankType ==
    ASSUME NEW n \in Nat, NEW I \in SUBSET (1 .. n), NEW i \in Nat
    PROVE  IsFiniteSet({j \in I : j <= i}) /\ Cardinality({j \in I : j <= i}) \in 0 .. Cardinality(I)
<1>1. /\ IsFiniteSet({j \in I : j <= i}) /\ Cardinality({j \in I : j <= i}) \in Nat
      /\ Cardinality({j \in I : j <= i}) <= Cardinality(I) /\ Cardinality(I) \in Nat
  BY PlacesFinite, FS_Subset, FS_CardinalityType
<1> QED
  BY <1>1

(* One more place at the end of a set of places is the last in rank, and   *)
(* leaves the other ranks alone.                                           *)
LEMMA PlaceMore ==
    ASSUME NEW n \in Nat, NEW I \in SUBSET (1 .. n)
    PROVE  LET J == I \cup {n + 1}
           IN  /\ Cardinality(I) \in Nat /\ Cardinality(J) = Cardinality(I) + 1
               /\ Cardinality({j \in J : j <= n + 1}) = Cardinality(I) + 1
               /\ \A i \in I : {j \in J : j <= i} = {j \in I : j <= i}
<1> DEFINE J == I \cup {n + 1}
<1>1. IsFiniteSet(I) /\ Cardinality(I) \in Nat
  BY PlacesFinite
<1>2. n + 1 \notin I
  OBVIOUS
<1>3. Cardinality(J) = Cardinality(I) + 1
  BY <1>1, <1>2, FS_AddElement
<1>4. {j \in J : j <= n + 1} = J
  <2>1. \A j \in J : j <= n + 1
    OBVIOUS
  <2> QED
    BY <2>1
<1>5. \A i \in I : {j \in J : j <= i} = {j \in I : j <= i}
  OBVIOUS
<1> QED
  BY <1>1, <1>3, <1>4, <1>5

(* Places that are shifted are as many as before. *)
LEMMA PlacesShifted ==
    ASSUME NEW n \in Nat, NEW I \in SUBSET (1 .. n), NEW J, NEW s \in Int,
           \A i \in I : i + s \in J,
           \A j \in J : j \in Int /\ j - s \in I
    PROVE  Cardinality(J) = Cardinality(I)
<1> DEFINE f == [i \in I |-> i + s]
<1>1. IsFiniteSet(I)
  BY PlacesFinite
<1>2. f \in [I -> J]
  OBVIOUS
<1>3. f \in Injection(I, J)
  <2>1. \A a, b \in I : f[a] = f[b] => a = b
    OBVIOUS
  <2> QED
    BY <1>2, <2>1 DEF Injection, IsInjective
<1>4. f \in Surjection(I, J)
  <2>1. \A j \in J : \E i \in I : f[i] = j
    <3> SUFFICES ASSUME NEW j \in J PROVE f[j - s] = j /\ j - s \in I
      OBVIOUS
    <3> QED
      OBVIOUS
  <2> QED
    BY <1>2, <2>1 DEF Surjection
<1> QED
  BY <1>1, <1>3, <1>4, FS_Surjection

(* Some place of a set is the k-th. *)
LEMMA RankOnto ==
    ASSUME NEW n \in Nat, NEW I \in SUBSET (1 .. n), NEW k \in 1 .. Cardinality(I)
    PROVE  \E i \in I : Cardinality({j \in I : j <= i}) = k
<1> DEFINE Rank(i) == Cardinality({j \in I : j <= i})
           Bad == {m \in 1 .. Cardinality(I) : \A i \in I : Rank(i) # m}
<1>1. IsFiniteSet(I) /\ Cardinality(I) \in Nat
  BY PlacesFinite
<1> SUFFICES ASSUME Bad # {} PROVE FALSE
  OBVIOUS
<1>2. Bad \in SUBSET (1 .. Cardinality(I))
  OBVIOUS
<1>3. Min(Bad) \in Bad /\ \A m \in Bad : Min(Bad) <= m
  BY <1>1, <1>2, MinOf
<1> DEFINE b == Min(Bad)
<1>4. b \in 1 .. Cardinality(I) /\ \A i \in I : Rank(i) # b
  BY <1>3
<1>5. PICK K \in SUBSET I : /\ Cardinality(K) = b - 1 /\ IsFiniteSet(K)
                            /\ \A i \in K, j \in I : j <= i => j \in K
  <2>1. CASE b = 1
    <3> DEFINE U == {}
    <3>1. Cardinality(U) = b - 1 /\ IsFiniteSet(U) /\ U \in SUBSET I
      BY <2>1, FS_EmptySet
    <3>2. \A i \in U, j \in I : j <= i => j \in U
      OBVIOUS
    <3> HIDE DEF U
    <3> QED
      BY <3>1, <3>2
  <2>2. CASE b # 1
    <3>1. b - 1 \in 1 .. Cardinality(I) /\ b - 1 \notin Bad
      BY <1>1, <1>3, <1>4, <2>2
    <3>2. PICK i \in I : Rank(i) = b - 1
      BY <3>1
    <3> DEFINE U == {j \in I : j <= i}
    <3>3. U \in SUBSET I /\ IsFiniteSet(U) /\ Cardinality(U) = b - 1
      <4>1. i \in Nat
        OBVIOUS
      <4>2. IsFiniteSet(U)
        BY <4>1, RankType
      <4> QED
        BY <3>2, <4>2
    <3>4. \A l \in U, j \in I : j <= l => j \in U
      OBVIOUS
    <3> HIDE DEF U
    <3> QED
      BY <3>3, <3>4
  <2> QED
    BY <2>1, <2>2
<1>6. I \ K # {} /\ I \ K \in SUBSET (1 .. n)
  <2>1. K # I
    BY <1>1, <1>4, <1>5
  <2> QED
    BY <2>1
<1>7. Min(I \ K) \in I \ K /\ \A m \in I \ K : Min(I \ K) <= m
  BY <1>6, MinOf
<1> DEFINE x == Min(I \ K)
<1>8. {j \in I : j <= x} = K \cup {x}
  <2> HIDE DEF x
  <2>1. x \in I \ K /\ \A m \in I \ K : x <= m
    BY <1>7 DEF x
  <2>2. \A j \in K : j <= x
    BY <1>5, <2>1
  <2>3. \A j \in I : j <= x => j \in K \/ j = x
    BY <2>1
  <2> QED
    BY <2>1, <2>2, <2>3
<1>9. Cardinality(K \cup {x}) = (b - 1) + 1
  <2> HIDE DEF x
  <2>1. x \notin K
    BY <1>7 DEF x
  <2>2. Cardinality(K \cup {x}) = Cardinality(K) + 1
    BY <1>5, <2>1, FS_AddElement
  <2> QED
    BY <1>5, <2>2
<1>10. Rank(x) = b /\ x \in I
  <2>1. (b - 1) + 1 = b
    BY <1>1, <1>4
  <2> QED
    BY <1>7, <1>8, <1>9, <2>1
<1> QED
  BY <1>4, <1>10

(* A later place has a higher rank. *)
LEMMA RankGrows ==
    ASSUME NEW n \in Nat, NEW I \in SUBSET (1 .. n), NEW i \in I, NEW k \in I, i < k
    PROVE  Cardinality({j \in I : j <= i}) < Cardinality({j \in I : j <= k})
<1> DEFINE A == {j \in I : j <= i}
           B == {j \in I : j <= k}
<1>0. i \in Nat /\ k \in Nat /\ \A j \in I : j \in Nat
  OBVIOUS
<1>1. IsFiniteSet(A) /\ IsFiniteSet(B) /\ Cardinality(A) \in Nat /\ Cardinality(B) \in Nat
  <2>1. IsFiniteSet(A) /\ IsFiniteSet(B)
    BY <1>0, RankType
  <2> HIDE DEF A, B
  <2> QED
    BY <2>1, FS_CardinalityType
<1>2. A \cup {k} \subseteq B /\ k \notin A
  <2>1. \A j \in A : j \in B
    BY <1>0
  <2>2. k \in B /\ k \notin A
    BY <1>0
  <2> HIDE DEF A, B
  <2> QED
    BY <2>1, <2>2
<1> HIDE DEF A, B
<1>3. Cardinality(A \cup {k}) = Cardinality(A) + 1
  BY <1>1, <1>2, FS_AddElement
<1>4. Cardinality(A \cup {k}) <= Cardinality(B) /\ Cardinality(A \cup {k}) \in Nat
  BY <1>1, <1>2, FS_Subset, FS_CardinalityType
<1>5. Cardinality(A) < Cardinality(B)
  BY <1>1, <1>3, <1>4
<1> QED
  BY <1>5 DEF A, B

(* Some place of a set is the k-th from its end. *)
LEMMA RankFromEnd ==
    ASSUME NEW n \in Nat, NEW I \in SUBSET (1 .. n), NEW k \in 1 .. Cardinality(I)
    PROVE  \E i \in I : Cardinality({j \in I : j >= i}) = k
<1> DEFINE m == Cardinality(I) - k + 1
<1>1. IsFiniteSet(I) /\ Cardinality(I) \in Nat /\ m \in 1 .. Cardinality(I)
  BY PlacesFinite
<1>2. PICK i \in I : Cardinality({j \in I : j <= i}) = m
  BY <1>1, RankOnto
<1> DEFINE A == {j \in I : j <= i}
           B == {j \in I : j >= i}
<1>3. B = (I \ A) \cup {i} /\ i \notin I \ A /\ I \cap A = A
  <2>1. i \in Nat /\ \A j \in I : j \in Nat
    OBVIOUS
  <2>2. \A j \in I : j >= i <=> (~(j <= i) \/ j = i)
    BY <2>1
  <2>3. i \in A
    BY <2>1
  <2> QED
    BY <2>2, <2>3
<1>4. IsFiniteSet(I \ A) /\ Cardinality(I \ A) = Cardinality(I) - m
  <2>1. IsFiniteSet(I \ A) /\ Cardinality(I \ A) = Cardinality(I) - Cardinality(I \cap A)
    BY <1>1, FS_Difference
  <2> QED
    BY <1>2, <1>3, <2>1
<1>5. Cardinality((I \ A) \cup {i}) = Cardinality(I) - m + 1
  BY <1>3, <1>4, FS_AddElement
<1>6. Cardinality(I) - m + 1 = k
  BY <1>1
<1> QED
  BY <1>3, <1>5, <1>6

(* The elements up to m ... *)
LEMMA FrontOf ==
    ASSUME NEW S, NEW s \in Seq(S), NEW m \in 0 .. Len(s)
    PROVE  /\ SubSeq(s, 1, m) \in Seq(S) /\ Len(SubSeq(s, 1, m)) = m
           /\ \A i \in 1 .. m : SubSeq(s, 1, m)[i] = s[i]
<1>0. Len(s) \in Nat /\ m \in Int /\ 1 \in Int
  BY LenProperties
<1>1. \A i \in 1 .. m : s[i] \in S
  BY <1>0, ElementOfSeq
<1> DEFINE u == SubSeq(s, 1, m)
<1>2. /\ u \in Seq(S) /\ Len(u) = IF 1 <= m THEN m - 1 + 1 ELSE 0
      /\ \A i \in 1 .. m - 1 + 1 : u[i] = s[1 + i - 1]
  BY <1>0, <1>1, SubSeqProperties
<1> HIDE DEF u
<1>3. m - 1 + 1 = m /\ (~(1 <= m) => m = 0) /\ \A i \in 1 .. m : 1 + i - 1 = i
  BY <1>0
<1>4. Len(u) = m /\ \A i \in 1 .. m : u[i] = s[i]
  BY <1>2, <1>3
<1> QED
  BY <1>2, <1>4 DEF u

(* ... and those from m on. *)
LEMMA BackOf ==
    ASSUME NEW S, NEW s \in Seq(S), NEW m \in 1 .. Len(s) + 1
    PROVE  /\ SubSeq(s, m, Len(s)) \in Seq(S) /\ Len(SubSeq(s, m, Len(s))) = Len(s) - m + 1
           /\ \A i \in 1 .. Len(s) - m + 1 : SubSeq(s, m, Len(s))[i] = s[m + i - 1]
<1>0. Len(s) \in Nat /\ Len(s) \in Int /\ m \in Int
  BY LenProperties
<1>1. \A i \in m .. Len(s) : s[i] \in S
  BY <1>0, ElementOfSeq
<1> DEFINE u == SubSeq(s, m, Len(s))
<1>2. /\ u \in Seq(S) /\ Len(u) = IF m <= Len(s) THEN Len(s) - m + 1 ELSE 0
      /\ \A i \in 1 .. Len(s) - m + 1 : u[i] = s[m + i - 1]
  BY <1>0, <1>1, SubSeqProperties
<1> HIDE DEF u
<1>3. Len(u) = Len(s) - m + 1
  BY <1>0, <1>2
<1> QED
  BY <1>2, <1>3 DEF u

(* The element in front is the first to leave ... *)
LEMMA TailLeaves ==
    ASSUME NEW S, NEW s \in Seq(S), s # <<>>,
           \A i, k \in 1 .. Len(s) : s[i] = s[k] => i = k
    PROVE  /\ Head(s) \in S /\ Tail(s) \in Seq(S)
           /\ Head(s) \in Range(s) /\ Range(Tail(s)) = Range(s) \ {Head(s)}
           /\ \A i, k \in 1 .. Len(Tail(s)) : Tail(s)[i] = Tail(s)[k] => i = k
<1>1. /\ Head(s) \in S /\ Tail(s) \in Seq(S) /\ Len(Tail(s)) = Len(s) - 1
      /\ \A i \in 1 .. Len(Tail(s)) : Tail(s)[i] = s[i + 1]
  BY HeadTailProperties
<1>2. Len(s) \in Nat \ {0} /\ Head(s) = s[1]
  BY LenProperties, EmptySeq
<1>3. /\ \A e : e \in Range(s) <=> \E i \in 1 .. Len(s) : s[i] = e
      /\ \A e : e \in Range(Tail(s)) <=> \E i \in 1 .. Len(s) - 1 : s[i + 1] = e
  <2>1. \A e : e \in Range(Tail(s)) <=> \E i \in 1 .. Len(Tail(s)) : Tail(s)[i] = e
    BY <1>1, SeqRange
  <2> QED
    BY <1>1, <2>1, SeqRange
<1>4. ASSUME NEW e \in Range(s), e # Head(s) PROVE e \in Range(Tail(s))
  <2>1. PICK i \in 1 .. Len(s) : s[i] = e
    BY <1>3, <1>4
  <2>2. i - 1 \in 1 .. Len(s) - 1 /\ s[(i - 1) + 1] = e
    BY <1>2, <1>4, <2>1
  <2> QED
    BY <1>3, <2>2
<1>5. ASSUME NEW e \in Range(Tail(s)) PROVE e \in Range(s) /\ e # Head(s)
  <2>1. PICK i \in 1 .. Len(s) - 1 : s[i + 1] = e
    BY <1>3, <1>5
  <2>2. i + 1 \in 1 .. Len(s) /\ i + 1 # 1 /\ 1 \in 1 .. Len(s)
    BY <1>2
  <2> QED
    BY <1>2, <1>3, <2>1, <2>2
<1>6. Head(s) \in Range(s)
  BY <1>2, <1>3
<1> QED
  BY <1>1, <1>2, <1>4, <1>5, <1>6

(* ... one that is appended the last ... *)
LEMMA AppendJoins ==
    ASSUME NEW S, NEW s \in Seq(S), NEW e \in S, e \notin Range(s)
    PROVE  /\ Range(Append(s, e)) = Range(s) \cup {e}
           /\ (\A i, k \in 1 .. Len(s) : s[i] = s[k] => i = k) =>
                 \A i, k \in 1 .. Len(Append(s, e)) :
                    Append(s, e)[i] = Append(s, e)[k] => i = k
<1>1. /\ Append(s, e) \in Seq(S) /\ Len(Append(s, e)) = Len(s) + 1
      /\ \A i \in 1 .. Len(s) : Append(s, e)[i] = s[i]
      /\ Append(s, e)[Len(s) + 1] = e
  BY AppendProperties
<1>2. Len(s) \in Nat /\ DOMAIN s = 1 .. Len(s) /\ DOMAIN Append(s, e) = 1 .. Len(s) + 1
  BY <1>1, LenProperties
<1>3. Range(Append(s, e)) = Range(s) \cup {e}
  BY <1>1, <1>2 DEF Range
<1>4. \A i \in 1 .. Len(s) : s[i] # e
  BY <1>2 DEF Range
<1> QED
  BY <1>1, <1>2, <1>3, <1>4

(* ... and one that gives up leaves the others in order. *)
LEMMA RemoveLeaves ==
    ASSUME NEW S, NEW s \in Seq(S), NEW n \in 1 .. Len(s),
           \A i, k \in 1 .. Len(s) : s[i] = s[k] => i = k
    PROVE  /\ RemoveAt(s, n) \in Seq(S)
           /\ Range(RemoveAt(s, n)) = Range(s) \ {s[n]}
           /\ \A i, k \in 1 .. Len(RemoveAt(s, n)) :
                 RemoveAt(s, n)[i] = RemoveAt(s, n)[k] => i = k
<1> DEFINE a == SubSeq(s, 1, n - 1)
           b == SubSeq(s, n + 1, Len(s))
           t == RemoveAt(s, n)
<1>0. Len(s) \in Nat
  BY LenProperties
<1>1. /\ a \in Seq(S) /\ Len(a) = n - 1 /\ \A i \in 1 .. n - 1 : a[i] = s[i]
  <2>1. n - 1 \in 0 .. Len(s)
    BY <1>0
  <2> QED
    BY <2>1, FrontOf
<1>2. /\ b \in Seq(S) /\ Len(b) = Len(s) - n /\ \A i \in 1 .. Len(s) - n : b[i] = s[n + i]
  <2>1. n + 1 \in 1 .. Len(s) + 1
    BY <1>0
  <2>2. /\ b \in Seq(S) /\ Len(b) = Len(s) - (n + 1) + 1
        /\ \A i \in 1 .. Len(s) - (n + 1) + 1 : b[i] = s[(n + 1) + i - 1]
    BY <2>1, BackOf
  <2> HIDE DEF b
  <2> QED
    BY <1>0, <2>2
<1>3. t = a \o b
  BY DEF RemoveAt
<1> HIDE DEF a, b
<1>4. /\ t \in Seq(S) /\ Len(t) = Len(s) - 1
      /\ \A i \in 1 .. Len(s) - 1 : t[i] = IF i < n THEN s[i] ELSE s[i + 1]
  <2>1. /\ a \o b \in Seq(S) /\ Len(a \o b) = Len(a) + Len(b)
        /\ \A i \in 1 .. Len(a) + Len(b) : (a \o b)[i] = IF i <= Len(a) THEN a[i] ELSE b[i - Len(a)]
    <3>1. a \in Seq(S) /\ b \in Seq(S)
      BY <1>1, <1>2
    <3> QED
      BY <3>1, ConcatProperties
  <2>2. ASSUME NEW i \in 1 .. Len(s) - 1
        PROVE  (a \o b)[i] = IF i < n THEN s[i] ELSE s[i + 1]
    <3>1. CASE i < n
      BY <1>0, <1>1, <1>2, <2>1, <3>1
    <3>2. CASE i >= n
      <4>1. i - (n - 1) \in 1 .. Len(s) - n /\ n + (i - (n - 1)) = i + 1
        BY <1>0, <3>2
      <4>2. (a \o b)[i] = b[i - (n - 1)]
        BY <1>0, <1>1, <1>2, <2>1, <3>2
      <4>3. b[i - (n - 1)] = s[n + (i - (n - 1))]
        BY <1>2, <4>1
      <4>4. ~(i < n)
        BY <1>0, <3>2
      <4> QED
        BY <4>1, <4>2, <4>3, <4>4
    <3>3. i < n \/ i >= n
      BY <1>0
    <3> QED
      BY <3>1, <3>2, <3>3
  <2> QED
    BY <1>0, <1>1, <1>2, <1>3, <2>1, <2>2
<1> HIDE DEF t
<1>5. /\ \A e : e \in Range(s) <=> \E i \in 1 .. Len(s) : s[i] = e
      /\ \A e : e \in Range(t) <=> \E i \in 1 .. Len(s) - 1 : t[i] = e
  BY <1>4, SeqRange
<1>6. ASSUME NEW e \in Range(s), e # s[n] PROVE e \in Range(t)
  <2>1. PICK i \in 1 .. Len(s) : s[i] = e
    BY <1>5, <1>6
  <2>2. CASE i < n
    BY <1>0, <1>4, <1>5, <2>1, <2>2
  <2>3. CASE i > n
    <3>1. i - 1 \in 1 .. Len(s) - 1 /\ ~(i - 1 < n) /\ (i - 1) + 1 = i
      BY <1>0, <2>3
    <3> QED
      BY <1>4, <1>5, <2>1, <3>1
  <2> QED
    BY <1>0, <1>6, <2>1, <2>2, <2>3
<1>7. ASSUME NEW e \in Range(t) PROVE e \in Range(s) /\ e # s[n]
  <2>1. PICK i \in 1 .. Len(s) - 1 : t[i] = e
    BY <1>5, <1>7
  <2>2. \E k \in 1 .. Len(s) : k # n /\ s[k] = e
    BY <1>0, <1>4, <2>1
  <2> QED
    BY <1>5, <2>2
<1>8. \A i, k \in 1 .. Len(t) : t[i] = t[k] => i = k
  BY <1>0, <1>4
<1> QED
  BY <1>4, <1>6, <1>7, <1>8 DEF t

(* A queue is its first element and then the rest ... *)
LEMMA HeadThenTail ==
    ASSUME NEW S, NEW s \in Seq(S), s # <<>>
    PROVE  <<Head(s)>> \o Tail(s) = s
<1>1. 1 \in 1 .. Len(s) /\ Len(s) \in Nat /\ Len(s) \in 1 .. Len(s)
  BY EmptySeq
<1>2. SubSeq(s, 1, Len(s)) = <<s[1]>> \o SubSeq(s, 1 + 1, Len(s))
  BY <1>1, SubSeqRecursiveFirst
<1>3. SubSeq(s, 1, Len(s)) = s /\ Tail(s) = SubSeq(s, 2, Len(s)) /\ Head(s) = s[1]
  BY SubSeqFull, TailIsSubSeq
<1> QED
  BY <1>2, <1>3

(* ... and whoever is put in front is the first, and leaves the rest. *)
LEMMA FirstThenRest ==
    ASSUME NEW S, NEW e \in S, NEW s \in Seq(S)
    PROVE  /\ <<e>> \o s # <<>> /\ Head(<<e>> \o s) = e /\ Tail(<<e>> \o s) = s
           /\ 1 \in DOMAIN (<<e>> \o s) /\ (<<e>> \o s)[1] = e
           /\ RemoveAt(<<e>> \o s, 1) = s
<1> DEFINE f == <<e>>
           t == f \o s
<1>1. f \in Seq(S) /\ Len(f) = 1 /\ f[1] = e
  OBVIOUS
<1> HIDE DEF f
<1>2. /\ t \in Seq(S) /\ Len(t) = Len(f) + Len(s)
      /\ \A i \in 1 .. Len(f) + Len(s) : t[i] = IF i <= Len(f) THEN f[i] ELSE s[i - Len(f)]
  BY <1>1, ConcatProperties
<1> HIDE DEF t
<1>3. Len(s) \in Nat /\ Len(t) = 1 + Len(s) /\ DOMAIN t = 1 .. 1 + Len(s)
  BY <1>1, <1>2, LenProperties
<1>4. t # <<>> /\ t[1] = e /\ 1 \in DOMAIN t
  BY <1>1, <1>2, <1>3, EmptySeq
<1>5. Head(t) = e
  BY <1>4
<1>6. Tail(t) = s
  <2> DEFINE u == Tail(t)
  <2>1. u \in Seq(S) /\ Len(u) = Len(s) /\ \A i \in 1 .. Len(u) : u[i] = t[i + 1]
    BY <1>2, <1>3, <1>4, HeadTailProperties
  <2> HIDE DEF u
  <2>2. \A i \in 1 .. Len(u) : u[i] = s[i]
    BY <1>1, <1>2, <1>3, <2>1
  <2>3. u = s
    BY <2>1, <2>2, SeqEqual
  <2> QED
    BY <2>3 DEF u
<1>7. RemoveAt(t, 1) = s
  <2>1. SubSeq(t, 1, 1 - 1) = <<>>
    BY SubSeqEmpty
  <2>2. SubSeq(t, 1 + 1, Len(t)) = s
    BY <1>2, <1>4, <1>6, TailIsSubSeq
  <2> QED
    BY <2>1, <2>2, ConcatEmptySeq DEF RemoveAt
<1> QED
  BY <1>4, <1>5, <1>6, <1>7 DEF f, t

(* To leave from behind others is to leave from one's own part of the line. *)
LEMMA RemoveBehind ==
    ASSUME NEW S, NEW h \in Seq(S), NEW s \in Seq(S), NEW n \in 1 .. Len(s)
    PROVE  /\ Len(h) + n \in DOMAIN (h \o s) /\ (h \o s)[Len(h) + n] = s[n]
           /\ RemoveAt(h \o s, Len(h) + n) = h \o RemoveAt(s, n)
<1> DEFINE t == h \o s
           l == Len(h)
           k == Len(s)
           a == SubSeq(s, 1, n - 1)
           b == SubSeq(s, n + 1, k)
           x == SubSeq(t, 1, (l + n) - 1)
           y == SubSeq(t, l + n + 1, Len(t))
           v == h \o a
<1>1. /\ t \in Seq(S) /\ Len(t) = l + k
      /\ \A i \in 1 .. l + k : t[i] = IF i <= l THEN h[i] ELSE s[i - l]
  BY ConcatProperties
<1>2. l \in Nat /\ k \in Nat /\ n \in 1 .. k
  BY LenProperties
<1>3. DOMAIN t = 1 .. l + k
  BY <1>1, LenProperties
<1>4. a \in Seq(S) /\ Len(a) = n - 1 /\ \A i \in 1 .. n - 1 : a[i] = s[i]
  <2>1. n - 1 \in 0 .. Len(s)
    BY <1>2
  <2> QED
    BY <2>1, FrontOf
<1>5. b \in Seq(S) /\ Len(b) = k - (n + 1) + 1
      /\ \A i \in 1 .. k - (n + 1) + 1 : b[i] = s[(n + 1) + i - 1]
  <2>1. n + 1 \in 1 .. Len(s) + 1
    BY <1>2
  <2> QED
    BY <2>1, BackOf
<1>6. v \in Seq(S) /\ Len(v) = l + Len(a)
      /\ \A i \in 1 .. l + Len(a) : v[i] = IF i <= l THEN h[i] ELSE a[i - l]
  <2> HIDE DEF a
  <2> QED
    BY <1>4, ConcatProperties
<1>7. x \in Seq(S) /\ Len(x) = (l + n) - 1 /\ \A i \in 1 .. (l + n) - 1 : x[i] = t[i]
  <2> HIDE DEF t, l, k
  <2>1. (l + n) - 1 \in 0 .. Len(t)
    BY <1>1, <1>2
  <2> QED
    BY <1>1, <2>1, FrontOf
<1>8. y \in Seq(S) /\ Len(y) = Len(t) - (l + n + 1) + 1
      /\ \A i \in 1 .. Len(t) - (l + n + 1) + 1 : y[i] = t[(l + n + 1) + i - 1]
  <2> HIDE DEF t, l, k
  <2>1. l + n + 1 \in 1 .. Len(t) + 1
    BY <1>1, <1>2
  <2> QED
    BY <1>1, <2>1, BackOf
<1>9. RemoveAt(t, l + n) = x \o y /\ RemoveAt(s, n) = a \o b
  <2>1. RemoveAt(s, n) = a \o b
    BY DEF RemoveAt
  <2> HIDE DEF t, l, k
  <2>2. RemoveAt(t, l + n) = x \o y
    BY DEF RemoveAt
  <2> QED
    BY <2>1, <2>2
<1> HIDE DEF t, l, k, a, b, x, y, v
<1>10. x = v
  <2>1. Len(x) = Len(v) /\ Len(v) = (l + n) - 1
    BY <1>2, <1>4, <1>6, <1>7
  <2>2. ASSUME NEW i \in 1 .. (l + n) - 1 PROVE x[i] = v[i]
    <3>1. i \in 1 .. l + k /\ i \in Int /\ i \in 1 .. l + Len(a)
      <4>1. l + Len(a) = (l + n) - 1 /\ (l + n) - 1 <= l + k
        BY <1>2, <1>4
      <4> QED
        BY <1>2, <2>2, <4>1
    <3>2. CASE i <= l
      BY <1>1, <1>6, <1>7, <3>1, <3>2
    <3>3. CASE ~(i <= l)
      <4>1. i - l \in 1 .. n - 1
        BY <1>2, <2>2, <3>3
      <4>2. x[i] = s[i - l]
        BY <1>1, <1>7, <3>1, <2>2, <3>3
      <4>3. v[i] = a[i - l]
        BY <1>6, <3>1, <3>3
      <4> QED
        BY <1>4, <4>1, <4>2, <4>3
    <3> QED
      BY <3>2, <3>3
  <2> QED
    BY <1>6, <1>7, <2>1, <2>2, SeqEqual
<1>11. y = b
  <2>1. Len(y) = Len(b) /\ Len(b) = k - n
    BY <1>1, <1>2, <1>5, <1>8
  <2>2. ASSUME NEW i \in 1 .. k - n PROVE y[i] = b[i]
    <3>1. /\ i \in 1 .. Len(t) - (l + n + 1) + 1 /\ (l + n + 1) + i - 1 = l + n + i
          /\ i \in 1 .. k - (n + 1) + 1 /\ (n + 1) + i - 1 = n + i
      BY <1>1, <1>2, <2>2
    <3>2. y[i] = t[l + n + i] /\ b[i] = s[n + i]
      BY <1>5, <1>8, <3>1
    <3>3. l + n + i \in 1 .. l + k /\ ~(l + n + i <= l) /\ (l + n + i) - l = n + i
      BY <1>2, <2>2
    <3> QED
      BY <1>1, <3>2, <3>3
  <2> QED
    BY <1>5, <1>8, <2>1, <2>2, SeqEqual
<1>12. v \o b = h \o (a \o b)
  <2>1. h \in Seq(S) /\ a \in Seq(S) /\ b \in Seq(S)
    BY <1>4, <1>5
  <2>2. (h \o a) \o b = h \o (a \o b)
    BY <2>1, ConcatAssociative
  <2> QED
    BY <2>2 DEF v
<1>13. l + n \in DOMAIN t /\ t[l + n] = s[n]
  <2>1. l + n \in 1 .. l + k /\ ~(l + n <= l) /\ (l + n) - l = n
    BY <1>2
  <2> QED
    BY <1>1, <1>3, <2>1
<1>14. RemoveAt(t, l + n) = h \o RemoveAt(s, n)
  BY <1>9, <1>10, <1>11, <1>12
<1> QED
  BY <1>13, <1>14 DEF t, l

=============================================================================
