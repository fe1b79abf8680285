----------------------- MODULE StorageRefinementProofs -----------------------
(* The storage library implements RevisionStore; and callers find every object *)
(* of a revision, and can put it back.                                        *)
EXTENDS StorageRefinement, StorageQueries, StorageTreeProofs

(* What RevisionStore and Storage both take from the library is the same.  *)

LEMMA StoreNames ==
  /\ Store!Object = Object /\ Store!Node = Node /\ Store!NULL = NULL
  BY DEF Store!Object, Object, Store!Node, Node, Store!NULL, NULL

LEMMA StoreCardinality == \A S : Store!Cardinality(S) = Cardinality(S)
  BY Zenon DEF Store!Cardinality, Cardinality

LEMMA StoreSequences ==
  /\ \A s : Store!ToSet(s) = ToSet(s)
  /\ \A s : Store!IsInjective(s) = IsInjective(s)
  /\ \A s, i, e : Store!InsertAt(s, i, e) = InsertAt(s, i, e)
  BY DEF Store!ToSet, ToSet, Store!IsInjective, IsInjective, Store!InsertAt, InsertAt

-----------------------------------------------------------------------------
(* Lists of which some elements are taken out *)

\* The list t is what is left of s; `at' says where t[i] was.
Keeps(s, gone, t, at) ==
  /\ at \in [1..Len(t) -> 1..Len(s)]
  /\ \A i, j \in 1..Len(t) : i < j => at[i] < at[j]
  /\ \A i \in 1..Len(t) : t[i] = s[at[i]] /\ s[at[i]] \notin gone
  /\ \A i \in 1..Len(s) : s[i] \notin gone => \E j \in 1..Len(t) : at[j] = i

LEMMA KeepsOrder ==
  ASSUME NEW s \in Seq(Object), NEW gone, NEW t \in Seq(Object), NEW at,
         Keeps(s, gone, t, at)
  PROVE  /\ \A i, j \in 1..Len(t) : i < j <=> at[i] < at[j]
         /\ \A i, j \in 1..Len(t) : at[i] = at[j] => i = j
  <1>1. Len(t) \in Nat /\ Len(s) \in Nat
    BY LenProperties
  <1>2. \A i \in 1..Len(t) : i \in Int /\ at[i] \in Int
    BY <1>1 DEF Keeps
  <1>3. \A i, j \in 1..Len(t) : i < j => at[i] < at[j]
    BY DEF Keeps
  <1> QED BY <1>2, <1>3

\* The places at which a list has elements which stay, up to a place how many
\* they are, and which of them is the k-th.
Stay(s, gone) == {i \in DOMAIN s : s[i] \notin gone}
UpTo(s, gone, i) == {j \in Stay(s, gone) : j <= i}
Rank(s, gone, i) == Cardinality(UpTo(s, gone, i))
Nth(s, gone, k) == CHOOSE i \in Stay(s, gone) : Rank(s, gone, i) = k

LEMMA StayFinite ==
  ASSUME NEW s \in Seq(Object), NEW gone
  PROVE  /\ IsFiniteSet(Stay(s, gone)) /\ Cardinality(Stay(s, gone)) \in Nat
         /\ Stay(s, gone) \subseteq 1..Len(s) /\ Len(s) \in Nat
         /\ \A i \in Stay(s, gone) : i \in Int
  <1>1. Len(s) \in Nat /\ DOMAIN s = 1..Len(s)
    BY LenProperties
  <1>2. IsFiniteSet(1..Len(s)) /\ Stay(s, gone) \in SUBSET (1..Len(s))
    BY <1>1, FS_Interval DEF Stay
  <1> QED BY <1>1, <1>2, FS_Subset, FS_CardinalityType

LEMMA RankFacts ==
  ASSUME NEW s \in Seq(Object), NEW gone, NEW i \in Stay(s, gone)
  PROVE  /\ UpTo(s, gone, i) \subseteq Stay(s, gone) /\ i \in UpTo(s, gone, i)
         /\ IsFiniteSet(UpTo(s, gone, i)) /\ i \in Int /\ Rank(s, gone, i) \in Int
         /\ Rank(s, gone, i) \in 1..Cardinality(Stay(s, gone))
  <1> DEFINE S == UpTo(s, gone, i)
             n == Cardinality(Stay(s, gone))
  <1>1. IsFiniteSet(Stay(s, gone)) /\ n \in Nat /\ i \in Int
    BY StayFinite
  <1>2. S \in SUBSET Stay(s, gone) /\ i \in S
    BY <1>1 DEF UpTo
  <1> HIDE DEF S
  <1>3. IsFiniteSet(S) /\ Cardinality(S) <= n
    BY <1>1, <1>2, FS_Subset
  <1>4. Cardinality(S) \in Nat /\ Cardinality(S) # 0
    BY <1>2, <1>3, FS_CardinalityType, FS_EmptySet
  <1>5. Cardinality(S) = Rank(s, gone, i)
    BY DEF S, Rank
  <1> HIDE DEF n
  <1>6. Rank(s, gone, i) \in 1..n
    BY <1>1, <1>3, <1>4, <1>5
  <1> QED BY <1>1, <1>2, <1>3, <1>4, <1>5, <1>6 DEF S, n

LEMMA RankOrder ==
  ASSUME NEW s \in Seq(Object), NEW gone
  PROVE  /\ \A i, j \in Stay(s, gone) : i < j => Rank(s, gone, i) < Rank(s, gone, j)
         /\ \A i, j \in Stay(s, gone) : Rank(s, gone, i) = Rank(s, gone, j) => i = j
  <1>1. ASSUME NEW i \in Stay(s, gone), NEW j \in Stay(s, gone), i < j
        PROVE  Rank(s, gone, i) < Rank(s, gone, j)
    <2> DEFINE S == UpTo(s, gone, i)
               T == UpTo(s, gone, j)
    <2>1. i \in Int /\ j \in Int /\ \A l \in Stay(s, gone) : l \in Int
      BY StayFinite
    <2>2. S \subseteq T /\ j \in T /\ j \notin S
      <3>1. \A l \in Stay(s, gone) : l <= i => l <= j
        BY <1>1, <2>1
      <3>2. j <= j /\ ~(j <= i)
        BY <1>1, <2>1
      <3> QED BY <3>1, <3>2 DEF UpTo
    <2>3. IsFiniteSet(T) /\ Rank(s, gone, i) \in Int /\ Rank(s, gone, j) \in Int
      BY RankFacts
    <2>4. Rank(s, gone, i) = Cardinality(S) /\ Rank(s, gone, j) = Cardinality(T)
      BY DEF Rank
    <2> HIDE DEF S, T
    <2>5. S \in SUBSET T /\ S # T
      BY <2>2
    <2>6. Cardinality(S) <= Cardinality(T) /\ Cardinality(S) # Cardinality(T)
      BY <2>3, <2>5, FS_Subset
    <2> QED BY <2>3, <2>4, <2>6
  <1>2. ASSUME NEW i \in Stay(s, gone), NEW j \in Stay(s, gone),
               Rank(s, gone, i) = Rank(s, gone, j)
        PROVE  i = j
    <2>1. i \in Int /\ j \in Int /\ Rank(s, gone, i) \in Int
      BY RankFacts
    <2>2. ~(Rank(s, gone, i) < Rank(s, gone, j)) /\ ~(Rank(s, gone, j) < Rank(s, gone, i))
      BY <1>2, <2>1
    <2>3. ~(i < j) /\ ~(j < i)
      BY <1>1, <2>2
    <2> QED BY <2>1, <2>3
  <1> QED BY <1>1, <1>2

LEMMA WithoutMeans ==
  ASSUME NEW s, NEW gone
  PROVE  LET n == Cardinality(Stay(s, gone))
             t == Store!Without(s, gone)
         IN t = [k \in 1..n |-> t[k]] /\ \A k \in 1..n : t[k] = s[Nth(s, gone, k)]
  <1> DEFINE n == Cardinality(Stay(s, gone))
             t == [k \in 1..n |-> s[Nth(s, gone, k)]]
  <1>1. Store!Without(s, gone) = t
    BY Zenon DEF Store!Without, Store!Cardinality, Cardinality, Stay, UpTo, Rank, Nth
  <1>2. t = [k \in 1..n |-> t[k]] /\ \A k \in 1..n : t[k] = s[Nth(s, gone, k)]
    OBVIOUS
  <1> QED BY <1>1, <1>2

LEMMA KeepsWithout ==
  ASSUME NEW s \in Seq(Object), NEW gone, NEW t \in Seq(Object), NEW at,
         Keeps(s, gone, t, at)
  PROVE  Store!Without(s, gone) = t
  <1> DEFINE stay == Stay(s, gone)
             n == Len(t)
             w == Store!Without(s, gone)
  <1>1. n \in Nat /\ Len(s) \in Nat /\ DOMAIN t = 1..n /\ DOMAIN s = 1..Len(s)
    BY LenProperties
  <1>2. /\ \A i \in 1..n : at[i] \in stay /\ t[i] = s[at[i]]
        /\ \A i \in stay : \E j \in 1..n : at[j] = i
        /\ DOMAIN at = 1..n /\ at = [i \in 1..n |-> at[i]]
    BY <1>1 DEF Keeps, Stay
  <1>3. /\ \A i, j \in 1..n : i < j <=> at[i] < at[j]
        /\ \A i, j \in 1..n : at[i] = at[j] => i = j
    BY KeepsOrder
  <1>4. \A i \in stay : i \in Int
    BY StayFinite
  <1> HIDE DEF n
  <1>5. Cardinality(stay) = n
    <2> HIDE DEF stay
    <2>1. at \in Bijection(1..n, stay)
      BY <1>2, <1>3 DEF Bijection, Injection, Surjection, IsInjective
    <2> QED BY <1>1, <2>1, FS_CountingElements DEF ExistsBijection
  <1>6. ASSUME NEW k \in 1..n PROVE Rank(s, gone, at[k]) = k
    <2> DEFINE T == UpTo(s, gone, at[k])
               f == [i \in 1..k |-> at[i]]
    <2>1. \A i \in 1..k : i \in 1..n /\ (i < k \/ i = k)
      BY <1>1
    <2>2. \A i \in 1..k : at[i] \in T
      BY <1>2, <1>3, <1>4, <2>1 DEF UpTo
    <2>3. \A j \in T : \E i \in 1..k : at[i] = j
      <3> SUFFICES ASSUME NEW j \in T PROVE \E i \in 1..k : at[i] = j
        OBVIOUS
      <3>1. j \in stay /\ j <= at[k]
        BY DEF UpTo
      <3>2. PICK i \in 1..n : at[i] = j
        BY <1>2, <3>1
      <3>3. ~(k < i)
        BY <1>2, <1>3, <1>4, <3>1, <3>2
      <3>4. i \in 1..k
        BY <1>1, <3>3
      <3> QED BY <3>2, <3>4
    <2> HIDE DEF T
    <2>4. f \in Bijection(1..k, T)
      BY <1>3, <2>1, <2>2, <2>3 DEF Bijection, Injection, Surjection, IsInjective
    <2>5. k \in Nat
      BY <1>1
    <2>6. Cardinality(T) = k
      BY <2>4, <2>5, FS_CountingElements DEF ExistsBijection
    <2> QED BY <2>6 DEF Rank, T
  <1>7. ASSUME NEW k \in 1..n PROVE Nth(s, gone, k) = at[k]
    <2>1. at[k] \in stay /\ Rank(s, gone, at[k]) = k
      BY <1>2, <1>6
    <2>2. ASSUME NEW i \in stay, Rank(s, gone, i) = k PROVE i = at[k]
      <3>1. PICK j \in 1..n : at[j] = i
        BY <1>2
      <3> QED BY <1>6, <2>2, <3>1
    <2> QED BY <2>1, <2>2 DEF Nth
  <1>8. w = [k \in 1..n |-> w[k]] /\ \A k \in 1..n : w[k] = s[Nth(s, gone, k)]
    BY <1>5, WithoutMeans
  <1>9. t = [k \in 1..n |-> t[k]] /\ \A k \in 1..n : w[k] = t[k]
    BY <1>1, <1>2, <1>7, <1>8
  <1> HIDE DEF w
  <1>10. w = t
    BY <1>8, <1>9
  <1> QED BY <1>10 DEF w

LEMMA WithoutKeeps ==
  ASSUME NEW s \in Seq(Object), NEW gone
  PROVE  /\ Store!Without(s, gone) \in Seq(Object)
         /\ \E at : Keeps(s, gone, Store!Without(s, gone), at)
  <1> DEFINE stay == Stay(s, gone)
             n == Cardinality(stay)
             rank == [i \in stay |-> Rank(s, gone, i)]
             at == [k \in 1..n |-> Nth(s, gone, k)]
             t == Store!Without(s, gone)
  <1>1. /\ IsFiniteSet(stay) /\ n \in Nat /\ Len(s) \in Nat
        /\ stay \subseteq 1..Len(s) /\ \A i \in stay : i \in Int
    BY StayFinite
  <1>2. \A i \in stay : Rank(s, gone, i) \in 1..n
    BY RankFacts
  <1>3. /\ \A i, j \in stay : i < j => Rank(s, gone, i) < Rank(s, gone, j)
        /\ \A i, j \in stay : Rank(s, gone, i) = Rank(s, gone, j) => i = j
    BY RankOrder
  <1>4. t = [k \in 1..n |-> t[k]] /\ \A k \in 1..n : t[k] = s[Nth(s, gone, k)]
    BY WithoutMeans
  <1>5. \A i \in stay : s[i] \in Object /\ s[i] \notin gone
    BY <1>1, ElementOfSeq DEF Stay
  <1>6. \A i \in 1..Len(s) : s[i] \notin gone => i \in stay
    BY LenProperties DEF Stay
  <1>7. \A k \in 1..n : \E i \in stay : Rank(s, gone, i) = k
    <2> HIDE DEF stay
    <2>1. rank \in [stay -> 1..n] /\ \A i \in stay : rank[i] = Rank(s, gone, i)
      BY <1>2
    <2> HIDE DEF rank
    <2>2. rank \in Injection(stay, 1..n)
      BY <1>3, <2>1 DEF Injection, IsInjective
    <2>3. IsFiniteSet(1..n) /\ Cardinality(1..n) = Cardinality(stay)
      BY <1>1, FS_Interval
    <2> HIDE DEF n
    <2>4. rank \in Surjection(stay, 1..n)
      BY <2>2, <2>3, FS_Injection
    <2> QED BY <2>1, <2>4 DEF Surjection
  <1>8. \A k \in 1..n : at[k] \in stay /\ Rank(s, gone, at[k]) = k
    BY <1>7 DEF Nth
  <1>9. /\ \A k \in 1..n : t[k] = s[at[k]]
        /\ at = [k \in 1..n |-> at[k]]
    BY <1>4
  <1> HIDE DEF stay, n, at, t
  <1>10. t \in Seq(Object) /\ Len(t) = n
    <2>1. t \in [1..n -> Object]
      BY <1>4, <1>5, <1>8, <1>9
    <2>2. t \in Seq(Object) /\ DOMAIN t = 1..n
      BY <1>1, <2>1, FunctionIsSeq
    <2> QED BY <1>1, <2>2, LenProperties
  <1>11. Keeps(s, gone, t, at)
    <2>1. at \in [1..Len(t) -> 1..Len(s)]
      BY <1>1, <1>8, <1>9, <1>10
    <2>2. \A i, j \in 1..Len(t) : i < j => at[i] < at[j]
      <3> SUFFICES ASSUME NEW i \in 1..n, NEW j \in 1..n, i < j PROVE at[i] < at[j]
        BY <1>10
      <3>1. /\ at[i] \in stay /\ Rank(s, gone, at[i]) = i
            /\ at[j] \in stay /\ Rank(s, gone, at[j]) = j
        BY <1>8
      <3>2. i \in Int /\ j \in Int
        BY <1>1
      <3>3. at[i] \in Int /\ at[j] \in Int
        BY <1>1, <3>1
      <3>4. at[i] # at[j] /\ ~(at[j] < at[i])
        BY <1>3, <3>1, <3>2
      <3> QED BY <3>3, <3>4
    <2>3. \A i \in 1..Len(s) : s[i] \notin gone => \E j \in 1..Len(t) : at[j] = i
      <3> SUFFICES ASSUME NEW i \in 1..Len(s), s[i] \notin gone
                   PROVE  \E j \in 1..n : at[j] = i
        BY <1>10
      <3>1. i \in stay /\ Rank(s, gone, i) \in 1..n
        BY <1>2, <1>6
      <3>2. at[Rank(s, gone, i)] = i
        BY <1>3, <1>8, <3>1
      <3> QED BY <3>1, <3>2
    <2>4. \A i \in 1..Len(t) : t[i] = s[at[i]] /\ s[at[i]] \notin gone
      BY <1>5, <1>8, <1>9, <1>10
    <2> QED BY <2>1, <2>2, <2>3, <2>4 DEF Keeps
  <1>12. \E f : Keeps(s, gone, t, f)
    BY <1>11
  <1> QED BY <1>10, <1>12 DEF t

\* Taking out what isn't there, one element, or elements twice.
LEMMA WithoutNone ==
  ASSUME NEW s \in Seq(Object), NEW gone, \A i \in 1..Len(s) : s[i] \notin gone
  PROVE  Store!Without(s, gone) = s
  <1> DEFINE at == [i \in 1..Len(s) |-> i]
  <1>1. Keeps(s, gone, s, at)
    BY DEF Keeps
  <1> QED BY <1>1, KeepsWithout

LEMMA WithoutSame ==
  ASSUME NEW s \in Seq(Object), NEW A, NEW B,
         \A i \in 1..Len(s) : s[i] \in A <=> s[i] \in B
  PROVE  Store!Without(s, A) = Store!Without(s, B)
  <1> DEFINE t == Store!Without(s, B)
  <1>1. t \in Seq(Object) /\ \E at : Keeps(s, B, t, at)
    BY WithoutKeeps
  <1> HIDE DEF t
  <1>2. PICK at : Keeps(s, B, t, at)
    BY <1>1
  <1>3. Keeps(s, A, t, at)
    BY <1>2 DEF Keeps
  <1>4. Store!Without(s, A) = t
    BY <1>1, <1>3, KeepsWithout
  <1> QED BY <1>4 DEF t

LEMMA WithoutTwice ==
  ASSUME NEW s \in Seq(Object), NEW A, NEW B
  PROVE  Store!Without(Store!Without(s, A), B) = Store!Without(s, A \cup B)
  <1> DEFINE t == Store!Without(s, A)
             u == Store!Without(t, B)
  <1>1. t \in Seq(Object) /\ \E f : Keeps(s, A, t, f)
    BY WithoutKeeps
  <1> HIDE DEF t
  <1>2. u \in Seq(Object) /\ \E f : Keeps(t, B, u, f)
    BY <1>1, WithoutKeeps
  <1> HIDE DEF u
  <1>3. PICK f : Keeps(s, A, t, f)
    BY <1>1
  <1>4. PICK g : Keeps(t, B, u, g)
    BY <1>2
  <1> DEFINE at == [i \in 1..Len(u) |-> f[g[i]]]
  <1>5. Keeps(s, A \cup B, u, at)
    <2>1. at \in [1..Len(u) -> 1..Len(s)]
      BY <1>3, <1>4 DEF Keeps
    <2>2. \A i, j \in 1..Len(u) : i < j => at[i] < at[j]
      BY <1>3, <1>4 DEF Keeps
    <2>3. \A i \in 1..Len(u) : u[i] = s[at[i]] /\ s[at[i]] \notin A \cup B
      BY <1>3, <1>4 DEF Keeps
    <2>4. ASSUME NEW i \in 1..Len(s), s[i] \notin A \cup B
          PROVE  \E j \in 1..Len(u) : at[j] = i
      <3>1. PICK k \in 1..Len(t) : f[k] = i
        BY <1>3, <2>4 DEF Keeps
      <3>2. t[k] \notin B
        BY <1>3, <2>4, <3>1 DEF Keeps
      <3>3. PICK j \in 1..Len(u) : g[j] = k
        BY <1>4, <3>2 DEF Keeps
      <3> QED BY <3>1, <3>3
    <2> HIDE DEF at
    <2> QED BY <2>1, <2>2, <2>3, <2>4 DEF Keeps
  <1>6. Store!Without(s, A \cup B) = u
    BY <1>2, <1>5, KeepsWithout
  <1> QED BY <1>6 DEF u, t

LEMMA WithoutOne ==
  ASSUME NEW T, NEW s, Lists(s, T), NEW e \in T
  PROVE  /\ Store!Without(s, {e}) = RemoveAt(s, Find(s, e))
         /\ Store!Without(s, {e}) \in Seq(Object)
         /\ Len(Store!Without(s, {e})) = Len(s) - 1
         /\ \A j \in 1..(Len(s) - 1) :
              Store!Without(s, {e})[j] = IF j < Find(s, e) THEN s[j] ELSE s[j + 1]
  <1> DEFINE k == Find(s, e)
             t == RemoveAt(s, k)
             at == [j \in 1..(Len(s) - 1) |-> IF j < k THEN j ELSE j + 1]
  <1>1. /\ s \in Seq(Object) /\ Len(s) \in Nat
        /\ \A i, j \in 1..Len(s) : s[i] = s[j] => i = j
    BY ListFacts
  <1>2. k \in 1..Len(s) /\ s[k] = e
    BY ListsFind
  <1> HIDE DEF k
  <1>3. /\ t \in Seq(Object) /\ Len(t) = Len(s) - 1
        /\ \A j \in 1..(Len(s) - 1) : t[j] = IF j < k THEN s[j] ELSE s[j + 1]
    <2>1. k \in 1..(Len(s) + 1) /\ k <= Len(s)
      BY <1>1, <1>2
    <2>2. /\ RemoveAt(s, k) \in Seq(Object)
          /\ k <= Len(s) => Len(RemoveAt(s, k)) = Len(s) - 1
          /\ k <= Len(s) => \A j \in 1..(Len(s) - 1) :
               RemoveAt(s, k)[j] = IF j < k THEN s[j] ELSE s[j + 1]
      BY ONLY SMTT(30), <1>1, <2>1, RemoveAtProperties
    <2> QED BY <2>1, <2>2
  <1> HIDE DEF t
  <1>4. Keeps(s, {e}, t, at)
    <2>1. \A j \in 1..Len(t) : at[j] = (IF j < k THEN j ELSE j + 1) /\ at[j] \in 1..Len(s)
      BY <1>1, <1>2, <1>3
    <2>2. at \in [1..Len(t) -> 1..Len(s)]
      BY <1>3, <2>1
    <2> HIDE DEF at
    <2>3. \A i, j \in 1..Len(t) : i < j => at[i] < at[j]
      BY <1>1, <1>2, <1>3, <2>1
    <2>4. \A i \in 1..Len(t) : at[i] # k
      BY <1>1, <1>2, <1>3, <2>1
    <2>5. \A i \in 1..Len(t) : t[i] = s[at[i]] /\ s[at[i]] # e
      BY <1>1, <1>2, <1>3, <2>1, <2>4
    <2>6. ASSUME NEW i \in 1..Len(s), s[i] # e PROVE \E j \in 1..Len(t) : at[j] = i
      <3>1. i # k
        BY <1>2, <2>6
      <3>2. CASE i < k
        <4>1. i \in 1..Len(t) /\ at[i] = i
          BY <1>1, <1>2, <1>3, <2>1, <3>2
        <4> QED BY <4>1
      <3>3. CASE i > k
        <4>1. i - 1 \in 1..Len(t)
          BY <1>1, <1>2, <1>3, <3>3
        <4>2. at[i - 1] = i
          BY <1>1, <1>2, <1>3, <2>1, <3>3, <4>1
        <4> QED BY <4>1, <4>2
      <3> QED BY <1>1, <1>2, <3>1, <3>2, <3>3
    <2> QED BY <2>2, <2>3, <2>5, <2>6 DEF Keeps
  <1>5. Store!Without(s, {e}) = t
    BY <1>1, <1>3, <1>4, KeepsWithout
  <1> QED BY <1>3, <1>5 DEF t, k

-----------------------------------------------------------------------------
(* Deleting objects, as RevisionStore describes it *)

IsContents(c) ==
  /\ c = [value |-> c.value, children |-> c.children]
  /\ c.value = [ob \in Object |-> c.value[ob]]
  /\ c.children \in [Node -> Seq(Object)]

\* Only what is there is listed and has objects attached to it, and nothing is
\* attached to what is attached itself.
Sound(c) ==
  /\ IsContents(c)
  /\ \A n \in Node : \A ob \in ToSet(c.children[n]) : c.value[ob] # None
  /\ \A ob \in Object : c.value[ob] = None => c.children[ob] = <<>>
  /\ \A n \in Object : \A ob \in ToSet(c.children[n]) : c.children[ob] = <<>>

\* The objects which are deleted with those in the set S.
Gone(c, S) == S \cup UNION {ToSet(c.children[ob]) : ob \in S}

LEMMA ToSetMeans ==
  ASSUME NEW s \in Seq(Object)
  PROVE  /\ ToSet(s) \subseteq Object /\ Len(s) \in Nat /\ DOMAIN s = 1..Len(s)
         /\ \A x : x \in ToSet(s) <=> \E i \in 1..Len(s) : s[i] = x
         /\ \A i \in 1..Len(s) : s[i] \in ToSet(s) /\ s[i] \in Object
  <1>1. Len(s) \in Nat /\ DOMAIN s = 1..Len(s)
    BY LenProperties
  <1>2. \A i \in 1..Len(s) : s[i] \in Object
    BY ElementOfSeq
  <1> QED BY <1>1, <1>2 DEF ToSet

LEMMA EmptySet ==
  /\ ToSet(<<>>) = {} /\ Len(<<>>) = 0 /\ <<>> \in Seq(Object)
  /\ \A gone : Store!Without(<<>>, gone) = <<>>
  <1>1. <<>> \in Seq(Object) /\ Len(<<>>) = 0
    BY EmptySeq
  <1>2. ASSUME NEW s \in Seq(Object), Len(s) = 0
        PROVE  ToSet(s) = {} /\ \A gone : Store!Without(s, gone) = s
    <2>1. \A i \in 1..Len(s) : FALSE
      BY <1>2
    <2>2. ToSet(s) = {}
      BY <2>1, ToSetMeans
    <2>3. ASSUME NEW gone PROVE Store!Without(s, gone) = s
      BY <2>1, WithoutNone
    <2> QED BY <2>2, <2>3
  <1> QED BY Zenon, <1>1, <1>2

LEMMA WithoutSet ==
  ASSUME NEW s \in Seq(Object), NEW gone
  PROVE  ToSet(Store!Without(s, gone)) = ToSet(s) \ gone
  <1> DEFINE t == Store!Without(s, gone)
  <1>1. t \in Seq(Object) /\ \E at : Keeps(s, gone, t, at)
    BY WithoutKeeps
  <1> HIDE DEF t
  <1>2. PICK at : Keeps(s, gone, t, at)
    BY <1>1
  <1>3. \A x : x \in ToSet(s) <=> \E i \in 1..Len(s) : s[i] = x
    BY ToSetMeans
  <1>4. \A x : x \in ToSet(t) <=> \E i \in 1..Len(t) : t[i] = x
    BY <1>1, ToSetMeans
  <1>5. ASSUME NEW x \in ToSet(t) PROVE x \in ToSet(s) \ gone
    BY <1>2, <1>3, <1>4 DEF Keeps
  <1>6. ASSUME NEW x \in ToSet(s) \ gone PROVE x \in ToSet(t)
    BY <1>2, <1>3, <1>4 DEF Keeps
  <1> QED BY <1>5, <1>6 DEF t

LEMMA DeletedMeans ==
  ASSUME NEW c, NEW S
  PROVE  Store!Deleted(c, S) =
           [value |-> [ob \in Object |-> IF ob \in Gone(c, S) THEN None ELSE c.value[ob]],
            children |-> [n \in Node |-> IF n \in Gone(c, S) THEN <<>>
                                         ELSE Store!Without(c.children[n], Gone(c, S))]]
  <1>1. \A ob : Store!AttachedTo(c, ob) = ToSet(c.children[ob])
    BY StoreSequences DEF Store!AttachedTo
  <1>2. Gone(c, S) = S \cup UNION {Store!AttachedTo(c, ob) : ob \in S}
    BY <1>1 DEF Gone
  <1> HIDE DEF Gone
  <1> QED BY <1>2, StoreNames DEF Store!Deleted

LEMMA DeletedNone ==
  ASSUME NEW c, IsContents(c)
  PROVE  Store!Deleted(c, {}) = c
  <1>1. Gone(c, {}) = {}
    BY DEF Gone
  <1>2. \A n \in Node : Store!Without(c.children[n], {}) = c.children[n]
    BY WithoutNone DEF IsContents
  <1>3. c.children = [n \in Node |-> c.children[n]]
    BY DEF IsContents
  <1>4. Store!Deleted(c, {}) = [value |-> [ob \in Object |-> c.value[ob]],
                               children |-> [n \in Node |-> c.children[n]]]
    BY <1>1, <1>2, DeletedMeans
  <1> QED BY <1>3, <1>4 DEF IsContents

\* An object which isn't there has nothing attached to it.
LEMMA DeletedAbsent ==
  ASSUME NEW c, Sound(c), NEW x \in Object, c.value[x] = None
  PROVE  Store!Deleted(c, {x}) = c
  <1>1. c.children \in [Node -> Seq(Object)] /\ c.children[x] = <<>> /\ x \in Node
    BY NodeObject DEF Sound, IsContents
  <1>2. Gone(c, {x}) = {x}
    BY <1>1, EmptySet DEF Gone
  <1>3. ASSUME NEW n \in Node PROVE Store!Without(c.children[n], {x}) = c.children[n]
    <2>1. c.children[n] \in Seq(Object)
      BY <1>1
    <2>2. \A i \in 1..Len(c.children[n]) : c.children[n][i] # x
      BY <2>1, ToSetMeans DEF Sound
    <2> QED BY <2>1, <2>2, WithoutNone
  <1>4. [ob \in Object |-> IF ob \in {x} THEN None ELSE c.value[ob]] = c.value
    BY DEF Sound, IsContents
  <1>5. [n \in Node |-> IF n \in {x} THEN <<>> ELSE Store!Without(c.children[n], {x})]
          = c.children
    BY <1>1, <1>3
  <1>6. Store!Deleted(c, {x}) = [value |-> c.value, children |-> c.children]
    BY <1>2, <1>4, <1>5, DeletedMeans
  <1> QED BY <1>6 DEF Sound, IsContents

LEMMA DeletedTwice ==
  ASSUME NEW c, Sound(c), NEW x \in Object, NEW T \in SUBSET Object
  PROVE  Store!Deleted(Store!Deleted(c, {x}), T) = Store!Deleted(c, {x} \cup T)
  <1> DEFINE d == Store!Deleted(c, {x})
             G == Gone(c, {x})
             H == Gone(d, T)
             A == Gone(c, {x} \cup T)
  <1>1. /\ c.children \in [Node -> Seq(Object)]
        /\ \A ob \in ToSet(c.children[x]) : c.children[ob] = <<>>
    BY DEF Sound, IsContents
  <1>2. /\ d.value = [ob \in Object |-> IF ob \in G THEN None ELSE c.value[ob]]
        /\ d.children = [n \in Node |-> IF n \in G THEN <<>>
                                        ELSE Store!Without(c.children[n], G)]
    BY DeletedMeans
  <1>3. \A n \in Node : ToSet(d.children[n]) = IF n \in G THEN {}
                                               ELSE ToSet(c.children[n]) \ G
    BY <1>1, <1>2, EmptySet, WithoutSet
  <1>4. G = {x} \cup ToSet(c.children[x])
    BY DEF Gone
  <1> HIDE DEF d, G
  <1>5. T \subseteq Node
    BY NodeObject
  <1>6. \A y \in G : y = x \/ ToSet(c.children[y]) = {}
    BY <1>1, <1>4, EmptySet
  <1>7. G \cup H = A
    <2>1. ASSUME NEW y \in H PROVE y \in A
      <3>1. CASE y \in T
        BY <3>1 DEF Gone
      <3>2. CASE y \notin T
        <4>1. PICK ob \in T : y \in ToSet(d.children[ob])
          BY <3>2 DEF Gone
        <4>2. y \in ToSet(c.children[ob])
          BY <1>3, <1>5, <4>1
        <4> QED BY <4>2 DEF Gone
      <3> QED BY <3>1, <3>2
    <2>2. ASSUME NEW y \in G PROVE y \in A
      BY <1>4 DEF Gone
    <2>3. ASSUME NEW y \in A, y \notin G PROVE y \in H
      <3>1. CASE y \in T
        BY <3>1 DEF Gone
      <3>2. CASE y \notin T
        <4>1. PICK ob \in {x} \cup T : y \in ToSet(c.children[ob])
          BY <1>4, <2>3, <3>2 DEF Gone
        <4>2. ob # x /\ ob \notin G
          BY <1>4, <1>6, <2>3, <4>1
        <4>3. y \in ToSet(d.children[ob]) /\ ob \in T
          BY <1>3, <1>5, <2>3, <4>1, <4>2
        <4> QED BY <4>3 DEF Gone
      <3> QED BY <3>1, <3>2
    <2> QED BY <2>1, <2>2, <2>3
  <1> HIDE DEF H, A
  <1>8. ASSUME NEW n \in Node, n \notin H
        PROVE  Store!Without(d.children[n], H) =
                 IF n \in G THEN <<>> ELSE Store!Without(c.children[n], A)
    <2>1. CASE n \in G
      <3>1. d.children[n] = <<>>
        BY <1>2, <2>1
      <3>2. Store!Without(<<>>, H) = <<>>
        BY EmptySet
      <3> QED BY <2>1, <3>1, <3>2
    <2>2. CASE n \notin G
      <3>1. d.children[n] = Store!Without(c.children[n], G) /\ c.children[n] \in Seq(Object)
        BY <1>1, <1>2, <2>2
      <3> QED BY <1>7, <2>2, <3>1, WithoutTwice
    <2> QED BY <2>1, <2>2
  <1>9. [n \in Node |-> IF n \in H THEN <<>> ELSE Store!Without(d.children[n], H)]
          = [n \in Node |-> IF n \in A THEN <<>> ELSE Store!Without(c.children[n], A)]
    BY <1>7, <1>8
  <1>10. [ob \in Object |-> IF ob \in H THEN None ELSE d.value[ob]]
           = [ob \in Object |-> IF ob \in A THEN None ELSE c.value[ob]]
    BY <1>2, <1>7
  <1>11. Store!Deleted(d, T) =
           [value |-> [ob \in Object |-> IF ob \in H THEN None ELSE d.value[ob]],
            children |-> [n \in Node |-> IF n \in H THEN <<>>
                                         ELSE Store!Without(d.children[n], H)]]
    BY DeletedMeans DEF H
  <1>12. Store!Deleted(c, {x} \cup T) =
           [value |-> [ob \in Object |-> IF ob \in A THEN None ELSE c.value[ob]],
            children |-> [n \in Node |-> IF n \in A THEN <<>>
                                         ELSE Store!Without(c.children[n], A)]]
    BY DeletedMeans DEF A
  <1> QED BY <1>9, <1>10, <1>11, <1>12 DEF d

-----------------------------------------------------------------------------
(* What a caller sees of the revisions *)

LEMMA ValueFacts ==
  ASSUME RefcountInv, NEW r \in Rev, NEW ob \in Object
  PROVE  /\ Exists(r, ob) <=> obstates[r][ob] \in Addr
         /\ Exists(r, ob) <=> ValueOf(r, ob) # None
         /\ Exists(r, ob) => /\ ValueOf(r, ob) = cell[obstates[r][ob]]
                             /\ ValueOf(r, ob) \in ValidData
                             /\ TypeOf(r, ob) = ValueOf(r, ob)[1]
  <1>1. /\ obstates[r][ob] \in Addr \cup {None} /\ None \notin Addr
        /\ cell \in [Addr -> ValidData \cup {None}] /\ None \notin ValidData
    BY StorageAssumption DEF RefcountInv, TypeOK
  <1>2. Exists(r, ob) => obstates[r][ob] \in Addr /\ ~IsFree(obstates[r][ob])
    BY <1>1, FreeUnused DEF Exists
  <1>3. Exists(r, ob) => cell[obstates[r][ob]] # None
    BY <1>2 DEF RefcountInv, RefcountsExact, IsFree
  <1> QED BY <1>1, <1>2, <1>3 DEF Exists, ValueOf, TypeOf

LEMMA ContentsAre ==
  ASSUME TypeOK, NEW r \in Rev
  PROVE  /\ IsContents(Contents(r))
         /\ Contents(r).children = children[r]
         /\ \A ob \in Object : Contents(r).value[ob] = ValueOf(r, ob)
  BY DEF TypeOK, Contents, IsContents

LEMMA ContentsSound ==
  ASSUME RefcountInv, NEW r \in Rev, RowOK(r)
  PROVE  Sound(Contents(r))
  <1>1. /\ IsContents(Contents(r)) /\ Contents(r).children = children[r]
        /\ \A ob \in Object : Contents(r).value[ob] = ValueOf(r, ob)
    BY ContentsAre DEF RefcountInv
  <1>2. \A ob \in Object : obstates[r][ob] = None <=> ValueOf(r, ob) = None
    BY ValueFacts DEF Exists
  <1>3. /\ \A ob \in Object : obstates[r][ob] = None <=> parent[r][ob] = Absent
        /\ \A n \in Node, ob \in Object : ob \in ToSet(children[r][n]) <=> parent[r][ob] = n
        /\ \A n \in Node : children[r][n] \in Seq(Object)
        /\ \A ob \in Object : obstates[r][ob] = None => Below(parent[r], ob) = {}
    BY DEF RowOK, Forest, RowTyped, Lists, Below
  <1>4. Object \subseteq Node /\ Absent \notin Node /\ NULL \notin Object
    BY NodeObject
  <1>5. ASSUME NEW n \in Node, NEW ob \in ToSet(children[r][n])
        PROVE  ob \in Object /\ parent[r][ob] = n
    <2>1. ob \in Object
      BY <1>3, ToSetMeans
    <2> QED BY <1>3, <2>1
  <1>6. ASSUME NEW ob \in Object, \A x \in Object : parent[r][x] # ob
        PROVE  children[r][ob] = <<>>
    <2>1. Below(parent[r], ob) = {}
      BY <1>6 DEF Below
    <2>2. Lists(children[r][ob], {})
      BY <1>4, <2>1 DEF RowOK, Forest
    <2> QED BY <2>2, EmptyLists
  <1>7. \A n \in Node : \A ob \in ToSet(children[r][n]) : ValueOf(r, ob) # None
    BY <1>2, <1>3, <1>4, <1>5
  <1>8. \A ob \in Object : ValueOf(r, ob) = None => children[r][ob] = <<>>
    BY <1>2, <1>3, <1>6 DEF Below
  <1>9. ASSUME NEW n \in Object, NEW ob \in ToSet(children[r][n])
        PROVE  children[r][ob] = <<>>
    <2>1. ob \in Object /\ parent[r][ob] = n
      BY <1>4, <1>5
    <2>2. \A x \in Object : parent[r][x] # ob
      BY <1>4, <2>1 DEF RowOK, Shallow
    <2> QED BY <1>6, <2>1, <2>2
  <1>10. \A n \in Node : \A ob \in ToSet(children[r][n]) : ob \in Object
    BY <1>5
  <1> QED BY <1>1, <1>7, <1>8, <1>9, <1>10 DEF Sound

LEMMA EmptyContents ==
  ASSUME RefcountInv, NEW r \in Rev, RowOK(r), obstates[r] = NoObstates
  PROVE  Contents(r) = Store!Empty
  <1>1. \A ob \in Object : ValueOf(r, ob) = None
    BY DEF ValueOf, Exists, NoObstates
  <1>2. /\ children[r] \in [Node -> Seq(Object)] /\ Sound(Contents(r))
        /\ Contents(r).children = children[r]
        /\ \A ob \in Object : Contents(r).value[ob] = ValueOf(r, ob)
    BY ContentsSound, ContentsAre DEF RefcountInv, TypeOK
  <1>3. ASSUME NEW n \in Node PROVE children[r][n] = <<>>
    <2>1. children[r][n] \in Seq(Object) /\ Len(children[r][n]) \in Nat
      BY <1>2, LenProperties
    <2>2. \A i \in 1..Len(children[r][n]) : FALSE
      BY <1>1, <1>2, <2>1, ToSetMeans DEF Sound
    <2>3. Len(children[r][n]) = 0
      <3>1. Len(children[r][n]) # 0 => 1 \in 1..Len(children[r][n])
        BY <2>1
      <3> QED BY <2>2, <3>1
    <2> QED BY <2>1, <2>3, EmptySeq
  <1>4. children[r] = [n \in Node |-> <<>>]
    BY <1>2, <1>3
  <1>5. [ob \in Object |-> ValueOf(r, ob)] = [ob \in Object |-> None]
    BY <1>1
  <1> QED BY <1>4, <1>5, StoreNames DEF Contents, Store!Empty

\* A call which isn't a loop changes what is seen of one revision, or nothing.
LEMMA OneChanges ==
  ASSUME RefcountInv, RefcountInv', MemoryKept, NEW r \in Rev,
         call = Idle, call' = Idle,
         \A s \in Rev : s # r => obstates'[s] = obstates[s] /\ children'[s] = children[s]
  PROVE  /\ VisibleContents' = [VisibleContents EXCEPT ![r] = Contents(r)']
         /\ \A s \in Rev : VisibleContents[s] = Contents(s)
  <1>1. \A s \in Rev : s # Idle.dst
    BY StorageAssumption DEF Idle
  <1>2. \A s \in Rev : s # r => Contents(s)' = Contents(s)
    BY ContentsKept
  <1>3. /\ VisibleContents = [s \in Rev |-> Contents(s)]
        /\ VisibleContents' = [s \in Rev |-> Contents(s)']
    BY <1>1 DEF VisibleContents
  <1> QED BY <1>2, <1>3

LEMMA NothingChanges ==
  ASSUME RefcountInv, RefcountInv', MemoryKept, call'.dst = call.dst, entry' = entry,
         \A s \in Rev : s # call.dst =>
           obstates'[s] = obstates[s] /\ children'[s] = children[s]
  PROVE  VisibleContents' = VisibleContents
  <1>1. \A s \in Rev : s # call.dst => Contents(s)' = Contents(s)
    BY ContentsKept
  <1> QED BY <1>1 DEF VisibleContents

-----------------------------------------------------------------------------
(* revision.cc *)

LEMMA NewRevisionStore ==
  ASSUME RefcountInv, RefcountInv', RowsOK, NEW r \in Rev, xorn_new_revision(r)
  PROVE  Store!New(r, Store!Empty)
  <1>1. /\ call = Idle /\ call' = Idle /\ r \notin live /\ live' = live \cup {r}
        /\ is_transient' = [is_transient EXCEPT ![r] = TRUE] /\ handles' = handles
        /\ obstates' = obstates /\ children' = children /\ cell' = cell
    BY DEF xorn_new_revision, heapVars
  <1>2. MemoryKept
    BY <1>1 DEF MemoryKept
  <1>3. VisibleContents' = [VisibleContents EXCEPT ![r] = Contents(r)']
    BY <1>1, <1>2, OneChanges
  <1>4. Contents(r)' = Contents(r)
    BY <1>1, <1>2, ContentsKept
  <1>5. Contents(r) = Store!Empty
    <2>1. obstates[r] = NoObstates /\ RowOK(r)
      BY <1>1 DEF RefcountInv, DeadEmpty, RowsOK
    <2> QED BY <2>1, EmptyContents
  <1> QED BY <1>1, <1>3, <1>4, <1>5 DEF Store!New

LEMMA CopyRevisionStore ==
  ASSUME RefcountInv, RefcountInv', NEW r \in Rev, NEW from \in Rev,
         copy_revision(r, from)
  PROVE  from \in live /\ Store!New(r, VisibleContents[from])
  <1>1. /\ call = Idle /\ call' = Idle /\ r \notin live /\ live' = live \cup {r}
        /\ is_transient' = [is_transient EXCEPT ![r] = TRUE] /\ handles' = handles
        /\ obstates' = [obstates EXCEPT ![r] = obstates[from]]
        /\ children' = [children EXCEPT ![r] = children[from]] /\ cell' = cell
        /\ from \in live /\ from # r
    BY DEF copy_revision
  <1>2. MemoryKept /\ TypeOK
    BY <1>1 DEF MemoryKept, RefcountInv
  <1>3. /\ \A s \in Rev : s # r => obstates'[s] = obstates[s] /\ children'[s] = children[s]
        /\ obstates'[r] = obstates[from] /\ children'[r] = children[from]
    BY <1>1, <1>2 DEF TypeOK
  <1>4. /\ VisibleContents' = [VisibleContents EXCEPT ![r] = Contents(r)']
        /\ VisibleContents[from] = Contents(from)
    BY <1>1, <1>2, <1>3, OneChanges
  <1>5. \A ob \in Object : ValueOf(r, ob)' = ValueOf(from, ob)
    BY <1>1, <1>3 DEF ValueOf, Exists
  <1>6. Contents(r)' = Contents(from)
    BY <1>3, <1>5 DEF Contents
  <1> QED BY <1>1, <1>4, <1>6 DEF Store!New

LEMMA FinalizeStore ==
  ASSUME RefcountInv, RefcountInv', NEW r \in Rev, xorn_finalize_revision(r)
  PROVE  Store!Finalize(r)
  <1>1. /\ call = Idle /\ call' = call /\ entry' = entry /\ r \in live
        /\ is_transient' = [is_transient EXCEPT ![r] = FALSE]
        /\ UNCHANGED <<live, handles, obstates, children, cell>>
    BY DEF xorn_finalize_revision, heapVars
  <1>2. MemoryKept
    BY <1>1 DEF MemoryKept
  <1>3. VisibleContents' = VisibleContents
    BY <1>1, <1>2, NothingChanges
  <1> QED BY <1>1, <1>3 DEF Store!Finalize

LEMMA FreeStore ==
  ASSUME RefcountInv, RefcountInv', NEW r \in Rev, xorn_free_revision(r)
  PROVE  Store!Free(r)
  <1>1. /\ call = Idle /\ call' = Idle /\ r \in live /\ live' = live \ {r}
        /\ is_transient' = [is_transient EXCEPT ![r] = FALSE] /\ handles' = handles
        /\ obstates' = [obstates EXCEPT ![r] = NoObstates]
        /\ children' = [children EXCEPT ![r] = NoChildren]
        /\ cell' = Reclaim(refcnt', cell)
    BY DEF xorn_free_revision
  <1>2. MemoryKept /\ TypeOK
    BY <1>1, ReclaimKept DEF RefcountInv
  <1>3. /\ \A s \in Rev : s # r => obstates'[s] = obstates[s] /\ children'[s] = children[s]
        /\ obstates'[r] = NoObstates /\ children'[r] = NoChildren
    BY <1>1, <1>2 DEF TypeOK
  <1>4. VisibleContents' = [VisibleContents EXCEPT ![r] = Contents(r)']
    BY <1>1, <1>2, <1>3, OneChanges
  <1>5. \A ob \in Object : ValueOf(r, ob)' = None
    BY <1>3 DEF ValueOf, Exists, NoObstates
  <1>6. Contents(r)' = Store!Empty
    BY <1>3, <1>5, StoreNames DEF Contents, NoChildren, Store!Empty
  <1> QED BY <1>1, <1>4, <1>6 DEF Store!Free

LEMMA RevisionCallStore ==
  ASSUME RefcountInv, RefcountInv', RowsOK, RevisionCall
  PROVE  Store!Next
  <1>1. PICK r \in Rev : \/ xorn_new_revision(r)
                        \/ \E from \in Rev : copy_revision(r, from)
                        \/ xorn_finalize_revision(r)
                        \/ xorn_free_revision(r)
    BY DEF RevisionCall
  <1>2. CASE xorn_new_revision(r)
    BY <1>2, NewRevisionStore DEF Store!Next
  <1>3. CASE \E from \in Rev : copy_revision(r, from)
    BY <1>3, CopyRevisionStore DEF Store!Next
  <1>4. CASE xorn_finalize_revision(r)
    BY <1>4, FinalizeStore DEF Store!Next
  <1>5. CASE xorn_free_revision(r)
    BY <1>5, FreeStore DEF Store!Next
  <1> QED BY <1>1, <1>2, <1>3, <1>4, <1>5

-----------------------------------------------------------------------------
(* manipulate.cc: adding objects and changing their data *)

LEMMA ValueKept ==
  ASSUME RefcountInv, RefcountInv', MemoryKept, NEW r \in Rev, NEW ob \in Object,
         NEW s \in Rev, NEW x \in Object, obstates'[s][x] = obstates[r][ob]
  PROVE  ValueOf(s, x)' = ValueOf(r, ob)
  <1>1. obstates[r][ob] # None => obstates[r][ob] \in Addr
    BY DEF RefcountInv, TypeOK
  <1>2. obstates[r][ob] # None => cell'[obstates[r][ob]] = cell[obstates[r][ob]]
    BY <1>1, CellKept
  <1> QED BY <1>2 DEF ValueOf, Exists

LEMMA SetObjectDataContents ==
  ASSUME RefcountInv, RefcountInv', NEW r \in Rev, NEW ob \in Object,
         NEW v \in ValidData, set_object_data(r, ob, v)
  PROVE  /\ MemoryKept
         /\ \A s \in Rev : s # r => obstates'[s] = obstates[s]
         /\ \A o \in Object : ValueOf(r, o)' = IF o = ob THEN obstate(v) ELSE ValueOf(r, o)
  <1>1. TypeOK /\ None \notin Addr
    BY StorageAssumption DEF RefcountInv
  <1>2. MemoryKept /\ \A s \in Rev : s # r => obstates'[s] = obstates[s]
    BY <1>1, SetObjectDataMemory
  <1>3. PICK p \in Addr :
          /\ obstates' = [obstates EXCEPT ![r][ob] = p]
          /\ refcnt'[p] = 1
          /\ cell' = Reclaim(refcnt', [cell EXCEPT ![p] = obstate(v)])
    BY DEF set_object_data
  <1>4. obstates'[r][ob] = p /\ \A o \in Object : o # ob => obstates'[r][o] = obstates[r][o]
    BY <1>1, <1>3 DEF TypeOK
  <1>5. cell'[p] = obstate(v)
    <2>1. [cell EXCEPT ![p] = obstate(v)][p] = obstate(v)
      BY <1>1 DEF TypeOK
    <2> QED BY <1>3, <2>1 DEF Reclaim
  <1>6. ValueOf(r, ob)' = obstate(v)
    BY <1>1, <1>4, <1>5 DEF ValueOf, Exists
  <1>7. \A o \in Object : o # ob => ValueOf(r, o)' = ValueOf(r, o)
    BY <1>2, <1>4, ValueKept
  <1> QED BY <1>2, <1>6, <1>7

\* The object is given data, and it is listed if it was not there before.
LEMMA WithObjectContents ==
  ASSUME RefcountInv, RefcountInv', NEW r \in Rev, NEW ob \in Object, NEW v,
         \A o \in Object : ValueOf(r, o)' = IF o = ob THEN obstate(v) ELSE ValueOf(r, o),
         children'[r] = IF Exists(r, ob) THEN children[r]
                        ELSE [children[r] EXCEPT ![NULL] = Append(@, ob)]
  PROVE  Contents(r)' = Store!WithObject(Contents(r), ob, v)
  <1> DEFINE c == Contents(r)
  <1>1. /\ c.children = children[r] /\ \A o \in Object : c.value[o] = ValueOf(r, o)
        /\ c.value = [o \in Object |-> c.value[o]]
    BY ContentsAre DEF RefcountInv, IsContents
  <1>2. Exists(r, ob) <=> Store!Exists(c, ob)
    BY <1>1, ValueFacts DEF Store!Exists
  <1>3. Store!Stored(v) = obstate(v)
    BY DEF Store!Stored, obstate
  <1> HIDE DEF c
  <1>4. [o \in Object |-> ValueOf(r, o)]' = [c.value EXCEPT ![ob] = Store!Stored(v)]
    BY <1>1, <1>3
  <1>5. children'[r] = IF Store!Exists(c, ob) THEN c.children
                       ELSE [c.children EXCEPT ![Store!NULL] = Append(@, ob)]
    BY <1>1, <1>2, StoreNames
  <1>6. Store!WithObject(c, ob, v) = [value |-> [o \in Object |-> ValueOf(r, o)]',
                                      children |-> children'[r]]
    BY <1>4, <1>5 DEF Store!WithObject
  <1>7. Contents(r)' = [value |-> [o \in Object |-> ValueOf(r, o)]', children |-> children'[r]]
    BY DEF Contents
  <1> QED BY <1>6, <1>7 DEF c

LEMMA AddObjectStore ==
  ASSUME RefcountInv, RefcountInv', NEW r \in Rev, NEW v, xorn_add_object(r, v)
  PROVE  v \in ValidData /\ Store!Add(r, v)
  <1> DEFINE ob == next_object_id + 1
  <1>1. /\ call = Idle /\ call' = Idle /\ r \in live /\ is_transient[r]
        /\ v \in ValidData /\ next_object_id < MaxObject
        /\ UNCHANGED <<live, is_transient>>
        /\ children' = [children EXCEPT ![r][NULL] = Append(@, ob)]
        /\ set_object_data(r, ob, v)
        /\ handles' = handles \cup {ob}
    BY DEF xorn_add_object, Callable
  <1>2. /\ TypeOK /\ ob \in Object /\ ob > next_object_id /\ ob \notin handles
    <2>1. TypeOK
      BY DEF RefcountInv
    <2>2. ob \in Object
      BY <1>1, <2>1, NextId
    <2>3. next_object_id \in Int /\ \A o \in handles : o <= next_object_id
      BY <2>1, HandedOut
    <2> QED BY <2>1, <2>2, <2>3
  <1> HIDE DEF ob
  <1>3. ~Exists(r, ob)
    BY <1>2 DEF RefcountInv, ObstatesFresh, Exists
  <1>4. /\ children'[r] = [children[r] EXCEPT ![NULL] = Append(@, ob)]
        /\ \A s \in Rev : s # r => children'[s] = children[s]
    BY <1>1, <1>2 DEF TypeOK
  <1>5. /\ MemoryKept
        /\ \A s \in Rev : s # r => obstates'[s] = obstates[s]
        /\ \A o \in Object : ValueOf(r, o)' = IF o = ob THEN obstate(v) ELSE ValueOf(r, o)
    BY <1>1, <1>2, SetObjectDataContents
  <1>6. /\ VisibleContents' = [VisibleContents EXCEPT ![r] = Contents(r)']
        /\ VisibleContents[r] = Contents(r)
    BY <1>1, <1>4, <1>5, OneChanges
  <1>7. Contents(r)' = Store!WithObject(Contents(r), ob, v)
    BY <1>2, <1>3, <1>4, <1>5, WithObjectContents
  <1>8. Store!Becomes(r, Store!WithObject(VisibleContents[r], ob, v))
    BY <1>1, <1>6, <1>7 DEF Store!Becomes
  <1> QED BY <1>1, <1>2, <1>8, StoreNames DEF Store!Add

LEMMA SetObjectStore ==
  ASSUME RefcountInv, RefcountInv', RowsOK, NEW r \in Rev, NEW ob \in Object, NEW v,
         xorn_set_object_data(r, ob, v)
  PROVE  v \in ValidData /\ Store!Set(r, ob, v)
  <1>1. /\ call = Idle /\ call' = Idle /\ r \in live /\ is_transient[r]
        /\ v \in ValidData /\ CanBecome(r, ob, v[1])
        /\ UNCHANGED <<live, is_transient, handles>>
        /\ children' = IF parent[r][ob] = Absent
                       THEN [children EXCEPT ![r][NULL] = Append(@, ob)] ELSE children
        /\ set_object_data(r, ob, v)
    BY DEF xorn_set_object_data, Callable
  <1>2. /\ TypeOK /\ (obstates[r][ob] = None <=> parent[r][ob] = Absent)
        /\ \A n \in Node, o \in Object : o \in ToSet(children[r][n]) <=> parent[r][o] = n
    BY DEF RefcountInv, RowsOK, RowOK, Forest, Lists, Below
  <1>3. /\ children'[r] = IF Exists(r, ob) THEN children[r]
                          ELSE [children[r] EXCEPT ![NULL] = Append(@, ob)]
        /\ \A s \in Rev : s # r => children'[s] = children[s]
    BY <1>1, <1>2 DEF TypeOK, Exists
  <1>4. /\ MemoryKept
        /\ \A s \in Rev : s # r => obstates'[s] = obstates[s]
        /\ \A o \in Object : ValueOf(r, o)' = IF o = ob THEN obstate(v) ELSE ValueOf(r, o)
    BY <1>1, SetObjectDataContents
  <1>5. /\ VisibleContents' = [VisibleContents EXCEPT ![r] = Contents(r)']
        /\ VisibleContents[r] = Contents(r)
    BY <1>1, <1>3, <1>4, OneChanges
  <1>6. Contents(r)' = Store!WithObject(Contents(r), ob, v)
    BY <1>3, <1>4, WithObjectContents
  <1>7. Store!Becomes(r, Store!WithObject(VisibleContents[r], ob, v))
    BY <1>1, <1>5, <1>6 DEF Store!Becomes
  <1>8. \A n : Store!AttachedTo(VisibleContents[r], n) = ToSet(children[r][n])
    BY <1>2, <1>5, ContentsAre, StoreSequences DEF Store!AttachedTo
  <1>9. ToSet(children[r][ob]) # {} => v[1] \in Holders
    BY <1>1, EmptySet DEF CanBecome
  <1>10. ASSUME NEW n \in Object, ob \in ToSet(children[r][n]) PROVE v[1] = Text
    <2>1. parent[r][ob] = n /\ n \notin {Absent, NULL}
      BY <1>2, <1>10, NodeObject
    <2> QED BY <1>1, <2>1 DEF CanBecome
  <1>11. Store!IsAttached(VisibleContents[r], ob) => v[1] = Text
    BY <1>8, <1>10, StoreNames DEF Store!IsAttached
  <1> QED BY <1>1, <1>7, <1>8, <1>9, <1>11 DEF Store!Set

\* Growing a list and taking the new element off again leaves it as it was.
LEMMA GrownAndCut ==
  ASSUME TypeOK, NEW r \in Rev, NEW n \in Node, NEW ob \in Object
  PROVE  [children EXCEPT ![r][n] = Front(Append(@, ob))] = children
  <1>1. Front(Append(children[r][n], ob)) = children[r][n]
    BY FrontProperties DEF TypeOK
  <1> QED BY <1>1 DEF TypeOK

LEMMA AddObjectFailsStore ==
  ASSUME RefcountInv, RefcountInv', NEW r \in Rev, NEW stage, AddObjectFails(r, stage)
  PROVE  UNCHANGED Store!vars
  <1>1. TypeOK /\ next_object_id + 1 \in Object /\ NULL \in Node
    BY NextId, NodeObject DEF AddObjectFails, RefcountInv
  <1>2. children' = children
    BY <1>1, GrownAndCut DEF AddObjectFails
  <1>3. UNCHANGED <<live, is_transient, obstates, cell, handles, call, entry>>
    BY DEF AddObjectFails, heapVars
  <1>4. VisibleContents' = VisibleContents
    BY <1>2, <1>3, NothingChanges DEF MemoryKept
  <1> QED BY <1>3, <1>4 DEF Store!vars

LEMMA SetObjectDataFailsStore ==
  ASSUME RefcountInv, RefcountInv', NEW r \in Rev, NEW ob \in Object, NEW stage,
         SetObjectDataFails(r, ob, stage)
  PROVE  UNCHANGED Store!vars
  <1>1. TypeOK /\ NULL \in Node
    BY NodeObject DEF RefcountInv
  <1>2. children' = children
    BY <1>1, GrownAndCut DEF SetObjectDataFails
  <1>3. UNCHANGED <<live, is_transient, obstates, cell, handles, call, entry>>
    BY DEF SetObjectDataFails, heapVars
  <1>4. VisibleContents' = VisibleContents
    BY <1>2, <1>3, NothingChanges DEF MemoryKept
  <1> QED BY <1>3, <1>4 DEF Store!vars

-----------------------------------------------------------------------------
(* manipulate.cc: moving an object *)

LEMMA SameList ==
  ASSUME NEW s \in Seq(Object), NEW t \in Seq(Object), Len(s) = Len(t),
         \A i \in 1..Len(s) : s[i] = t[i]
  PROVE  s = t
  <1>1. /\ DOMAIN s = 1..Len(s) /\ DOMAIN t = 1..Len(s)
        /\ s = [i \in DOMAIN s |-> s[i]] /\ t = [i \in DOMAIN t |-> t[i]]
    BY LenProperties
  <1> QED BY <1>1

LEMMA InsertMeans ==
  \A s \in Seq(Object), e \in Object : \A k \in 1..Len(s) :
    /\ InsertAt(s, k, e) \in Seq(Object)
    /\ Len(InsertAt(s, k, e)) = Len(s) + 1
    /\ \A l \in 1..(Len(s) + 1) :
         InsertAt(s, k, e)[l] = IF l < k THEN s[l] ELSE IF l = k THEN e ELSE s[l - 1]
  <1> SUFFICES ASSUME NEW s \in Seq(Object), NEW e \in Object, NEW k \in 1..Len(s)
               PROVE  /\ InsertAt(s, k, e) \in Seq(Object)
                      /\ Len(InsertAt(s, k, e)) = Len(s) + 1
                      /\ \A l \in 1..(Len(s) + 1) :
                           InsertAt(s, k, e)[l] =
                             IF l < k THEN s[l] ELSE IF l = k THEN e ELSE s[l - 1]
    OBVIOUS
  <1> QED BY ONLY SMTT(30), InsertAtProperties

LEMMA PutMeans ==
  ASSUME NEW T, NEW s, Lists(s, T), NEW e \in Object, NEW before \in Node,
         before # NULL => before \in T
  PROVE  Store!Put(s, e, before) = IF before = NULL THEN Append(s, e)
                                   ELSE InsertAt(s, Find(s, before), e)
  <1>1. CASE before = NULL
    BY <1>1, StoreNames DEF Store!Put
  <1>2. CASE before # NULL
    <2> DEFINE k == Find(s, before)
    <2>1. /\ DOMAIN s = 1..Len(s) /\ \A i, j \in 1..Len(s) : s[i] = s[j] => i = j
      BY ListFacts
    <2>2. k \in 1..Len(s) /\ s[k] = before
      BY <1>2, ListsFind
    <2> HIDE DEF k
    <2>3. (CHOOSE i \in DOMAIN s : s[i] = before) = k
      BY <2>1, <2>2
    <2>4. Store!Put(s, e, before) = InsertAt(s, k, e)
      BY <1>2, <2>3, StoreNames, StoreSequences DEF Store!Put
    <2> QED BY <1>2, <2>4 DEF k
  <1> QED BY <1>1, <1>2

\* An object which stays in its list is entered a second time, then removed from
\* its first place: it is as if it had been removed first.
LEMMA MovedWithin ==
  ASSUME NEW T, NEW s, Lists(s, T), NEW e \in T, NEW before \in Node,
         before # NULL => before \in T
  PROVE  LET i == Find(s, e)
             j == Find(s, before)
             pos == IF before # NULL /\ j <= i THEN i + 1 ELSE i
             entered == IF before = NULL THEN Append(s, e) ELSE InsertAt(s, j, e)
         IN RemoveAt(entered, pos) =
              IF before = e THEN s ELSE Store!Put(Store!Without(s, {e}), e, before)
  <1> DEFINE i == Find(s, e)
             j == Find(s, before)
             pos == IF before # NULL /\ j <= i THEN i + 1 ELSE i
             entered == IF before = NULL THEN Append(s, e) ELSE InsertAt(s, j, e)
             t == RemoveAt(entered, pos)
             n == Len(s)
             w == Store!Without(s, {e})
             u == Store!Put(w, e, before)
  <1>1. /\ s \in Seq(Object) /\ n \in Nat /\ e \in Object /\ e # NULL
        /\ \A l, m \in 1..n : s[l] = s[m] => l = m
    BY ListFacts, NodeObject
  <1>2. i \in 1..n /\ s[i] = e
    BY ListsFind
  <1>3. before # NULL => j \in 1..n /\ s[j] = before
    BY ListsFind
  <1>4. /\ w \in Seq(Object) /\ Len(w) = n - 1
        /\ \A l \in 1..(n - 1) : w[l] = IF l < i THEN s[l] ELSE s[l + 1]
    BY WithoutOne
  <1>5. Lists(w, T \ {e})
    <2>1. Lists(RemoveAt(s, Find(s, e)), T \ {e})
      BY ListsRemove
    <2> QED BY <2>1, WithoutOne
  <1>6. Lists(t, T)
    BY ListsMoved
  <1> HIDE DEF i, j, n, w
  <1>7. before = NULL =>
          /\ entered \in Seq(Object) /\ Len(entered) = n + 1 /\ pos = i
          /\ \A l \in 1..(n + 1) : entered[l] = IF l <= n THEN s[l] ELSE e
    <2> SUFFICES ASSUME before = NULL
                 PROVE  /\ entered \in Seq(Object) /\ Len(entered) = n + 1 /\ pos = i
                        /\ \A l \in 1..(n + 1) : entered[l] = IF l <= n THEN s[l] ELSE e
      OBVIOUS
    <2>1. entered = Append(s, e) /\ pos = i
      OBVIOUS
    <2>2. /\ Append(s, e) \in Seq(Object) /\ Len(Append(s, e)) = n + 1
          /\ \A l \in 1..n : Append(s, e)[l] = s[l]
          /\ Append(s, e)[n + 1] = e
      BY <1>1, AppendProperties DEF n
    <2> HIDE DEF entered
    <2>3. \A l \in 1..(n + 1) : IF l <= n THEN l \in 1..n ELSE l = n + 1
      BY <1>1
    <2> QED BY <2>1, <2>2, <2>3
  <1>8. before # NULL =>
          /\ entered \in Seq(Object) /\ Len(entered) = n + 1
          /\ pos = IF j <= i THEN i + 1 ELSE i
          /\ \A l \in 1..(n + 1) :
               entered[l] = IF l < j THEN s[l] ELSE IF l = j THEN e ELSE s[l - 1]
    <2> SUFFICES ASSUME before # NULL
                 PROVE  /\ InsertAt(s, j, e) \in Seq(Object)
                        /\ Len(InsertAt(s, j, e)) = n + 1
                        /\ \A l \in 1..(n + 1) :
                             InsertAt(s, j, e)[l] =
                               IF l < j THEN s[l] ELSE IF l = j THEN e ELSE s[l - 1]
      BY Zenon
    <2>1. s \in Seq(Object) /\ j \in 1..Len(s) /\ e \in Object
      BY <1>1, <1>3 DEF n
    <2> QED BY ONLY <2>1, InsertAtProperties DEF n
  <1>9. pos \in 1..(n + 1) /\ entered \in Seq(Object) /\ Len(entered) = n + 1
    BY <1>1, <1>2, <1>7, <1>8
  <1> HIDE DEF entered, pos
  <1>10. /\ t \in Seq(Object) /\ Len(t) = n
         /\ \A l \in 1..n : t[l] = IF l < pos THEN entered[l] ELSE entered[l + 1]
    <2>1. pos \in 1..(Len(entered) + 1) /\ pos <= Len(entered) /\ Len(entered) - 1 = n
      BY <1>1, <1>9
    <2>2. /\ RemoveAt(entered, pos) \in Seq(Object)
          /\ pos <= Len(entered) => Len(RemoveAt(entered, pos)) = Len(entered) - 1
          /\ pos <= Len(entered) => \A l \in 1..(Len(entered) - 1) :
               RemoveAt(entered, pos)[l] = IF l < pos THEN entered[l] ELSE entered[l + 1]
      BY ONLY SMTT(30), <1>9, <2>1, RemoveAtProperties
    <2> QED BY <2>1, <2>2
  <1> HIDE DEF t
  <1>11. CASE before = e
    <2>1. j = i
      BY <1>1, <1>2, <1>3, <1>11
    <2>2. \A l \in 1..n : t[l] = s[l]
      BY <1>1, <1>2, <1>8, <1>10, <1>11, <2>1
    <2>3. t = s
      BY <1>1, <1>10, <2>2, SameList DEF n
    <2> QED BY <1>11, <2>3 DEF t, entered, pos, i, j
  <1>12. CASE before = NULL
    <2>1. u = Append(w, e)
      BY <1>1, <1>5, <1>12, PutMeans
    <2>2. /\ u \in Seq(Object) /\ Len(u) = n
          /\ \A l \in 1..(n - 1) : u[l] = w[l]
          /\ u[n] = e
      BY <1>1, <1>4, <2>1, AppendProperties
    <2> HIDE DEF u
    <2>3. \A l \in 1..n : t[l] = u[l]
      <3> SUFFICES ASSUME NEW l \in 1..n PROVE t[l] = u[l]
        OBVIOUS
      <3>1. CASE l = n
        BY <1>1, <1>2, <1>7, <1>10, <1>12, <2>2, <3>1
      <3>2. CASE l # n
        <4>1. l \in 1..(n - 1)
          BY <1>1, <3>2
        <4>2. u[l] = IF l < i THEN s[l] ELSE s[l + 1]
          BY <1>4, <2>2, <4>1
        <4> QED BY <1>1, <1>2, <1>7, <1>10, <1>12, <4>1, <4>2
      <3> QED BY <3>1, <3>2
    <2>4. t = u
      BY <1>10, <2>2, <2>3, SameList
    <2> QED BY <1>1, <1>12, <2>4 DEF u, w, t, entered, pos, i, j
  <1>13. CASE before # NULL /\ before # e
    <2> DEFINE k == Find(w, before)
    <2>1. u = InsertAt(w, k, e)
      BY <1>1, <1>3, <1>5, <1>13, PutMeans
    <2>2. k \in 1..Len(w) /\ w[k] = before
      BY <1>3, <1>5, <1>13, ListsFind
    <2> HIDE DEF k
    <2>3. /\ u \in Seq(Object) /\ Len(u) = n
          /\ \A l \in 1..n :
               u[l] = IF l < k THEN w[l] ELSE IF l = k THEN e ELSE w[l - 1]
      <3>1. /\ InsertAt(w, k, e) \in Seq(Object)
            /\ Len(InsertAt(w, k, e)) = Len(w) + 1
            /\ \A l \in 1..(Len(w) + 1) :
                 InsertAt(w, k, e)[l] = IF l < k THEN w[l] ELSE IF l = k THEN e ELSE w[l - 1]
        <4>1. w \in Seq(Object) /\ e \in Object /\ k \in 1..Len(w)
          BY <1>1, <1>4, <2>2
        <4> QED BY ONLY ZenonT(40), <4>1, InsertMeans
      <3>2. Len(w) + 1 = n
        BY <1>1, <1>4
      <3> QED BY <2>1, <3>1, <3>2
    <2> HIDE DEF u
    <2>4. i # j /\ j \in 1..n
      BY <1>2, <1>3, <1>13
    <2>5. k = IF j < i THEN j ELSE j - 1
      <3>1. k \in 1..(n - 1)
        BY <1>4, <2>2
      <3>2. CASE k < i
        <4>1. k \in 1..n /\ s[k] = s[j]
          BY <1>1, <1>3, <1>4, <1>13, <2>2, <3>1, <3>2
        <4>2. k = j
          BY <1>1, <2>4, <4>1
        <4> QED BY <1>1, <3>2, <4>2
      <3>3. CASE ~(k < i)
        <4>1. k + 1 \in 1..n /\ s[k + 1] = s[j]
          BY <1>1, <1>3, <1>4, <1>13, <2>2, <3>1, <3>3
        <4>2. k + 1 = j
          BY <1>1, <2>4, <4>1
        <4> QED BY <1>1, <1>2, <3>1, <3>3, <4>2
      <3> QED BY <3>2, <3>3
    <2>6. \A l \in 1..n : t[l] = u[l]
      <3> SUFFICES ASSUME NEW l \in 1..n PROVE t[l] = u[l]
        OBVIOUS
      <3>1. l \in Int /\ i \in Int /\ j \in Int /\ k \in Int
        BY <1>1, <1>2, <2>2, <2>4
      <3>2. CASE j < i
        <4>1. pos = i + 1 /\ k = j
          BY <1>8, <1>13, <2>5, <3>1, <3>2
        <4>2. CASE l < j
          <5>1. l \in 1..(n - 1) /\ l < i /\ l \in 1..(n + 1)
            BY <1>1, <1>2, <3>1, <3>2, <4>2
          <5>2. t[l] = entered[l] /\ u[l] = w[l]
            BY <1>10, <2>3, <3>1, <4>1, <4>2, <5>1
          <5>3. entered[l] = s[l] /\ w[l] = s[l]
            BY <1>4, <1>8, <1>13, <4>2, <5>1
          <5> QED BY <5>2, <5>3
        <4>3. CASE l = j
          <5>1. l < i + 1 /\ l \in 1..(n + 1)
            BY <1>1, <3>1, <3>2, <4>3
          <5>2. t[l] = entered[l] /\ u[l] = e
            BY <1>10, <2>3, <3>1, <4>1, <4>3, <5>1
          <5>3. entered[l] = e
            BY <1>8, <1>13, <3>1, <4>3, <5>1
          <5> QED BY <5>2, <5>3
        <4>4. CASE l > j /\ l <= i
          <5>1. l - 1 \in 1..(n - 1) /\ l - 1 < i /\ l \in 1..(n + 1)
            BY <1>1, <1>2, <2>4, <4>4
          <5>2. t[l] = s[l - 1] /\ u[l] = w[l - 1]
            BY <1>2, <1>8, <1>10, <1>13, <2>3, <3>1, <4>1, <4>4, <5>1
          <5> QED BY <1>4, <5>1, <5>2
        <4>5. CASE l > i
          <5>1. l - 1 \in 1..(n - 1) /\ ~(l - 1 < i) /\ l + 1 \in 1..(n + 1)
            BY <1>1, <1>2, <4>5
          <5>2. t[l] = entered[l + 1] /\ u[l] = w[l - 1]
            BY <1>10, <2>3, <3>1, <3>2, <4>1, <4>5
          <5>3. entered[l + 1] = s[(l + 1) - 1] /\ w[l - 1] = s[(l - 1) + 1]
            BY <1>4, <1>8, <1>13, <3>1, <3>2, <4>5, <5>1
          <5> QED BY <3>1, <5>2, <5>3
        <4> QED BY <3>1, <4>2, <4>3, <4>4, <4>5
      <3>3. CASE j > i
        <4>1. pos = i /\ k = j - 1
          BY <1>8, <1>13, <2>5, <3>1, <3>3
        <4>2. CASE l < i
          <5>1. l \in 1..(n - 1) /\ l < j /\ l < j - 1 /\ l \in 1..(n + 1)
            BY <1>1, <1>2, <2>4, <3>1, <3>3, <4>2
          <5>2. t[l] = entered[l] /\ u[l] = w[l]
            BY <1>10, <2>3, <3>1, <4>1, <4>2, <5>1
          <5>3. entered[l] = s[l] /\ w[l] = s[l]
            BY <1>4, <1>8, <1>13, <4>2, <5>1
          <5> QED BY <5>2, <5>3
        <4>3. CASE l >= i /\ l < j - 1
          <5>1. l \in 1..(n - 1) /\ l + 1 \in 1..(n + 1) /\ l + 1 < j
            BY <1>1, <1>2, <2>4, <4>3
          <5>2. t[l] = entered[l + 1] /\ u[l] = w[l]
            BY <1>10, <2>3, <3>1, <4>1, <4>3
          <5>3. entered[l + 1] = s[l + 1] /\ w[l] = s[l + 1]
            BY <1>4, <1>8, <1>13, <3>1, <4>3, <5>1
          <5> QED BY <5>2, <5>3
        <4>4. CASE l = j - 1
          <5>1. l + 1 \in 1..(n + 1) /\ l + 1 = j /\ ~(l < i)
            BY <1>1, <3>1, <3>3, <4>4
          <5>2. t[l] = entered[l + 1] /\ u[l] = e
            BY <1>10, <2>3, <3>1, <4>1, <4>4, <5>1
          <5> QED BY <1>8, <1>13, <3>1, <5>1, <5>2
        <4>5. CASE l > j - 1
          <5>1. l - 1 \in 1..(n - 1) /\ ~(l - 1 < i) /\ l + 1 \in 1..(n + 1) /\ l + 1 > j
            BY <1>1, <1>2, <2>4, <3>3, <4>5
          <5>2. t[l] = entered[l + 1] /\ u[l] = w[l - 1]
            BY <1>10, <2>3, <3>1, <3>3, <4>1, <4>5
          <5>3. entered[l + 1] = s[(l + 1) - 1] /\ w[l - 1] = s[(l - 1) + 1]
            BY <1>4, <1>8, <1>13, <3>1, <5>1
          <5> QED BY <3>1, <5>2, <5>3
        <4> QED BY <3>1, <4>2, <4>3, <4>4, <4>5
      <3> QED BY <2>4, <3>1, <3>2, <3>3
    <2>7. t = u
      BY <1>10, <2>3, <2>6, SameList
    <2> QED BY <1>13, <2>7 DEF u, w, t, entered, pos, i, j
  <1> QED BY <1>11, <1>12, <1>13

LEMMA NewChildren ==
  ASSUME NEW a, NEW b, NEW ch
  PROVE  [[value |-> a, children |-> b] EXCEPT !.children = ch] = [value |-> a, children |-> ch]
  OBVIOUS

\* The list of node n when ob has been moved to be listed below `to'.
ListMoved(ch, ob, to, before, n) ==
  IF before = ob THEN ch[n]
  ELSE IF n = to THEN Store!Put(Store!Without(ch[n], {ob}), ob, before)
  ELSE Store!Without(ch[n], {ob})

LEMMA RelocatedMeans ==
  ASSUME NEW o, NEW pr, NEW ch, Forest(o, pr, ch),
         NEW ob \in Object, o[ob] # None, NEW to \in Node,
         NEW before \in Node, before # NULL => before \in Below(pr, to)
  PROVE  \A n \in Node :
           Relocated(ch, pr[ob], to, ob, before)[n] = ListMoved(ch, ob, to, before, n)
  <1> DEFINE old == pr[ob]
             i == Find(ch[old], ob)
             j == Find(ch[to], before)
             pos == IF before # NULL /\ to = old /\ j <= i THEN i + 1 ELSE i
             entered == IF before = NULL THEN Append(ch[to], ob)
                        ELSE InsertAt(ch[to], j, ob)
             inserted == [ch EXCEPT ![to] = IF before = NULL THEN Append(@, ob)
                                            ELSE InsertAt(@, j, ob)]
             moved == [inserted EXCEPT ![old] = RemoveAt(@, pos)]
             w(n) == Store!Without(ch[n], {ob})
  <1>0. /\ ch \in [Node -> Seq(Object)] /\ old \in Node
        /\ \A n \in Node : Lists(ch[n], Below(pr, n))
    BY DEF Forest, RowTyped
  <1> USE <1>0
  <1>1. Relocated(ch, old, to, ob, before) = moved
    BY DEF Relocated
  <1>2. ob \in Below(pr, old) /\ \A n \in Node : n # old => ob \notin Below(pr, n)
    BY DEF Below
  <1>3. ASSUME NEW n \in Node, n # old PROVE w(n) = ch[n]
    <2>1. Lists(ch[n], Below(pr, n)) /\ ch[n] \in Seq(Object)
      OBVIOUS
    <2>2. \A l \in 1..Len(ch[n]) : ch[n][l] \notin {ob}
      BY <1>2, <1>3, <2>1, ListFacts
    <2> QED BY <2>1, <2>2, WithoutNone
  <1>4. w(old) = RemoveAt(ch[old], i)
    BY <1>2, WithoutOne
  <1>6. CASE to = old
    <2>1. RemoveAt(entered, pos) =
            IF before = ob THEN ch[to] ELSE Store!Put(w(to), ob, before)
      <3>1. /\ Lists(ch[to], Below(pr, to)) /\ ob \in Below(pr, to)
            /\ pos = IF before # NULL /\ j <= Find(ch[to], ob)
                     THEN Find(ch[to], ob) + 1 ELSE Find(ch[to], ob)
        BY <1>2, <1>6
      <3> HIDE DEF pos
      <3> QED BY <3>1, MovedWithin, SMTT(30)
    <2>2. moved[to] = RemoveAt(entered, pos) /\ \A n \in Node : n # to => moved[n] = ch[n]
      <3> HIDE DEF pos, j
      <3> QED BY <1>6
    <2> HIDE DEF moved, entered, pos, i, j
    <2>3. \A n \in Node : n # to => w(n) = ch[n]
      BY <1>3, <1>6
    <2>4. Relocated(ch, old, to, ob, before) = moved
      BY <1>1 DEF moved
    <2> HIDE DEF w, old
    <2> QED BY <2>1, <2>2, <2>3, <2>4 DEF w, old, ListMoved
  <1>7. CASE to # old
    <2>1. before # ob
      BY <1>2, <1>7, NodeObject
    <2>2. pos = i
      BY <1>7
    <2>3. /\ moved[to] = entered /\ moved[old] = RemoveAt(ch[old], i)
          /\ \A n \in Node : n # to /\ n # old => moved[n] = ch[n]
      <3> HIDE DEF pos, j, i
      <3> QED BY <1>7, <2>2
    <2>4. Store!Put(ch[to], ob, before) = entered
      BY PutMeans
    <2> HIDE DEF moved, entered, pos, i, j
    <2>5. \A n \in Node :
            moved[n] = IF n = to THEN Store!Put(w(n), ob, before) ELSE w(n)
      BY Zenon, <1>3, <1>4, <1>7, <2>3, <2>4
    <2>6. Relocated(ch, old, to, ob, before) = moved
      BY <1>1 DEF moved
    <2> HIDE DEF w, old
    <2> QED BY <2>1, <2>5, <2>6 DEF w, old, ListMoved
  <1> QED BY <1>6, <1>7

LEMMA RelocateStore ==
  ASSUME RefcountInv, RefcountInv', RowsOK, NEW r \in Rev, NEW ob \in Object,
         NEW to \in Node, NEW before \in Node, xorn_relocate_object(r, ob, to, before)
  PROVE  Store!Relocate(r, ob, to, before)
  <1> DEFINE c == Contents(r)
  <1>1. /\ call = Idle /\ call' = Idle /\ r \in live /\ is_transient[r]
        /\ CanRelocate(r, ob, to, before)
        /\ children' = [children EXCEPT ![r] =
                          Relocated(@, parent[r][ob], to, ob, before)]
        /\ UNCHANGED <<live, is_transient, obstates, cell, handles>>
    BY DEF xorn_relocate_object, Callable, heapVars
  <1>2. /\ TypeOK /\ (obstates[r][ob] = None <=> parent[r][ob] = Absent)
        /\ children[r] \in [Node -> Seq(Object)]
        /\ parent[r][ob] \in Node \cup {Absent}
        /\ \A n \in Node : Lists(children[r][n], Below(parent[r], n))
    BY DEF RefcountInv, TypeOK, RowsOK, RowOK, Forest, RowTyped
  <1>3. /\ c.children = children[r] /\ \A o \in Object : c.value[o] = ValueOf(r, o)
        /\ c = [value |-> c.value, children |-> c.children]
    BY <1>2, ContentsAre DEF IsContents
  <1>4. /\ \A s \in Rev : s # r => children'[s] = children[s]
        /\ children'[r] = Relocated(children[r], parent[r][ob], to, ob, before)
    BY <1>1, <1>2 DEF TypeOK
  <1>5. /\ VisibleContents' = [VisibleContents EXCEPT ![r] = Contents(r)']
        /\ VisibleContents[r] = c
    BY <1>1, <1>4, OneChanges DEF MemoryKept
  <1>6. Contents(r)' = [value |-> c.value, children |-> children'[r]]
    BY <1>1 DEF Contents, ValueOf, Exists
  <1> HIDE DEF c
  <1>7. Contents(r)' = Store!Moved(c, ob, to, before)
    <2>1. parent[r][ob] \in Node /\ (before # NULL => before \in Below(parent[r], to))
      BY <1>1, <1>2 DEF CanRelocate, Exists, Lists
    <2>2. children'[r] =
            IF before = ob THEN c.children
            ELSE [n \in Node |->
                   IF n = to THEN Store!Put(Store!Without(c.children[n], {ob}), ob, before)
                   ELSE Store!Without(c.children[n], {ob})]
      <3> DEFINE moved == Relocated(children[r], parent[r][ob], to, ob, before)
      <3>1. /\ moved = [n \in Node |-> moved[n]]
            /\ \A n \in Node :
                 moved[n] =
                   IF before = ob THEN children[r][n]
                   ELSE IF n = to
                   THEN Store!Put(Store!Without(children[r][n], {ob}), ob, before)
                   ELSE Store!Without(children[r][n], {ob})
        <4>1. moved \in [Node -> Seq(Object)]
          BY <1>1, <1>2, RelocatedType DEF CanRelocate
        <4>2. \A n \in Node : moved[n] = ListMoved(children[r], ob, to, before, n)
          <5>1. Forest(obstates[r], parent[r], children[r]) /\ obstates[r][ob] # None
            BY <1>1 DEF RowsOK, RowOK, CanRelocate, Exists
          <5> QED BY <2>1, <5>1, RelocatedMeans
        <4> HIDE DEF moved
        <4> QED BY <4>1, <4>2 DEF ListMoved
      <3>2. children'[r] = moved /\ c.children = [n \in Node |-> children[r][n]]
        BY <1>2, <1>3, <1>4
      <3> HIDE DEF moved
      <3> QED BY <1>3, <3>1, <3>2
    <2>3. CASE before = ob
      BY <1>3, <1>6, <2>2, <2>3 DEF Store!Moved
    <2>4. CASE before # ob
      <3> DEFINE without == [n \in Node |-> Store!Without(c.children[n], {ob})]
      <3>1. children'[r] = [without EXCEPT ![to] = Store!Put(@, ob, before)]
        BY <2>2, <2>4
      <3>2. Store!Moved(c, ob, to, before) =
              [c EXCEPT !.children = [without EXCEPT ![to] = Store!Put(@, ob, before)]]
        BY <2>4, StoreNames DEF Store!Moved
      <3>3. [c EXCEPT !.children = children'[r]] = [value |-> c.value, children |-> children'[r]]
        <4>1. \A ch : [[value |-> c.value, children |-> c.children] EXCEPT !.children = ch]
                        = [value |-> c.value, children |-> ch]
          BY NewChildren
        <4>2. [value |-> c.value, children |-> c.children] = c
          BY <1>3
        <4> QED BY Zenon, <4>1, <4>2
      <3> HIDE DEF without
      <3> QED BY <1>6, <3>1, <3>2, <3>3
    <2> QED BY <2>3, <2>4
  <1>8. Store!Becomes(r, Store!Moved(VisibleContents[r], ob, to, before))
    BY <1>1, <1>5, <1>7 DEF Store!Becomes
  <1>9. Store!Exists(c, ob)
    BY <1>1, <1>3, ValueFacts DEF Store!Exists, CanRelocate
  <1>10. to # NULL => Store!Exists(c, to) /\ c.value[ob][1] = Text /\ c.value[to][1] \in Holders
    <2> SUFFICES ASSUME to # NULL
                 PROVE  Store!Exists(c, to) /\ c.value[ob][1] = Text /\ c.value[to][1] \in Holders
      OBVIOUS
    <2>1. to \in Object
      BY DEF Node, Object, NULL
    <2> QED BY <1>1, <1>3, <2>1, ValueFacts DEF Store!Exists, CanRelocate
  <1>11. before # NULL => before \in Store!AttachedTo(c, to)
    BY <1>1, <1>3, StoreSequences DEF CanRelocate, Store!AttachedTo
  <1> QED BY <1>1, <1>5, <1>8, <1>9, <1>10, <1>11, StoreNames DEF Store!Relocate

-----------------------------------------------------------------------------
(* manipulate.cc: deleting one object *)

LEMMA DeleteFromContents ==
  ASSUME RefcountInv, RefcountInv', RowsOK, NEW r \in Rev, NEW ob \in Object,
         parent[r][ob] # Absent, DeleteFrom(r, ob)
  PROVE  /\ Contents(r)' = Store!Deleted(Contents(r), {ob})
         /\ MemoryKept
         /\ \A s \in Rev : s # r => obstates'[s] = obstates[s] /\ children'[s] = children[s]
  <1> DEFINE doomed == Doomed(children[r], ob)
             above == parent[r][ob]
             c == Contents(r)
             ch2 == [[n \in Node |-> IF n \in doomed THEN <<>> ELSE children[r][n]]
                       EXCEPT ![above] = RemoveAt(@, Find(@, ob))]
  <1>1. /\ obstates' = [obstates EXCEPT ![r] =
                          [o \in Object |-> IF o \in doomed THEN None ELSE obstates[r][o]]]
        /\ children' = [children EXCEPT ![r] = ch2]
    BY DEF DeleteFrom, RefcountInv, TypeOK
  <1>2. /\ TypeOK /\ above \in Node
        /\ children[r] \in [Node -> Seq(Object)]
        /\ \A n \in Node : Lists(children[r][n], Below(parent[r], n))
        /\ \A x \in Object : parent[r][x] \in Object => parent[r][parent[r][x]] = NULL
    <2>1. TypeOK /\ Forest(obstates[r], parent[r], children[r]) /\ Shallow(r)
      BY DEF RefcountInv, RowsOK, RowOK
    <2>2. above \in Node
      BY <2>1 DEF Forest, RowTyped
    <2> QED BY <2>1, <2>2 DEF Forest, RowTyped, Shallow
  <1>3. doomed = {ob} \cup Below(parent[r], ob)
    BY <1>2, NodeObject DEF Doomed, Lists
  <1>4. above \notin doomed
    <2>1. above # ob
      <3> SUFFICES ASSUME parent[r][ob] = ob PROVE FALSE
        OBVIOUS
      <3>1. parent[r][parent[r][ob]] = NULL
        BY <1>2
      <3> QED BY <3>1, NodeObject
    <2>2. above \notin Below(parent[r], ob)
      <3> SUFFICES ASSUME above \in Object, parent[r][above] = ob PROVE FALSE
        BY DEF Below
      <3>1. parent[r][parent[r][above]] = NULL
        BY <1>2
      <3> QED BY <3>1, NodeObject
    <2> QED BY <1>3, <2>1, <2>2
  <1>5. /\ c.children = children[r] /\ \A o \in Object : c.value[o] = ValueOf(r, o)
        /\ c = [value |-> c.value, children |-> c.children]
    BY <1>2, ContentsAre DEF IsContents
  <1>6. MemoryKept
    BY <1>2, DeleteFromMemory
  <1>7. /\ \A s \in Rev : s # r => obstates'[s] = obstates[s] /\ children'[s] = children[s]
        /\ children'[r] = ch2
        /\ \A o \in Object : obstates'[r][o] = IF o \in doomed THEN None ELSE obstates[r][o]
    <2> HIDE DEF ch2, doomed
    <2> QED BY <1>1, <1>2 DEF TypeOK
  <1>8. /\ ch2 = [n \in Node |-> ch2[n]]
        /\ \A n \in Node : ch2[n] = IF n \in doomed THEN <<>>
                                    ELSE IF n = above
                                    THEN RemoveAt(children[r][n], Find(children[r][n], ob))
                                    ELSE children[r][n]
    <2> HIDE DEF doomed
    <2> QED BY <1>2, <1>4
  <1>9. Gone(c, {ob}) = doomed
    BY <1>5 DEF Gone, Doomed
  <1> HIDE DEF doomed, above, c, ch2
  <1>10. ASSUME NEW n \in Node, n \notin doomed
         PROVE  ch2[n] = Store!Without(children[r][n], doomed)
    <2>1. Lists(children[r][n], Below(parent[r], n)) /\ children[r][n] \in Seq(Object)
      BY <1>2
    <2>2. \A i \in 1..Len(children[r][n]) : children[r][n][i] \in Below(parent[r], n)
      BY <2>1, ListFacts
    <2>3. n # ob
      BY <1>3, <1>10
    <2>4. \A x \in Below(parent[r], n) : x \notin Below(parent[r], ob)
      BY <2>3 DEF Below
    <2>5. CASE n = above
      <3>1. ob \in Below(parent[r], n)
        BY <2>5 DEF Below, above
      <3>2. \A i \in 1..Len(children[r][n]) :
              children[r][n][i] \in doomed <=> children[r][n][i] \in {ob}
        BY <1>3, <2>2, <2>4
      <3>3. Store!Without(children[r][n], doomed) = Store!Without(children[r][n], {ob})
        BY <2>1, <3>2, WithoutSame
      <3>4. Store!Without(children[r][n], {ob}) =
              RemoveAt(children[r][n], Find(children[r][n], ob))
        BY <2>1, <3>1, WithoutOne
      <3> QED BY <1>8, <1>10, <2>5, <3>3, <3>4
    <2>6. CASE n # above
      <3>1. ob \notin Below(parent[r], n)
        BY <2>6 DEF Below, above
      <3>2. \A i \in 1..Len(children[r][n]) : children[r][n][i] \notin doomed
        BY <1>3, <2>2, <2>4, <3>1
      <3>3. Store!Without(children[r][n], doomed) = children[r][n]
        BY <2>1, <3>2, WithoutNone
      <3> QED BY <1>8, <1>10, <2>6, <3>3
    <2> QED BY <2>5, <2>6
  <1>11. \A o \in Object : ValueOf(r, o)' = IF o \in doomed THEN None ELSE c.value[o]
    <2>1. ASSUME NEW o \in doomed, o \in Object PROVE ValueOf(r, o)' = None
      BY <1>7, <2>1 DEF ValueOf, Exists
    <2>2. ASSUME NEW o \in Object, o \notin doomed PROVE ValueOf(r, o)' = ValueOf(r, o)
      BY <1>6, <1>7, <2>2, ValueKept
    <2> QED BY <1>5, <2>1, <2>2
  <1>12. Store!Deleted(c, {ob}) =
           [value |-> [o \in Object |-> IF o \in doomed THEN None ELSE c.value[o]],
            children |-> [n \in Node |-> IF n \in doomed THEN <<>>
                                         ELSE Store!Without(c.children[n], doomed)]]
    BY <1>9, DeletedMeans
  <1>13. ch2 = [n \in Node |-> IF n \in doomed THEN <<>>
                               ELSE Store!Without(c.children[n], doomed)]
    BY <1>5, <1>8, <1>10
  <1>14. [o \in Object |-> ValueOf(r, o)]' =
           [o \in Object |-> IF o \in doomed THEN None ELSE c.value[o]]
    BY <1>11
  <1>15. Contents(r)' = [value |-> [o \in Object |-> ValueOf(r, o)]', children |-> children'[r]]
    BY DEF Contents
  <1>16. Contents(r)' = Store!Deleted(c, {ob})
    BY <1>7, <1>12, <1>13, <1>14, <1>15
  <1> QED BY <1>6, <1>7, <1>16 DEF c

LEMMA DeleteObjectStore ==
  ASSUME RefcountInv, RefcountInv', RowsOK, NEW r \in Rev, NEW ob \in Object,
         xorn_delete_object(r, ob)
  PROVE  Store!Delete(r, {ob})
  <1>1. /\ call = Idle /\ call' = Idle /\ r \in live /\ is_transient[r]
        /\ parent[r][ob] # Absent /\ DeleteFrom(r, ob)
        /\ UNCHANGED <<live, is_transient, handles>>
    BY DEF xorn_delete_object, Callable
  <1>2. /\ Contents(r)' = Store!Deleted(Contents(r), {ob}) /\ MemoryKept
        /\ \A s \in Rev : s # r => obstates'[s] = obstates[s] /\ children'[s] = children[s]
    BY <1>1, DeleteFromContents
  <1>3. /\ VisibleContents' = [VisibleContents EXCEPT ![r] = Contents(r)']
        /\ VisibleContents[r] = Contents(r)
    BY <1>1, <1>2, OneChanges
  <1> QED BY <1>1, <1>2, <1>3 DEF Store!Delete, Store!Becomes

-----------------------------------------------------------------------------
(* attributes.cc: set_attr *)

LEMMA SetAttrStore ==
  ASSUME RefcountInv, RefcountInv', NEW r \in Rev, NEW sel \in SUBSET Object,
         NEW f \in Setters, set_attr(r, sel, f)
  PROVE  Store!SetAttr(r, sel, f)
  <1> DEFINE affected == Affected(r, sel, f)
             value(ob) == obstate(<<TypeOf(r, ob), f[ValueOf(r, ob)]>>)
             c == Contents(r)
             fits(ob) == /\ ob \in sel /\ Store!Exists(c, ob) /\ c.value[ob] \in DOMAIN f
                         /\ <<c.value[ob][1], f[c.value[ob]]>> \in ValidData
             v2 == [ob \in Object |->
                     IF fits(ob) THEN Store!Stored(<<c.value[ob][1], f[c.value[ob]]>>)
                     ELSE c.value[ob]]
  <1>1. PICK new \in [affected -> Addr] :
       /\ \A o1, o2 \in affected : new[o1] = new[o2] => o1 = o2
       /\ obstates' = [obstates EXCEPT ![r] =
            [ob \in Object |-> IF ob \in affected THEN new[ob] ELSE @[ob]]]
       /\ \A p \in Addr : (\E ob \in affected : p = new[ob]) => refcnt'[p] = 1
       /\ cell' = Reclaim(refcnt', [p \in Addr |->
            IF \E ob \in affected : p = new[ob]
            THEN LET ob == CHOOSE o \in affected : p = new[o] IN value(ob)
            ELSE cell[p]])
    BY DEF set_attr
  <1>2. /\ call = Idle /\ call' = Idle /\ r \in live /\ is_transient[r]
        /\ UNCHANGED <<live, is_transient, children, handles>>
    BY DEF set_attr, Callable
  <1>3. TypeOK /\ None \notin Addr
    BY StorageAssumption DEF RefcountInv
  <1>4. MemoryKept /\ \A s \in Rev : s # r => obstates'[s] = obstates[s]
    BY <1>3, SetAttrMemory
  <1>5. /\ c.children = children[r] /\ \A o \in Object : c.value[o] = ValueOf(r, o)
        /\ c = [value |-> c.value, children |-> c.children]
    BY <1>3, ContentsAre DEF IsContents
  <1>6. \A ob \in Object : fits(ob) <=> ob \in affected
    <2> TAKE ob \in Object
    <2>1. /\ c.value[ob] = ValueOf(r, ob) /\ (Exists(r, ob) <=> Store!Exists(c, ob))
          /\ Exists(r, ob) => TypeOf(r, ob) = c.value[ob][1]
      BY <1>5, ValueFacts DEF Store!Exists
    <2> QED BY <2>1 DEF Affected
  <1>7. \A ob \in affected : ob \in Object /\ value(ob) =
          Store!Stored(<<c.value[ob][1], f[c.value[ob]]>>)
    <2> TAKE ob \in affected
    <2>1. ob \in Object /\ Exists(r, ob)
      BY DEF Affected
    <2>2. TypeOf(r, ob) = c.value[ob][1] /\ ValueOf(r, ob) = c.value[ob]
      BY <1>5, <2>1, ValueFacts
    <2> QED BY <2>1, <2>2 DEF Store!Stored, obstate
  <1> HIDE DEF affected, value, c, fits
  <1>8. \A ob \in Object : obstates'[r][ob] = IF ob \in affected THEN new[ob] ELSE obstates[r][ob]
    BY <1>1, <1>3 DEF TypeOK
  <1>9. ASSUME NEW ob \in affected PROVE ValueOf(r, ob)' = value(ob)
    <2>1. obstates'[r][ob] = new[ob] /\ new[ob] \in Addr
      BY <1>1, <1>7, <1>8
    <2>2. (CHOOSE o \in affected : new[ob] = new[o]) = ob
      BY <1>1
    <2>3. refcnt'[new[ob]] = 1
      BY <1>1, <2>1
    <2> DEFINE m == [p \in Addr |->
                      IF \E o \in affected : p = new[o]
                      THEN LET o == CHOOSE o \in affected : p = new[o] IN value(o)
                      ELSE cell[p]]
    <2>4. m[new[ob]] = value(ob)
      BY <2>1, <2>2
    <2>5. cell' = Reclaim(refcnt', m)
      BY <1>1
    <2> HIDE DEF m
    <2>6. cell'[new[ob]] = value(ob)
      BY <2>1, <2>3, <2>4, <2>5 DEF Reclaim
    <2> QED BY <1>3, <2>1, <2>6 DEF ValueOf, Exists
  <1>10. \A ob \in Object : ob \notin affected => ValueOf(r, ob)' = ValueOf(r, ob)
    BY <1>4, <1>8, ValueKept
  <1>11. [ob \in Object |-> ValueOf(r, ob)]' = v2
    BY <1>5, <1>6, <1>7, <1>9, <1>10
  <1> HIDE DEF v2
  <1>12. Contents(r)' = [value |-> v2, children |-> c.children]
    BY <1>2, <1>5, <1>11 DEF Contents
  <1>13. /\ VisibleContents' = [VisibleContents EXCEPT ![r] = Contents(r)']
         /\ VisibleContents[r] = c
    BY <1>2, <1>4, OneChanges DEF c
  <1>14. Store!Becomes(r, [c EXCEPT !.value = v2])
    <2>1. [c EXCEPT !.value = v2] = [value |-> v2, children |-> c.children]
      BY <1>5
    <2> QED BY <1>2, <1>12, <1>13, <2>1 DEF Store!Becomes
  <1>15. v2 = [ob \in Object |-> IF fits(ob)
                                 THEN Store!Stored(<<c.value[ob][1], f[c.value[ob]]>>)
                                 ELSE c.value[ob]]
    BY DEF v2
  <1> QED BY <1>2, <1>13, <1>14, <1>15, StoreNames DEF Store!SetAttr, fits

LEMMA SetAttrFailsStore ==
  ASSUME RefcountInv, RefcountInv', NEW r \in Rev, NEW done \in SUBSET Object,
         SetAttrFails(r, done)
  PROVE  UNCHANGED Store!vars
  <1>1. obstates' = obstates /\ cell' = cell
    BY SetAttrFailsExact
  <1>2. UNCHANGED <<live, is_transient, children, handles, call, entry>>
    BY DEF SetAttrFails, revVars
  <1>3. VisibleContents' = VisibleContents
    BY <1>1, <1>2, NothingChanges DEF MemoryKept
  <1> QED BY <1>2, <1>3 DEF Store!vars

-----------------------------------------------------------------------------
(* What the loops over objects have done so far                             *)

\* No object is listed twice.
Ordered(c) ==
  /\ Sound(c)
  /\ \A n \in Node : \A i, j \in 1..Len(c.children[n]) :
       c.children[n][i] = c.children[n][j] => i = j
  /\ \A n, m \in Node : n # m => ToSet(c.children[n]) \cap ToSet(c.children[m]) = {}

\* When objects are copied to a revision which held e and now holds d: how many
\* of them there are, without those attached to another one, and the i-th of them.
Made(e, d) == Len(d.children[NULL]) - Len(e.children[NULL])
Top(e, d, i) == d.children[NULL][Len(e.children[NULL]) + i]
TopList(e, d, i) == d.children[Top(e, d, i)]

\* How many copies are still to be attached to the last of them?
Left(order, src, e, d) ==
  IF Made(e, d) = 0 THEN 0
  ELSE Len(src.children[order[Made(e, d)]]) - Len(TopList(e, d, Made(e, d)))

\* The objects which are copied, in this order.
Plan(order, src, known) ==
  /\ order \in Seq(Object)
  /\ \A i, j \in 1..Len(order) : order[i] = order[j] => i = j
  /\ \A i \in 1..Len(order) : order[i] \in known /\ src.value[order[i]] # None

\* The first objects have been copied, and so have the objects attached to them;
\* of those attached to the last one, the first.
CopiesMade(order, src, e, d) ==
  /\ Made(e, d) \in 0..Len(order)
  /\ \A i \in 1..Len(e.children[NULL]) : d.children[NULL][i] = e.children[NULL][i]
  /\ \A i \in 1..Made(e, d) :
       /\ d.value[Top(e, d, i)] = src.value[order[i]]
       /\ Len(TopList(e, d, i)) <= Len(src.children[order[i]])
       /\ i < Made(e, d) => Len(TopList(e, d, i)) = Len(src.children[order[i]])
       /\ \A j \in 1..Len(TopList(e, d, i)) :
            d.value[TopList(e, d, i)[j]] = src.value[src.children[order[i]][j]]

\* All copies are listed, and they are what is new in the revision.
CopiesListed(e, d, list, known) ==
  /\ \A n \in Object :
       n \in ToSet(list) <=> \E i \in 1..Made(e, d) :
                               n = Top(e, d, i) \/ n \in ToSet(TopList(e, d, i))
  /\ \A n \in ToSet(list) : n \in Object /\ n \notin known /\ e.value[n] = None
  /\ \A n \in Object : n \notin ToSet(list) =>
       d.value[n] = e.value[n] /\ d.children[n] = e.children[n]

\* What is left to be done: the other objects attached to the last one, and the
\* other objects.
WorkLeft(order, src, e, d, work) ==
  LET m == Made(e, d)
      k == Left(order, src, e, d)
  IN /\ Len(work) = k + (Len(order) - m)
     /\ \A i \in 1..k : work[i] = <<src.children[order[m]][Len(TopList(e, d, m)) + i],
                                    Top(e, d, m)>>
     /\ \A i \in 1..(Len(order) - m) : work[k + i] = <<order[m + i], NULL>>

Copying(order, src, e, d, list, work, known) ==
  /\ Plan(order, src, known)
  /\ CopiesMade(order, src, e, d)
  /\ CopiesListed(e, d, list, known)
  /\ WorkLeft(order, src, e, d, work)

\* Deleting the objects which are left comes to the same as deleting some from
\* what the revision held on entry: none if a failed copy is being undone.
Deleting(e, d, list, known) ==
  \E S \in SUBSET known : Store!Deleted(d, ToSet(list)) = Store!Deleted(e, S)

LoopInv ==
  /\ call.pc # "idle" => Ordered(entry)
  /\ call.pc = "deleting" =>
       Deleting(entry, Contents(call.dst), call.list, handles)
  /\ call.pc = "copying" => \E order \in Seq(Object) :
       Copying(order, VisibleContents[call.src], entry, Contents(call.dst),
               call.list, call.work, handles)

-----------------------------------------------------------------------------
(* Loops over objects, on what a revision holds                             *)

LEMMA ContentsOrdered ==
  ASSUME RefcountInv, NEW r \in Rev, RowOK(r)
  PROVE  Ordered(Contents(r))
  <1>1. Sound(Contents(r)) /\ Contents(r).children = children[r]
    BY ContentsSound, ContentsAre DEF RefcountInv
  <1>2. \A n \in Node : Lists(children[r][n], Below(parent[r], n))
    BY DEF RowOK, Forest
  <1>3. \A n \in Node : \A i, j \in 1..Len(children[r][n]) :
          children[r][n][i] = children[r][n][j] => i = j
    BY <1>2, ListFacts
  <1>4. \A n, m \in Node : n # m => ToSet(children[r][n]) \cap ToSet(children[r][m]) = {}
    BY <1>2 DEF Lists, Below
  <1> QED BY <1>1, <1>3, <1>4 DEF Ordered

LEMMA HeadAndTail ==
  ASSUME NEW S, NEW s \in Seq(S), s # <<>>
  PROVE  /\ Head(s) \in S /\ Tail(s) \in Seq(S) /\ Len(s) \in Nat /\ Len(s) # 0
         /\ Head(s) = s[1] /\ Len(Tail(s)) = Len(s) - 1
         /\ \A i \in 1..(Len(s) - 1) : Tail(s)[i] = s[i + 1]
  <1>1. Len(s) \in Nat /\ Len(s) # 0
    BY EmptySeq, LenProperties
  <1> QED BY <1>1, HeadTailProperties

LEMMA HeadOrTail ==
  ASSUME NEW s \in Seq(Object), s # <<>>
  PROVE  ToSet(s) = {Head(s)} \cup ToSet(Tail(s))
  <1>1. /\ Head(s) \in Object /\ Tail(s) \in Seq(Object) /\ Len(s) \in Nat /\ Len(s) # 0
        /\ Head(s) = s[1] /\ Len(Tail(s)) = Len(s) - 1
        /\ \A i \in 1..(Len(s) - 1) : Tail(s)[i] = s[i + 1]
    BY HeadAndTail
  <1>2. \A x : x \in ToSet(s) <=> \E i \in 1..Len(s) : s[i] = x
    BY ToSetMeans
  <1>3. \A x : x \in ToSet(Tail(s)) <=> \E i \in 1..(Len(s) - 1) : Tail(s)[i] = x
    <2>1. \A t \in Seq(Object) : \A x : x \in ToSet(t) <=> \E i \in 1..Len(t) : t[i] = x
      BY ToSetMeans
    <2>2. Tail(s) \in Seq(Object) /\ Len(Tail(s)) = Len(s) - 1
      BY <1>1
    <2> QED BY Zenon, <2>1, <2>2
  <1>4. ASSUME NEW i \in 1..Len(s) PROVE s[i] \in {Head(s)} \cup ToSet(Tail(s))
    <2>1. CASE i = 1
      BY <1>1, <2>1
    <2>2. CASE i # 1
      <3>1. i - 1 \in 1..(Len(s) - 1) /\ (i - 1) + 1 = i
        BY <1>1, <2>2
      <3>2. Tail(s)[i - 1] = s[i]
        BY <1>1, <3>1
      <3> QED BY <1>3, <3>1, <3>2
    <2> QED BY <2>1, <2>2
  <1>5. Head(s) \in ToSet(s)
    <2>1. 1 \in 1..Len(s)
      BY <1>1
    <2> QED BY <1>1, <1>2, <2>1
  <1>6. ASSUME NEW i \in 1..(Len(s) - 1) PROVE Tail(s)[i] \in ToSet(s)
    <2>1. i + 1 \in 1..Len(s) /\ Tail(s)[i] = s[i + 1]
      BY <1>1
    <2> QED BY <1>2, <2>1
  <1> QED BY <1>2, <1>3, <1>4, <1>5, <1>6

LEMMA DeletingStep ==
  ASSUME NEW e, NEW d, Sound(d), NEW list \in Seq(Object), list # <<>>, NEW known,
         Deleting(e, d, list, known)
  PROVE  Deleting(e, Store!Deleted(d, {Head(list)}), Tail(list), known)
  <1>1. Head(list) \in Object /\ Tail(list) \in Seq(Object)
    BY HeadAndTail
  <1>2. ToSet(list) = {Head(list)} \cup ToSet(Tail(list))
    BY HeadOrTail
  <1>3. ToSet(Tail(list)) \in SUBSET Object
    BY <1>1, ToSetMeans
  <1>4. Store!Deleted(Store!Deleted(d, {Head(list)}), ToSet(Tail(list)))
          = Store!Deleted(d, ToSet(list))
    BY <1>1, <1>2, <1>3, DeletedTwice
  <1> QED BY <1>4 DEF Deleting

LEMMA CopiesUndone ==
  ASSUME NEW order, NEW src, NEW e, Sound(e), NEW d, Ordered(d),
         NEW list \in Seq(Object), NEW known,
         CopiesMade(order, src, e, d), CopiesListed(e, d, list, known)
  PROVE  Store!Deleted(d, ToSet(list)) = e
  <1> DEFINE gone == ToSet(list)
             old == e.children[NULL]
             tops == d.children[NULL]
             m == Made(e, d)
  <1>1. /\ e.children \in [Node -> Seq(Object)] /\ d.children \in [Node -> Seq(Object)]
        /\ e = [value |-> e.value, children |-> e.children]
        /\ e.value = [ob \in Object |-> e.value[ob]] /\ NULL \in Node
        /\ e.children = [n \in Node |-> e.children[n]]
    BY NodeObject DEF Ordered, Sound, IsContents
  <1>2. /\ \A n \in Object :
             n \in gone <=> \E i \in 1..m : n = Top(e, d, i) \/ n \in ToSet(TopList(e, d, i))
        /\ \A n \in gone : n \in Object /\ e.value[n] = None
        /\ \A n \in Object : n \notin gone =>
             d.value[n] = e.value[n] /\ d.children[n] = e.children[n]
    BY DEF CopiesListed
  <1> HIDE DEF gone
  <1>3. \A n \in Node, ob \in Object : ob \in ToSet(e.children[n]) => ob \notin gone
    BY <1>2 DEF Sound
  <1>4. ASSUME NEW n \in Object, n \in gone PROVE ToSet(d.children[n]) \subseteq gone
    <2>1. PICK i \in 1..m : n = Top(e, d, i) \/ n \in ToSet(TopList(e, d, i))
      BY <1>2, <1>4
    <2>2. CASE n = Top(e, d, i)
      <3>1. d.children[n] = TopList(e, d, i) /\ n \in Node
        BY <2>2, NodeObject DEF TopList
      <3>2. \A x \in ToSet(d.children[n]) : x \in Object
        BY <1>1, <3>1, ToSetMeans
      <3> QED BY <1>2, <3>1, <3>2
    <2>3. CASE n \in ToSet(TopList(e, d, i)) /\ Top(e, d, i) \in Object
      <3>1. d.children[n] = <<>>
        BY <2>3 DEF Ordered, Sound, TopList
      <3> QED BY <3>1, EmptySet
    <2>4. Top(e, d, i) \in Object
      <3>1. Len(old) \in Nat /\ Len(tops) \in Nat
        BY <1>1, LenProperties
      <3>2. Len(old) + i \in 1..Len(tops)
        BY <3>1 DEF Made
      <3> QED BY <1>1, <3>2, ElementOfSeq DEF Top
    <2> QED BY <2>1, <2>2, <2>3, <2>4
  <1>5. Gone(d, gone) = gone
    <2>1. \A ob \in gone : ob \in Object /\ ToSet(d.children[ob]) \subseteq gone
      BY <1>2, <1>4
    <2> QED BY <2>1 DEF Gone
  <1>6. Store!Without(tops, gone) = old
    <2> DEFINE at == [i \in 1..Len(old) |-> i]
    <2>1. /\ old \in Seq(Object) /\ tops \in Seq(Object)
          /\ Len(old) \in Nat /\ Len(tops) \in Nat
      BY <1>1, LenProperties
    <2>2. /\ m = Len(tops) - Len(old) /\ m >= 0
          /\ \A i \in 1..Len(old) : tops[i] = old[i]
      BY DEF CopiesMade, Made
    <2>3. \A i \in 1..Len(old) : i \in 1..Len(tops) /\ i \in Int
      BY <2>1, <2>2
    <2>4. \A i \in 1..Len(old) : old[i] \notin gone
      BY <1>1, <1>3, <2>1, ToSetMeans
    <2>5. ASSUME NEW i \in 1..Len(tops), tops[i] \notin gone PROVE i \in 1..Len(old)
      <3> SUFFICES ASSUME i > Len(old) PROVE FALSE
        BY <2>1
      <3>1. i - Len(old) \in 1..m /\ Len(old) + (i - Len(old)) = i
        BY <2>1, <2>2
      <3>2. Top(e, d, i - Len(old)) = tops[i]
        BY <3>1 DEF Top
      <3>3. tops[i] \in Object
        BY <2>1, ElementOfSeq
      <3> QED BY <1>2, <2>5, <3>1, <3>2, <3>3
    <2> HIDE DEF old, tops, m
    <2>6. Keeps(tops, gone, old, at)
      BY <2>2, <2>3, <2>4, <2>5 DEF Keeps
    <2> QED BY <2>1, <2>6, KeepsWithout
  <1>7. ASSUME NEW n \in Node
        PROVE  e.children[n] = IF n \in gone THEN <<>> ELSE Store!Without(d.children[n], gone)
    <2>1. CASE n \in gone
      BY <1>2, <2>1 DEF Sound
    <2>2. CASE n = NULL
      <3>1. n \notin gone
        BY <1>2, <2>2, NodeObject
      <3> QED BY <1>6, <2>2, <3>1
    <2>3. CASE n \in Object /\ n \notin gone
      <3>1. d.children[n] = e.children[n] /\ e.children[n] \in Seq(Object)
        BY <1>1, <1>2, <2>3
      <3>2. \A i \in 1..Len(e.children[n]) : e.children[n][i] \notin gone
        BY <1>3, <3>1, ToSetMeans
      <3>3. Store!Without(e.children[n], gone) = e.children[n]
        BY <3>1, <3>2, WithoutNone
      <3> QED BY <2>3, <3>1, <3>3
    <2>4. n = NULL \/ n \in Object
      BY DEF Node, Object, NULL
    <2> QED BY <2>1, <2>2, <2>3, <2>4
  <1>8. e.children = [n \in Node |-> IF n \in gone THEN <<>>
                                     ELSE Store!Without(d.children[n], gone)]
    BY <1>1, <1>7
  <1>9. e.value = [ob \in Object |-> IF ob \in gone THEN None ELSE d.value[ob]]
    BY <1>1, <1>2
  <1>10. Store!Deleted(d, gone) = [value |-> e.value, children |-> e.children]
    BY <1>5, <1>8, <1>9, DeletedMeans
  <1> QED BY <1>1, <1>10 DEF gone

\* A failed copy is undone: nothing is deleted from what there was on entry.
LEMMA UndoDeletes ==
  ASSUME NEW order, NEW src, NEW e, Sound(e), NEW d, Ordered(d),
         NEW list \in Seq(Object), NEW work, NEW known,
         Copying(order, src, e, d, list, work, known)
  PROVE  Deleting(e, d, list, known)
  <1>1. Store!Deleted(d, ToSet(list)) = e
    BY CopiesUndone DEF Copying
  <1>2. Store!Deleted(e, {}) = e
    BY DeletedNone DEF Sound
  <1> QED BY <1>1, <1>2 DEF Deleting

LEMMA CopyingStarts ==
  ASSUME NEW order, NEW src, NEW e, Sound(e), NEW work, NEW known,
         Plan(order, src, known),
         work \in Seq(Object \X Node), Len(work) = Len(order),
         \A i \in 1..Len(order) : work[i] = <<order[i], NULL>>
  PROVE  Copying(order, src, e, e, <<>>, work, known)
  <1>1. Len(order) \in Nat /\ Len(e.children[NULL]) \in Nat
    BY NodeObject, LenProperties DEF Plan, Sound, IsContents
  <1>2. Made(e, e) = 0 /\ Left(order, src, e, e) = 0
    BY <1>1 DEF Made, Left
  <1>3. CopiesMade(order, src, e, e)
    BY <1>1, <1>2 DEF CopiesMade
  <1>4. CopiesListed(e, e, <<>>, known)
    BY <1>2, EmptySet DEF CopiesListed
  <1>5. WorkLeft(order, src, e, e, work)
    <2>1. Len(work) = 0 + (Len(order) - 0)
      BY <1>1
    <2>2. \A i \in 1..(Len(order) - 0) : work[0 + i] = <<order[0 + i], NULL>>
      BY <1>1
    <2>3. \A i \in 1..0 : FALSE
      OBVIOUS
    <2> QED BY <1>2, <2>1, <2>2, <2>3 DEF WorkLeft
  <1> QED BY <1>3, <1>4, <1>5 DEF Copying

\* What a revision which held d holds when a copy has been entered below a node.
Grown(d, to, copy, v) ==
  [value |-> [d.value EXCEPT ![copy] = v],
   children |-> [d.children EXCEPT ![to] = Append(@, copy)]]

LEMMA GrownMeans ==
  ASSUME NEW d, IsContents(d), NEW to \in Node, NEW copy \in Object, NEW v
  PROVE  LET d2 == Grown(d, to, copy, v) IN
           /\ \A n \in Object : d2.value[n] = IF n = copy THEN v ELSE d.value[n]
           /\ \A n \in Node : n # to => d2.children[n] = d.children[n]
           /\ d2.children[to] = Append(d.children[to], copy)
  <1>1. /\ d.value = [ob \in Object |-> d.value[ob]] /\ d.children \in [Node -> Seq(Object)]
    BY DEF IsContents
  <1> QED BY <1>1 DEF Grown

LEMMA AppendMeans ==
  ASSUME NEW s \in Seq(Object), NEW x \in Object
  PROVE  /\ Append(s, x) \in Seq(Object) /\ Len(Append(s, x)) = Len(s) + 1 /\ Len(s) \in Nat
         /\ \A i \in 1..Len(s) : Append(s, x)[i] = s[i]
         /\ Append(s, x)[Len(s) + 1] = x
         /\ ToSet(Append(s, x)) = ToSet(s) \cup {x}
  BY AppendProperties, AppendSet, LenProperties

\* The numbers in the description of what has been copied.
LEMMA CopyingNumbers ==
  ASSUME NEW order, NEW src, Ordered(src), NEW e, Sound(e), NEW d, Ordered(d),
         NEW list, NEW work, NEW known, Copying(order, src, e, d, list, work, known)
  PROVE  /\ Len(order) \in Nat /\ Made(e, d) \in Nat /\ Left(order, src, e, d) \in Nat
         /\ Made(e, d) <= Len(order)
         /\ Len(e.children[NULL]) \in Nat
         /\ Len(d.children[NULL]) = Len(e.children[NULL]) + Made(e, d)
         /\ Left(order, src, e, d) # 0 => Made(e, d) # 0
         /\ \A i \in 1..Len(order) :
              /\ order[i] \in Object /\ src.children[order[i]] \in Seq(Object)
              /\ Len(src.children[order[i]]) \in Nat
         /\ \A i \in 1..Made(e, d) :
              /\ i \in Nat /\ i \in 1..Len(order)
              /\ Top(e, d, i) \in Object /\ Top(e, d, i) \in ToSet(d.children[NULL])
              /\ TopList(e, d, i) \in Seq(Object) /\ Len(TopList(e, d, i)) \in Nat
              /\ Top(e, d, i) \in ToSet(list)
              /\ \A n \in ToSet(TopList(e, d, i)) : n \in ToSet(list)
         /\ \A i, j \in 1..Made(e, d) : Top(e, d, i) = Top(e, d, j) => i = j
  <1> DEFINE old == e.children[NULL]
             tops == d.children[NULL]
             m == Made(e, d)
  <1>1. /\ e.children \in [Node -> Seq(Object)] /\ d.children \in [Node -> Seq(Object)]
        /\ src.children \in [Node -> Seq(Object)] /\ NULL \in Node /\ Object \subseteq Node
    BY NodeObject DEF Ordered, Sound, IsContents
  <1>2. /\ order \in Seq(Object) /\ m \in 0..Len(order)
        /\ \A i \in 1..m : Len(TopList(e, d, i)) <= Len(src.children[order[i]])
        /\ \A n \in Object :
             n \in ToSet(list) <=> \E i \in 1..m : n = Top(e, d, i) \/ n \in ToSet(TopList(e, d, i))
    BY DEF Copying, Plan, CopiesMade, CopiesListed
  <1>3. Len(order) \in Nat /\ Len(old) \in Nat /\ Len(tops) \in Nat
    BY <1>1, <1>2, LenProperties
  <1>4. m \in Nat /\ m <= Len(order) /\ Len(tops) = Len(old) + m
    BY <1>2, <1>3 DEF Made
  <1>5. ASSUME NEW i \in 1..Len(order)
        PROVE  /\ order[i] \in Object /\ src.children[order[i]] \in Seq(Object)
               /\ Len(src.children[order[i]]) \in Nat
    <2>1. order[i] \in Object
      BY <1>2, ElementOfSeq
    <2> QED BY <1>1, <2>1, LenProperties
  <1>6. ASSUME NEW i \in 1..m
        PROVE  /\ i \in Nat /\ i \in 1..Len(order) /\ Len(old) + i \in 1..Len(tops)
               /\ Top(e, d, i) \in Object /\ Top(e, d, i) \in ToSet(tops)
               /\ TopList(e, d, i) \in Seq(Object) /\ Len(TopList(e, d, i)) \in Nat
               /\ Top(e, d, i) \in ToSet(list)
               /\ \A n \in ToSet(TopList(e, d, i)) : n \in ToSet(list)
    <2>1. i \in Nat /\ i \in 1..Len(order) /\ Len(old) + i \in 1..Len(tops)
      BY <1>3, <1>4
    <2>2. Top(e, d, i) \in Object /\ Top(e, d, i) \in ToSet(tops)
      BY <1>1, <2>1, ToSetMeans DEF Top
    <2>3. TopList(e, d, i) \in Seq(Object) /\ Len(TopList(e, d, i)) \in Nat
      BY <1>1, <2>2, LenProperties DEF TopList
    <2>4. \A n \in ToSet(TopList(e, d, i)) : n \in Object
      BY <2>3, ToSetMeans
    <2> QED BY <1>2, <2>1, <2>2, <2>3, <2>4
  <1>7. ASSUME NEW i \in 1..m, NEW j \in 1..m, Top(e, d, i) = Top(e, d, j) PROVE i = j
    <2>1. /\ Len(old) + i \in 1..Len(tops) /\ Len(old) + j \in 1..Len(tops)
          /\ i \in Nat /\ j \in Nat
      BY <1>6
    <2>2. Len(old) + i = Len(old) + j
      BY <1>1, <1>7, <2>1 DEF Top, Ordered
    <2> QED BY <1>3, <2>1, <2>2
  <1>8. Left(order, src, e, d) \in Nat /\ (Left(order, src, e, d) # 0 => m # 0)
    <2>1. CASE m = 0
      BY <2>1 DEF Left
    <2>2. CASE m # 0
      <3>1. m \in 1..m
        BY <1>4, <2>2
      <3>2. /\ Len(TopList(e, d, m)) \in Nat /\ Len(src.children[order[m]]) \in Nat
            /\ Len(TopList(e, d, m)) <= Len(src.children[order[m]])
        BY <1>2, <1>5, <1>6, <3>1
      <3> QED BY <2>2, <3>2 DEF Left
    <2> QED BY <2>1, <2>2
  <1> QED BY <1>3, <1>4, <1>5, <1>6, <1>7, <1>8

\* An object which is attached to the last copied one is copied.
LEMMA CopyingAttached ==
  ASSUME NEW order, NEW src, Ordered(src), NEW e, Sound(e), NEW d, Ordered(d),
         NEW list \in Seq(Object), NEW work \in Seq(Object \X Node), NEW known,
         Copying(order, src, e, d, list, work, known), work # <<>>,
         NEW ob \in Object, NEW to \in Object, Head(work) = <<ob, to>>,
         NEW copy \in Object, copy \notin ToSet(list), copy \notin known,
         d.value[copy] = None
  PROVE  /\ src.children[ob] = <<>>
         /\ Copying(order, src, e, Grown(d, to, copy, src.value[ob]), Append(list, copy),
                    Tail(work), known)
  <1> DEFINE m == Made(e, d)
             k == Left(order, src, e, d)
             from == src.children[order[m]]
             done == TopList(e, d, m)
             d2 == Grown(d, to, copy, src.value[ob])
             list2 == Append(list, copy)
  <1>1. /\ Len(order) \in Nat /\ m \in Nat /\ k \in Nat /\ m <= Len(order)
        /\ k # 0 => m # 0
        /\ \A i \in 1..Len(order) :
              /\ order[i] \in Object /\ src.children[order[i]] \in Seq(Object)
              /\ Len(src.children[order[i]]) \in Nat
        /\ \A i \in 1..m :
              /\ i \in Nat /\ i \in 1..Len(order) /\ Top(e, d, i) \in Object
              /\ TopList(e, d, i) \in Seq(Object) /\ Len(TopList(e, d, i)) \in Nat
              /\ Top(e, d, i) \in ToSet(list)
              /\ \A n \in ToSet(TopList(e, d, i)) : n \in ToSet(list)
        /\ \A i, j \in 1..m : Top(e, d, i) = Top(e, d, j) => i = j
    BY CopyingNumbers
  <1>2. /\ Head(work) = work[1] /\ Len(Tail(work)) = Len(work) - 1
        /\ Len(work) \in Nat /\ Len(work) # 0
        /\ \A i \in 1..(Len(work) - 1) : Tail(work)[i] = work[i + 1]
    BY HeadAndTail
  <1>3. /\ Len(work) = k + (Len(order) - m)
        /\ \A i \in 1..k : work[i] = <<from[Len(done) + i], Top(e, d, m)>>
        /\ \A i \in 1..(Len(order) - m) : work[k + i] = <<order[m + i], NULL>>
    BY DEF Copying, WorkLeft
  <1>4. k # 0
    <2> SUFFICES ASSUME k = 0 PROVE FALSE
      OBVIOUS
    <2>1. 1 \in 1..(Len(order) - m) /\ k + 1 = 1
      BY <1>1, <1>2, <1>3
    <2>2. work[1] = <<order[m + 1], NULL>>
      BY <1>3, <2>1
    <2> QED BY <1>2, <2>2, NodeObject
  <1>5. m \in 1..m /\ m \in 1..Len(order) /\ 1 \in 1..k
    BY <1>1, <1>4
  <1>6. /\ ob = from[Len(done) + 1] /\ to = Top(e, d, m)
        /\ k = Len(from) - Len(done)
        /\ Len(from) \in Nat /\ Len(done) \in Nat /\ Len(done) + 1 \in 1..Len(from)
    <2>1. work[1] = <<from[Len(done) + 1], Top(e, d, m)>>
      BY <1>3, <1>5
    <2>2. Len(from) \in Nat /\ Len(done) \in Nat
      BY <1>1, <1>5
    <2>3. k = Len(from) - Len(done)
      BY <1>1, <1>4 DEF Left
    <2>4. Len(done) + 1 \in 1..Len(from)
      BY <1>1, <1>4, <2>2, <2>3
    <2> QED BY <1>2, <2>1, <2>2, <2>3, <2>4
  <1>7. src.children[ob] = <<>>
    <2>1. order[m] \in Object /\ from \in Seq(Object)
      BY <1>1, <1>5
    <2>2. ob \in ToSet(from)
      BY <1>6, <2>1, ToSetMeans
    <2> QED BY <2>1, <2>2 DEF Ordered, Sound
  <1> HIDE DEF m, k
  <1>8. /\ \A n \in Object : d2.value[n] = IF n = copy THEN src.value[ob] ELSE d.value[n]
        /\ \A n \in Node : n # to => d2.children[n] = d.children[n]
        /\ d2.children[to] = Append(d.children[to], copy)
        /\ NULL \in Node /\ NULL # to
    <2>1. IsContents(d) /\ to \in Node /\ NULL \in Node /\ NULL # to
      BY NodeObject DEF Ordered, Sound
    <2>2. PICK v : v = src.value[ob]
      OBVIOUS
    <2>3. d2 = Grown(d, to, copy, v)
      BY <2>2
    <2> HIDE DEF d2
    <2> QED BY <2>1, <2>2, <2>3, GrownMeans
  <1>9. /\ list2 \in Seq(Object) /\ ToSet(list2) = ToSet(list) \cup {copy}
    BY AppendMeans
  <1> HIDE DEF d2, list2
  <1>10. d2.children[NULL] = d.children[NULL] /\ Made(e, d2) = m
    BY <1>8 DEF Made, m
  <1>11. \A i : Top(e, d2, i) = Top(e, d, i)
    BY <1>10 DEF Top
  <1>12. ASSUME NEW i \in 1..m, i # m
         PROVE  TopList(e, d2, i) = TopList(e, d, i)
    <2>1. Top(e, d, i) # to /\ Top(e, d, i) \in Node
      BY <1>1, <1>5, <1>6, <1>12, NodeObject
    <2> QED BY <1>8, <1>11, <2>1 DEF TopList
  <1>13. /\ TopList(e, d2, m) = Append(done, copy)
         /\ Len(TopList(e, d2, m)) = Len(done) + 1
         /\ \A j \in 1..Len(done) : TopList(e, d2, m)[j] = done[j]
         /\ TopList(e, d2, m)[Len(done) + 1] = copy
         /\ ToSet(TopList(e, d2, m)) = ToSet(done) \cup {copy}
    <2>1. TopList(e, d2, m) = Append(done, copy) /\ done \in Seq(Object)
      <3>1. done \in Seq(Object)
        BY <1>1, <1>5
      <3>2. done = d.children[to]
        BY <1>6 DEF TopList
      <3>3. TopList(e, d2, m) = d2.children[to]
        BY <1>6, <1>11 DEF TopList
      <3> QED BY <1>8, <3>1, <3>2, <3>3
    <2> HIDE DEF done
    <2> QED BY <2>1, AppendMeans
  <1>14. CopiesMade(order, src, e, d2)
    <2>1. /\ m \in 0..Len(order)
          /\ \A i \in 1..Len(e.children[NULL]) : d2.children[NULL][i] = e.children[NULL][i]
      BY <1>10 DEF Copying, CopiesMade, m
    <2>2. ASSUME NEW i \in 1..m
          PROVE  /\ d2.value[Top(e, d2, i)] = src.value[order[i]]
                 /\ Len(TopList(e, d2, i)) <= Len(src.children[order[i]])
                 /\ i < m => Len(TopList(e, d2, i)) = Len(src.children[order[i]])
                 /\ \A j \in 1..Len(TopList(e, d2, i)) :
                      d2.value[TopList(e, d2, i)[j]] = src.value[src.children[order[i]][j]]
      <3>1. /\ d.value[Top(e, d, i)] = src.value[order[i]]
            /\ Len(TopList(e, d, i)) <= Len(src.children[order[i]])
            /\ i < m => Len(TopList(e, d, i)) = Len(src.children[order[i]])
            /\ \A j \in 1..Len(TopList(e, d, i)) :
                 d.value[TopList(e, d, i)[j]] = src.value[src.children[order[i]][j]]
        BY DEF Copying, CopiesMade, m
      <3>2. d2.value[Top(e, d2, i)] = src.value[order[i]]
        BY <1>1, <1>8, <1>11, <3>1
      <3>3. ASSUME NEW j \in 1..Len(TopList(e, d, i))
            PROVE  d2.value[TopList(e, d, i)[j]] = src.value[src.children[order[i]][j]]
        <4>1. /\ TopList(e, d, i)[j] \in ToSet(TopList(e, d, i))
              /\ TopList(e, d, i)[j] \in Object
          BY <1>1, ToSetMeans
        <4>2. TopList(e, d, i)[j] # copy
          BY <1>1, <4>1
        <4> QED BY <1>8, <3>1, <4>1, <4>2
      <3>4. CASE i # m
        BY <1>12, <3>1, <3>2, <3>3, <3>4
      <3>5. CASE i = m
        <4>1. Len(TopList(e, d2, i)) <= Len(src.children[order[i]]) /\ ~(i < m)
          BY <1>1, <1>6, <1>13, <3>5
        <4>2. ASSUME NEW j \in 1..Len(TopList(e, d2, i))
              PROVE  d2.value[TopList(e, d2, i)[j]] = src.value[src.children[order[i]][j]]
          <5>1. j \in 1..Len(done) \/ j = Len(done) + 1
            BY <1>6, <1>13, <3>5
          <5>2. CASE j \in 1..Len(done)
            BY <1>13, <3>3, <3>5, <5>2
          <5>3. CASE j = Len(done) + 1
            BY <1>6, <1>8, <1>13, <3>5, <5>3
          <5> QED BY <5>1, <5>2, <5>3
        <4> QED BY <3>2, <4>1, <4>2
      <3> QED BY <3>4, <3>5
    <2> QED BY <1>10, <2>1, <2>2 DEF CopiesMade
  <1>15. CopiesListed(e, d2, list2, known)
    <2>1. /\ \A n \in Object :
               n \in ToSet(list) <=> \E i \in 1..m : n = Top(e, d, i) \/ n \in ToSet(TopList(e, d, i))
          /\ \A n \in ToSet(list) : n \in Object /\ n \notin known /\ e.value[n] = None
          /\ \A n \in Object : n \notin ToSet(list) =>
               d.value[n] = e.value[n] /\ d.children[n] = e.children[n]
      BY DEF Copying, CopiesListed, m
    <2>2. \A i \in 1..m : \A n : n \in ToSet(TopList(e, d2, i)) <=>
            n \in ToSet(TopList(e, d, i)) \/ (i = m /\ n = copy)
      BY <1>12, <1>13
    <2>3. ASSUME NEW n \in Object
          PROVE  n \in ToSet(list2) <=> \E i \in 1..m : \/ n = Top(e, d2, i)
                                                       \/ n \in ToSet(TopList(e, d2, i))
      BY <1>5, <1>9, <1>11, <2>1, <2>2
    <2>4. \A n \in ToSet(list2) : n \in Object /\ n \notin known /\ e.value[n] = None
      BY <1>9, <2>1
    <2>5. ASSUME NEW n \in Object, n \notin ToSet(list2)
          PROVE  d2.value[n] = e.value[n] /\ d2.children[n] = e.children[n]
      <3>1. n \notin ToSet(list) /\ n # copy /\ n # to /\ n \in Node
        BY <1>1, <1>5, <1>6, <1>9, <2>5, NodeObject
      <3> QED BY <1>8, <2>1, <3>1
    <2> QED BY <1>10, <2>3, <2>4, <2>5 DEF CopiesListed
  <1>16. WorkLeft(order, src, e, d2, Tail(work))
    <2>1. Left(order, src, e, d2) = k - 1
      <3>1. Left(order, src, e, d2) = Len(from) - (Len(done) + 1)
        BY <1>1, <1>4, <1>10, <1>13 DEF Left
      <3> QED BY <1>6, <3>1
    <2>2. Len(Tail(work)) = (k - 1) + (Len(order) - m)
      BY <1>1, <1>2, <1>3
    <2>3. ASSUME NEW i \in 1..(k - 1)
          PROVE  Tail(work)[i] = <<from[Len(TopList(e, d2, m)) + i], Top(e, d2, m)>>
      <3>1. i \in 1..(Len(work) - 1) /\ i + 1 \in 1..k
        BY <1>1, <1>3, <1>5
      <3>2. Tail(work)[i] = <<from[Len(done) + (i + 1)], Top(e, d, m)>>
        BY <1>2, <1>3, <3>1
      <3>3. Len(done) + (i + 1) = Len(TopList(e, d2, m)) + i
        BY <1>6, <1>13
      <3> QED BY <1>11, <3>2, <3>3
    <2>4. ASSUME NEW i \in 1..(Len(order) - m)
          PROVE  Tail(work)[(k - 1) + i] = <<order[m + i], NULL>>
      <3>1. (k - 1) + i \in 1..(Len(work) - 1) /\ ((k - 1) + i) + 1 = k + i
        BY <1>1, <1>3, <1>4
      <3>2. Tail(work)[(k - 1) + i] = work[k + i]
        BY <1>2, <3>1
      <3> QED BY <1>3, <3>2
    <2> QED BY <1>10, <2>1, <2>2, <2>3, <2>4 DEF WorkLeft
  <1> QED BY <1>7, <1>14, <1>15, <1>16 DEF Copying, d2, list2

\* The next object is copied; those attached to it are what is left first.
LEMMA CopyingTop ==
  ASSUME NEW order, NEW src, Ordered(src), NEW e, Sound(e), NEW d, Ordered(d),
         NEW list \in Seq(Object), NEW work \in Seq(Object \X Node), NEW known,
         Copying(order, src, e, d, list, work, known), work # <<>>,
         NEW ob \in Object, Head(work) = <<ob, NULL>>,
         NEW copy \in Object, copy \notin ToSet(list), copy \notin known,
         d.value[copy] = None,
         NEW more \in Seq(Object \X Node), Len(more) = Len(src.children[ob]),
         \A i \in 1..Len(src.children[ob]) : more[i] = <<src.children[ob][i], copy>>
  PROVE  Copying(order, src, e, Grown(d, NULL, copy, src.value[ob]), Append(list, copy),
                 more \o Tail(work), known)
  <1> DEFINE m == Made(e, d)
             k == Left(order, src, e, d)
             L == Len(e.children[NULL])
             d2 == Grown(d, NULL, copy, src.value[ob])
             list2 == Append(list, copy)
             work2 == more \o Tail(work)
  <1>1. /\ Len(order) \in Nat /\ m \in Nat /\ k \in Nat /\ m <= Len(order) /\ L \in Nat
        /\ k # 0 => m # 0
        /\ Len(d.children[NULL]) = L + m
        /\ \A i \in 1..Len(order) :
              /\ order[i] \in Object /\ src.children[order[i]] \in Seq(Object)
              /\ Len(src.children[order[i]]) \in Nat
        /\ \A i \in 1..m :
              /\ i \in Nat /\ i \in 1..Len(order) /\ Top(e, d, i) \in Object
              /\ TopList(e, d, i) \in Seq(Object) /\ Len(TopList(e, d, i)) \in Nat
              /\ Top(e, d, i) \in ToSet(list)
              /\ \A n \in ToSet(TopList(e, d, i)) : n \in ToSet(list)
    BY CopyingNumbers, SMTT(30)
  <1>2. /\ Head(work) = work[1] /\ Len(Tail(work)) = Len(work) - 1
        /\ Len(work) \in Nat /\ Len(work) # 0 /\ Tail(work) \in Seq(Object \X Node)
        /\ \A i \in 1..(Len(work) - 1) : Tail(work)[i] = work[i + 1]
    BY HeadAndTail
  <1>3. /\ Len(work) = k + (Len(order) - m)
        /\ \A i \in 1..k : work[i] = <<src.children[order[m]][Len(TopList(e, d, m)) + i],
                                       Top(e, d, m)>>
        /\ \A i \in 1..(Len(order) - m) : work[k + i] = <<order[m + i], NULL>>
    BY DEF Copying, WorkLeft
  <1>4. k = 0
    <2> SUFFICES ASSUME k # 0 PROVE FALSE
      OBVIOUS
    <2>1. 1 \in 1..k /\ m \in 1..m
      BY <1>1
    <2>2. Top(e, d, m) = NULL
      BY <1>2, <1>3, <2>1
    <2>3. Top(e, d, m) \in Object
      BY <1>1, <2>1
    <2> QED BY <2>2, <2>3, NodeObject
  <1>5. m + 1 \in 1..Len(order) /\ ob = order[m + 1]
    <2>1. 1 \in 1..(Len(order) - m) /\ k + 1 = 1 /\ m + 1 \in 1..Len(order)
      BY <1>1, <1>2, <1>3, <1>4
    <2>2. work[1] = <<order[m + 1], NULL>>
      BY <1>3, <2>1
    <2> QED BY <1>2, <2>1, <2>2
  <1>6. m # 0 => Len(TopList(e, d, m)) = Len(src.children[order[m]])
    <2> SUFFICES ASSUME m # 0
                 PROVE  Len(TopList(e, d, m)) = Len(src.children[order[m]])
      OBVIOUS
    <2>1. m \in 1..m /\ m \in 1..Len(order)
      BY <1>1
    <2>2. Len(src.children[order[m]]) - Len(TopList(e, d, m)) = 0
      BY <1>4 DEF Left
    <2> QED BY <1>1, <2>1, <2>2
  <1> HIDE DEF m, k, L
  <1>8. /\ \A n \in Object : d2.value[n] = IF n = copy THEN src.value[ob] ELSE d.value[n]
        /\ \A n \in Node : n # NULL => d2.children[n] = d.children[n]
        /\ d2.children[NULL] = Append(d.children[NULL], copy)
        /\ d.children \in [Node -> Seq(Object)]
        /\ NULL \in Node /\ Object \subseteq Node /\ NULL \notin Object
    <2>1. IsContents(d) /\ NULL \in Node /\ Object \subseteq Node /\ NULL \notin Object
      BY NodeObject DEF Ordered, Sound
    <2>2. PICK v : v = src.value[ob]
      OBVIOUS
    <2>3. d2 = Grown(d, NULL, copy, v)
      BY <2>2
    <2> HIDE DEF d2
    <2>4. /\ \A n \in Object : d2.value[n] = IF n = copy THEN v ELSE d.value[n]
          /\ \A n \in Node : n # NULL => d2.children[n] = d.children[n]
          /\ d2.children[NULL] = Append(d.children[NULL], copy)
      BY <2>1, <2>3, GrownMeans
    <2> QED BY <2>1, <2>2, <2>4 DEF IsContents
  <1>9. /\ list2 \in Seq(Object) /\ ToSet(list2) = ToSet(list) \cup {copy}
    BY AppendMeans
  <1> HIDE DEF d2, list2
  <1>10. /\ Len(d2.children[NULL]) = L + (m + 1) /\ Made(e, d2) = m + 1
         /\ \A i \in 1..(L + m) : d2.children[NULL][i] = d.children[NULL][i]
         /\ d2.children[NULL][L + (m + 1)] = copy
    <2>1. /\ Len(d2.children[NULL]) = Len(d.children[NULL]) + 1
          /\ \A i \in 1..Len(d.children[NULL]) : d2.children[NULL][i] = d.children[NULL][i]
          /\ d2.children[NULL][Len(d.children[NULL]) + 1] = copy
      BY <1>8, AppendMeans
    <2>2. (L + m) + 1 = L + (m + 1)
      BY <1>1
    <2>3. Len(d2.children[NULL]) = L + (m + 1)
      BY <1>1, <2>1, <2>2
    <2>4. Made(e, d2) = m + 1
      BY <1>1, <2>3 DEF Made, L
    <2> QED BY <1>1, <2>1, <2>2, <2>3, <2>4
  <1>11. /\ \A i \in 1..m : Top(e, d2, i) = Top(e, d, i) /\ TopList(e, d2, i) = TopList(e, d, i)
         /\ Top(e, d2, m + 1) = copy
    <2>1. \A i \in 1..m : Top(e, d2, i) = Top(e, d, i)
      <3> SUFFICES ASSUME NEW i \in 1..m PROVE Top(e, d2, i) = Top(e, d, i)
        OBVIOUS
      <3>1. L + i \in 1..(L + m)
        BY <1>1
      <3> QED BY <1>10, <3>1 DEF Top, L
    <2>2. \A i \in 1..m : Top(e, d, i) \in Node /\ Top(e, d, i) # NULL
      BY <1>1, <1>8
    <2> QED BY <1>8, <1>10, <2>1, <2>2 DEF Top, TopList, L
  <1>12. TopList(e, d2, m + 1) = <<>>
    <2>1. d.children[copy] = <<>>
      BY DEF Ordered, Sound
    <2>2. copy \in Node /\ copy # NULL
      BY <1>8
    <2> QED BY <1>8, <1>11, <2>1, <2>2 DEF TopList
  <1>13. CopiesMade(order, src, e, d2)
    <2>1. m + 1 \in 0..Len(order)
      BY <1>1, <1>5
    <2>2. \A i \in 1..L : d2.children[NULL][i] = e.children[NULL][i]
      <3>1. \A i \in 1..L : i \in 1..(L + m)
        BY <1>1
      <3>2. \A i \in 1..L : d.children[NULL][i] = e.children[NULL][i]
        BY DEF Copying, CopiesMade, L
      <3> QED BY <1>10, <3>1, <3>2
    <2>3. ASSUME NEW i \in 1..(m + 1)
          PROVE  /\ d2.value[Top(e, d2, i)] = src.value[order[i]]
                 /\ Len(TopList(e, d2, i)) <= Len(src.children[order[i]])
                 /\ i < m + 1 => Len(TopList(e, d2, i)) = Len(src.children[order[i]])
                 /\ \A j \in 1..Len(TopList(e, d2, i)) :
                      d2.value[TopList(e, d2, i)[j]] = src.value[src.children[order[i]][j]]
      <3>1. CASE i = m + 1
        <4>1. Len(TopList(e, d2, i)) = 0 /\ ~(i < m + 1)
          BY <1>1, <1>12, <3>1, EmptySet
        <4>2. d2.value[Top(e, d2, i)] = src.value[order[i]]
          BY <1>5, <1>8, <1>11, <3>1
        <4>3. Len(src.children[order[i]]) \in Nat
          BY <1>1, <1>5, <3>1
        <4>4. \A j \in 1..0 : FALSE
          OBVIOUS
        <4> QED BY <4>1, <4>2, <4>3, <4>4
      <3>2. CASE i \in 1..m
        <4>1. /\ d.value[Top(e, d, i)] = src.value[order[i]]
              /\ Len(TopList(e, d, i)) <= Len(src.children[order[i]])
              /\ i < m => Len(TopList(e, d, i)) = Len(src.children[order[i]])
              /\ \A j \in 1..Len(TopList(e, d, i)) :
                   d.value[TopList(e, d, i)[j]] = src.value[src.children[order[i]][j]]
          BY <3>2 DEF Copying, CopiesMade, m
        <4>2. Top(e, d2, i) = Top(e, d, i) /\ TopList(e, d2, i) = TopList(e, d, i)
          BY <1>11, <3>2
        <4>3. d2.value[Top(e, d2, i)] = src.value[order[i]]
          BY <1>1, <1>8, <3>2, <4>1, <4>2
        <4>4. Len(TopList(e, d, i)) = Len(src.children[order[i]])
          <5>1. i < m \/ (i = m /\ m # 0)
            BY <1>1, <3>2
          <5> QED BY <1>6, <4>1, <5>1
        <4>5. ASSUME NEW j \in 1..Len(TopList(e, d, i))
              PROVE  d2.value[TopList(e, d, i)[j]] = src.value[src.children[order[i]][j]]
          <5>1. /\ TopList(e, d, i)[j] \in ToSet(TopList(e, d, i))
                /\ TopList(e, d, i)[j] \in Object
            BY <1>1, <3>2, ToSetMeans
          <5>2. TopList(e, d, i)[j] # copy
            BY <1>1, <3>2, <5>1
          <5> QED BY <1>8, <4>1, <5>1, <5>2
        <4> QED BY <4>1, <4>2, <4>3, <4>4, <4>5
      <3>3. i = m + 1 \/ i \in 1..m
        BY <1>1
      <3> QED BY <3>1, <3>2, <3>3
    <2> QED BY <1>10, <2>1, <2>2, <2>3 DEF CopiesMade, L
  <1>14. CopiesListed(e, d2, list2, known)
    <2>1. /\ \A n \in Object :
               n \in ToSet(list) <=> \E i \in 1..m : n = Top(e, d, i) \/ n \in ToSet(TopList(e, d, i))
          /\ \A n \in ToSet(list) : n \in Object /\ n \notin known /\ e.value[n] = None
          /\ \A n \in Object : n \notin ToSet(list) =>
               d.value[n] = e.value[n] /\ d.children[n] = e.children[n]
      BY DEF Copying, CopiesListed, m
    <2>2. \A i \in 1..(m + 1) : i \in 1..m \/ i = m + 1
      BY <1>1
    <2>3. m + 1 \in 1..(m + 1) /\ \A i \in 1..m : i \in 1..(m + 1)
      BY <1>1
    <2>4. ASSUME NEW n \in Object
          PROVE  n \in ToSet(list2) <=> \E i \in 1..(m + 1) : \/ n = Top(e, d2, i)
                                                             \/ n \in ToSet(TopList(e, d2, i))
      <3>1. ASSUME n \in ToSet(list2)
            PROVE  \E i \in 1..(m + 1) : n = Top(e, d2, i) \/ n \in ToSet(TopList(e, d2, i))
        <4>1. CASE n = copy
          BY <1>11, <2>3, <4>1
        <4>2. CASE n \in ToSet(list)
          <5>1. PICK i \in 1..m : n = Top(e, d, i) \/ n \in ToSet(TopList(e, d, i))
            BY <2>1, <4>2
          <5> QED BY <1>11, <2>3, <5>1
        <4> QED BY <1>9, <3>1, <4>1, <4>2
      <3>2. ASSUME NEW i \in 1..(m + 1), n = Top(e, d2, i) \/ n \in ToSet(TopList(e, d2, i))
            PROVE  n \in ToSet(list2)
        <4>1. CASE i = m + 1
          BY <1>9, <1>11, <1>12, <3>2, <4>1, EmptySet
        <4>2. CASE i \in 1..m
          BY <1>1, <1>9, <1>11, <3>2, <4>2
        <4> QED BY <2>2, <4>1, <4>2
      <3> QED BY <3>1, <3>2
    <2>5. \A n \in ToSet(list2) : n \in Object /\ n \notin known /\ e.value[n] = None
      BY <1>9, <2>1
    <2>6. \A n \in Object : n \notin ToSet(list2) =>
            d2.value[n] = e.value[n] /\ d2.children[n] = e.children[n]
      BY <1>8, <1>9, <2>1
    <2> QED BY <1>10, <2>4, <2>5, <2>6 DEF CopiesListed
  <1>15. WorkLeft(order, src, e, d2, work2)
    <2> DEFINE p == Len(src.children[ob])
    <2>1. p \in Nat /\ p = Len(more) /\ m + 1 # 0
      BY <1>1, <1>5
    <2>2. Left(order, src, e, d2) = p
      <3>1. Left(order, src, e, d2) = p - Len(<<>>)
        BY <1>5, <1>10, <1>12, <2>1 DEF Left
      <3> QED BY <2>1, <3>1, EmptySet
    <2>3. /\ Len(work2) = p + (Len(work) - 1)
          /\ \A i \in 1..(p + (Len(work) - 1)) :
               work2[i] = IF i <= p THEN more[i] ELSE Tail(work)[i - p]
      <3>1. Len(Tail(work)) = Len(work) - 1 /\ Tail(work) \in Seq(Object \X Node)
        BY <1>2
      <3> DEFINE S == Object \X Node
                 rest == Tail(work)
      <3>2. more \in Seq(S) /\ rest \in Seq(S)
        BY <3>1
      <3> HIDE DEF S, rest
      <3>3. /\ Len(more \o rest) = Len(more) + Len(rest)
            /\ \A i \in 1..(Len(more) + Len(rest)) :
                 (more \o rest)[i] = IF i <= Len(more) THEN more[i] ELSE rest[i - Len(more)]
        BY ONLY <3>2, ConcatProperties
      <3>4. Len(more) = p /\ Len(rest) = Len(work) - 1 /\ work2 = more \o rest
        BY <2>1, <3>1 DEF rest
      <3> HIDE DEF p, work2
      <3> QED BY Zenon, <3>3, <3>4 DEF rest
    <2> HIDE DEF work2, p
    <2>4. Len(work2) = p + (Len(order) - (m + 1))
      BY <1>1, <1>2, <1>3, <1>4, <2>1, <2>3
    <2>5. ASSUME NEW i \in 1..p
          PROVE  work2[i] = <<src.children[order[m + 1]][Len(TopList(e, d2, m + 1)) + i],
                              Top(e, d2, m + 1)>>
      <3>1. i \in 1..(p + (Len(work) - 1)) /\ i <= p /\ 0 + i = i
        BY <1>2, <2>1
      <3>2. work2[i] = <<src.children[ob][i], copy>>
        BY <2>3, <3>1 DEF p
      <3> QED BY <1>5, <1>11, <1>12, <3>1, <3>2, EmptySet
    <2>6. ASSUME NEW i \in 1..(Len(order) - (m + 1))
          PROVE  work2[p + i] = <<order[(m + 1) + i], NULL>>
      <3>1. /\ p + i \in 1..(p + (Len(work) - 1)) /\ ~(p + i <= p) /\ (p + i) - p = i
            /\ i \in 1..(Len(work) - 1) /\ i + 1 \in 1..(Len(order) - m)
            /\ k + (i + 1) = i + 1 /\ m + (i + 1) = (m + 1) + i
        BY <1>1, <1>2, <1>3, <1>4, <2>1
      <3>2. work2[p + i] = work[i + 1]
        BY <1>2, <2>3, <3>1
      <3>3. work[i + 1] = <<order[m + (i + 1)], NULL>>
        BY <1>3, <3>1
      <3> QED BY <3>1, <3>2, <3>3
    <2> QED BY <1>10, <2>2, <2>4, <2>5, <2>6 DEF WorkLeft
  <1> QED BY <1>13, <1>14, <1>15 DEF Copying, d2, list2, work2

LEMMA OrderOfSet ==
  ASSUME NEW order \in Seq(Object),
         \A i, j \in 1..Len(order) : order[i] = order[j] => i = j
  PROVE  order \in Store!SetToSeqs(ToSet(order))
  <1> DEFINE S == ToSet(order)
             n == Len(order)
  <1>1. /\ n \in Nat /\ \A i \in 1..n : order[i] \in S
        /\ \A x \in S : \E i \in 1..n : order[i] = x
    BY ToSetMeans
  <1>2. order \in [1..n -> S]
    <2>1. DOMAIN order = 1..n /\ order = [i \in DOMAIN order |-> order[i]]
      BY LenProperties
    <2> QED BY <1>1, <2>1
  <1> HIDE DEF S, n
  <1>3. order \in Bijection(1..n, S)
    BY <1>1, <1>2 DEF Bijection, Injection, Surjection, IsInjective, n
  <1>4. Store!Cardinality(S) = n
    <2>1. Cardinality(S) = n
      BY <1>1, <1>3, FS_CountingElements DEF ExistsBijection
    <2> QED BY <2>1, StoreCardinality
  <1> QED BY <1>2, <1>4 DEF Store!SetToSeqs, S, n

\* The copy n stands for the pair x of an object which was to be copied and an
\* object which was copied with it.
IsCopy(order, src, e, d, x, n) ==
  \E i \in 1..Len(order) :
    /\ x[1] = order[i]
    /\ \/ x[2] = order[i] /\ n = Top(e, d, i)
       \/ \E j \in 1..Len(TopList(e, d, i)) :
            x[2] = src.children[order[i]][j] /\ n = TopList(e, d, i)[j]

LEMMA AllMade ==
  ASSUME NEW order, NEW src, Ordered(src), NEW e, Sound(e), NEW d, Ordered(d),
         NEW list, NEW known, Copying(order, src, e, d, list, <<>>, known)
  PROVE  /\ Made(e, d) = Len(order)
         /\ \A i \in 1..Len(order) :
              Len(TopList(e, d, i)) = Len(src.children[order[i]])
  <1>1. /\ Len(order) \in Nat /\ Made(e, d) \in Nat /\ Left(order, src, e, d) \in Nat
        /\ Made(e, d) <= Len(order)
        /\ \A i \in 1..Len(order) : Len(src.children[order[i]]) \in Nat
        /\ \A i \in 1..Made(e, d) : Len(TopList(e, d, i)) \in Nat
    BY CopyingNumbers
  <1>2. Left(order, src, e, d) + (Len(order) - Made(e, d)) = 0
    <2>1. Len(<<>>) = Left(order, src, e, d) + (Len(order) - Made(e, d))
      BY DEF Copying, WorkLeft
    <2> QED BY <2>1, EmptySet
  <1>3. Made(e, d) = Len(order) /\ Left(order, src, e, d) = 0
    BY <1>1, <1>2
  <1>4. ASSUME NEW i \in 1..Len(order)
        PROVE  Len(TopList(e, d, i)) = Len(src.children[order[i]])
    <2>1. CASE i < Made(e, d)
      BY <1>3, <2>1 DEF Copying, CopiesMade
    <2>2. CASE i = Made(e, d)
      <3>1. Made(e, d) # 0
        BY <1>1, <2>2
      <3>2. Len(src.children[order[i]]) - Len(TopList(e, d, i)) = 0
        BY <1>3, <2>2, <3>1 DEF Left
      <3> QED BY <1>1, <1>3, <3>2
    <2>3. i < Made(e, d) \/ i = Made(e, d)
      BY <1>1, <1>3
    <2> QED BY <2>1, <2>2, <2>3
  <1> QED BY <1>3, <1>4

\* Each pair has a copy, and each copy belongs to one pair.
LEMMA CopiesPaired ==
  ASSUME NEW order, NEW src, Ordered(src), NEW e, Sound(e), NEW d, Ordered(d),
         NEW list, NEW known, Copying(order, src, e, d, list, <<>>, known)
  PROVE  /\ \A x \in Store!Copies(src, ToSet(order)) :
              \E n \in Object : IsCopy(order, src, e, d, x, n)
         /\ \A x \in Store!Copies(src, ToSet(order)), n, n2 \in Object :
              IsCopy(order, src, e, d, x, n) /\ IsCopy(order, src, e, d, x, n2) => n = n2
         /\ \A x, y \in Store!Copies(src, ToSet(order)), n \in Object :
              IsCopy(order, src, e, d, x, n) /\ IsCopy(order, src, e, d, y, n) => x = y
         /\ \A n \in Object : n \in ToSet(list) <=>
              \E x \in Store!Copies(src, ToSet(order)) : IsCopy(order, src, e, d, x, n)
         /\ \A x \in Store!Copies(src, ToSet(order)), n \in Object :
              IsCopy(order, src, e, d, x, n) => d.value[n] = src.value[x[2]]
  <1> DEFINE m == Len(order)
             S == ToSet(order)
             C == Store!Copies(src, S)
             ch(i) == src.children[order[i]]
             top(i) == Top(e, d, i)
             tl(i) == TopList(e, d, i)
  <1>1. /\ m \in Nat /\ order \in Seq(Object)
        /\ \A i, j \in 1..m : order[i] = order[j] => i = j
        /\ \A i \in 1..m : Len(tl(i)) = Len(ch(i)) /\ ch(i) \in Seq(Object)
                           /\ order[i] \in Object /\ order[i] \in S
                           /\ top(i) \in Object /\ top(i) \in ToSet(d.children[NULL])
                           /\ tl(i) \in Seq(Object)
        /\ \A i, j \in 1..m : top(i) = top(j) => i = j
        /\ \A o \in S : \E i \in 1..m : order[i] = o
    <2>1. order \in Seq(Object) /\ \A i, j \in 1..m : order[i] = order[j] => i = j
      BY DEF Copying, Plan
    <2>2. Made(e, d) = m /\ \A i \in 1..m : Len(tl(i)) = Len(ch(i))
      BY AllMade
    <2>3. /\ m \in Nat
          /\ \A i \in 1..m : order[i] \in Object /\ ch(i) \in Seq(Object)
          /\ \A i \in 1..Made(e, d) : top(i) \in Object /\ top(i) \in ToSet(d.children[NULL])
                                      /\ tl(i) \in Seq(Object)
          /\ \A i, j \in 1..Made(e, d) : top(i) = top(j) => i = j
      BY CopyingNumbers
    <2>4. /\ \A i \in 1..m : order[i] \in S
          /\ \A o \in S : \E i \in 1..m : order[i] = o
      BY <2>1, ToSetMeans
    <2> QED BY <2>1, <2>2, <2>3, <2>4
  <1>2. \A x : x \in C <=> /\ x \in S \X Object
                           /\ x[2] = x[1] \/ x[2] \in ToSet(src.children[x[1]])
    BY StoreNames, StoreSequences DEF Store!Copies, Store!AttachedTo
  <1>3. ASSUME NEW i \in 1..m, NEW j \in 1..Len(ch(i))
        PROVE  /\ ch(i)[j] \in Object /\ ch(i)[j] \in ToSet(ch(i)) /\ ch(i)[j] # order[i]
               /\ \A l \in 1..Len(ch(i)) : ch(i)[l] = ch(i)[j] => l = j
               /\ d.value[tl(i)[j]] = src.value[ch(i)[j]]
               /\ tl(i)[j] \in Object /\ tl(i)[j] \in ToSet(tl(i))
               /\ \A l \in 1..m : tl(i)[j] # top(l)
               /\ \A l \in 1..m : tl(i)[j] \in ToSet(tl(l)) => l = i
               /\ \A l \in 1..Len(tl(i)) : tl(i)[l] = tl(i)[j] => l = j
    <2>1. ch(i)[j] \in Object /\ ch(i)[j] \in ToSet(ch(i))
      BY <1>1, ToSetMeans
    <2>2. ch(i)[j] # order[i]
      <3> SUFFICES ASSUME ch(i)[j] = order[i] PROVE FALSE
        OBVIOUS
      <3>1. ch(i) = <<>>
        BY <1>1, <2>1 DEF Ordered, Sound
      <3> QED BY <2>1, <3>1, EmptySet
    <2>3. order[i] \in Node /\ top(i) \in Node /\ NULL \in Node /\ NULL # top(i)
      BY <1>1, NodeObject
    <2>4. \A l \in 1..Len(ch(i)) : ch(i)[l] = ch(i)[j] => l = j
      BY <2>3 DEF Ordered
    <2>5. d.value[tl(i)[j]] = src.value[ch(i)[j]]
      <3>1. i \in 1..Made(e, d) /\ j \in 1..Len(TopList(e, d, i))
        BY <1>1, AllMade
      <3> QED BY <3>1 DEF Copying, CopiesMade
    <2>6. j \in 1..Len(tl(i)) /\ tl(i)[j] \in Object /\ tl(i)[j] \in ToSet(tl(i))
      BY <1>1, ToSetMeans
    <2>7. \A l \in 1..m : tl(i)[j] # top(l)
      <3>1. ToSet(d.children[NULL]) \cap ToSet(tl(i)) = {}
        BY <2>3 DEF Ordered, TopList
      <3>2. \A l \in 1..m : top(l) \in ToSet(d.children[NULL])
        BY <1>1
      <3> QED BY <2>6, <3>1, <3>2
    <2>8. ASSUME NEW l \in 1..m, tl(i)[j] \in ToSet(tl(l)) PROVE l = i
      <3>1. top(l) \in Node
        BY <1>1, NodeObject
      <3>2. top(l) = top(i)
        BY <2>3, <2>6, <2>8, <3>1 DEF Ordered, TopList
      <3> QED BY <1>1, <3>2
    <2>9. \A l \in 1..Len(tl(i)) : tl(i)[l] = tl(i)[j] => l = j
      BY <2>3, <2>6 DEF Ordered, TopList
    <2> QED BY <2>1, <2>2, <2>4, <2>5, <2>6, <2>7, <2>8, <2>9
  <1>4. /\ \A i \in 1..m : <<order[i], order[i]>> \in C
        /\ \A i \in 1..m : \A j \in 1..Len(ch(i)) : <<order[i], ch(i)[j]>> \in C
    BY <1>1, <1>2, <1>3
  <1>5. \A x, n : IsCopy(order, src, e, d, x, n) <=>
          \E i \in 1..m :
            /\ x[1] = order[i]
            /\ \/ x[2] = order[i] /\ n = top(i)
               \/ \E j \in 1..Len(ch(i)) : x[2] = ch(i)[j] /\ n = tl(i)[j]
    BY <1>1 DEF IsCopy
  <1>6. ASSUME NEW x \in C PROVE \E n \in Object : IsCopy(order, src, e, d, x, n)
    <2>1. PICK i \in 1..m : order[i] = x[1]
      BY <1>1, <1>2
    <2>2. CASE x[2] = x[1]
      BY <1>1, <1>5, <2>1, <2>2
    <2>3. CASE x[2] \in ToSet(ch(i))
      <3>1. PICK j \in 1..Len(ch(i)) : ch(i)[j] = x[2]
        BY <1>1, <2>3, ToSetMeans
      <3> QED BY <1>3, <1>5, <2>1, <3>1, SMTT(30)
    <2> QED BY <1>2, <2>1, <2>2, <2>3
  <1>7. ASSUME NEW x \in C, NEW n \in Object, NEW n2 \in Object,
               IsCopy(order, src, e, d, x, n), IsCopy(order, src, e, d, x, n2)
        PROVE  n = n2
    <2>1. PICK i \in 1..m :
            /\ x[1] = order[i]
            /\ \/ x[2] = order[i] /\ n = top(i)
               \/ \E j \in 1..Len(ch(i)) : x[2] = ch(i)[j] /\ n = tl(i)[j]
      BY <1>5, <1>7
    <2>2. PICK i2 \in 1..m :
            /\ x[1] = order[i2]
            /\ \/ x[2] = order[i2] /\ n2 = top(i2)
               \/ \E j \in 1..Len(ch(i2)) : x[2] = ch(i2)[j] /\ n2 = tl(i2)[j]
      BY <1>5, <1>7
    <2>3. i2 = i
      <3>1. order[i2] = order[i]
        BY <2>1, <2>2
      <3> QED BY <1>1, <3>1, Zenon
    <2> QED BY <1>3, <2>1, <2>2, <2>3
  <1>8. ASSUME NEW x \in C, NEW y \in C, NEW n \in Object,
               IsCopy(order, src, e, d, x, n), IsCopy(order, src, e, d, y, n)
        PROVE  x = y
    <2>1. PICK i \in 1..m :
            /\ x[1] = order[i]
            /\ \/ x[2] = order[i] /\ n = top(i)
               \/ \E j \in 1..Len(ch(i)) : x[2] = ch(i)[j] /\ n = tl(i)[j]
      BY <1>5, <1>8
    <2>2. PICK l \in 1..m :
            /\ y[1] = order[l]
            /\ \/ y[2] = order[l] /\ n = top(l)
               \/ \E j \in 1..Len(ch(l)) : y[2] = ch(l)[j] /\ n = tl(l)[j]
      BY <1>5, <1>8
    <2>3. x[1] = y[1] /\ x[2] = y[2]
      <3>1. CASE x[2] = order[i] /\ n = top(i)
        <4>1. y[2] = order[l] /\ n = top(l)
          BY <1>3, <2>2, <3>1
        <4>2. l = i
          BY <1>1, <3>1, <4>1, Zenon
        <4> QED BY <2>1, <2>2, <3>1, <4>1, <4>2
      <3>2. CASE \E j \in 1..Len(ch(i)) : x[2] = ch(i)[j] /\ n = tl(i)[j]
        <4>1. PICK j \in 1..Len(ch(i)) : x[2] = ch(i)[j] /\ n = tl(i)[j]
          BY <3>2
        <4>2. PICK j2 \in 1..Len(ch(l)) : y[2] = ch(l)[j2] /\ n = tl(l)[j2]
          BY <1>3, <2>2, <4>1
        <4>3. l = i
          <5>1. tl(l)[j2] \in ToSet(tl(l))
            BY <1>3, <4>2
          <5>2. tl(i)[j] \in ToSet(tl(l))
            BY <4>1, <4>2, <5>1
          <5>3. \A q \in 1..m : tl(i)[j] \in ToSet(tl(q)) => q = i
            BY <1>3, <4>1
          <5> QED BY <5>2, <5>3, Zenon
        <4>4. j2 = j
          <5>1. \A q \in 1..Len(tl(i)) : tl(i)[q] = tl(i)[j] => q = j
            BY <1>3, <4>1
          <5>2. j2 \in 1..Len(tl(i)) /\ tl(i)[j2] = tl(i)[j]
            BY <1>1, <4>1, <4>2, <4>3
          <5> QED BY <5>1, <5>2, Zenon
        <4> QED BY <2>1, <2>2, <4>1, <4>2, <4>3, <4>4
      <3> QED BY <2>1, <3>1, <3>2
    <2>4. x \in S \X Object /\ y \in S \X Object
      BY <1>2
    <2> QED BY <2>3, <2>4
  <1>9. ASSUME NEW n \in Object
        PROVE  n \in ToSet(list) <=> \E x \in C : IsCopy(order, src, e, d, x, n)
    <2>1. n \in ToSet(list) <=> \E i \in 1..m : n = top(i) \/ n \in ToSet(tl(i))
      <3>1. Made(e, d) = m
        BY AllMade
      <3> QED BY <3>1 DEF Copying, CopiesListed
    <2>2. ASSUME NEW i \in 1..m, n = top(i) \/ n \in ToSet(tl(i))
          PROVE  \E x \in C : IsCopy(order, src, e, d, x, n)
      <3>1. CASE n = top(i)
        <4>1. IsCopy(order, src, e, d, <<order[i], order[i]>>, n)
          <5>1. <<order[i], order[i]>>[1] = order[i] /\ <<order[i], order[i]>>[2] = order[i]
            OBVIOUS
          <5> QED BY Zenon, <1>5, <3>1, <5>1
        <4> QED BY <1>4, <4>1
      <3>2. CASE n \in ToSet(tl(i))
        <4>1. PICK j \in 1..Len(ch(i)) : n = tl(i)[j]
          BY <1>1, <3>2, ToSetMeans, ZenonT(30)
        <4>2. IsCopy(order, src, e, d, <<order[i], ch(i)[j]>>, n)
          BY <1>5, <4>1
        <4> QED BY <1>4, <4>2
      <3> QED BY <2>2, <3>1, <3>2
    <2>3. ASSUME NEW x \in C, IsCopy(order, src, e, d, x, n)
          PROVE  \E i \in 1..m : n = top(i) \/ n \in ToSet(tl(i))
      <3>1. PICK i \in 1..m :
              n = top(i) \/ \E j \in 1..Len(ch(i)) : n = tl(i)[j]
        BY <1>5, <2>3
      <3> QED BY <1>3, <3>1
    <2> QED BY <2>1, <2>2, <2>3
  <1>10. ASSUME NEW x \in C, NEW n \in Object, IsCopy(order, src, e, d, x, n)
         PROVE  d.value[n] = src.value[x[2]]
    <2>1. \A i \in 1..m : d.value[top(i)] = src.value[order[i]]
      <3>1. Made(e, d) = m
        BY AllMade
      <3> QED BY <3>1 DEF Copying, CopiesMade
    <2>2. PICK i \in 1..m :
            /\ x[1] = order[i]
            /\ \/ x[2] = order[i] /\ n = top(i)
               \/ \E j \in 1..Len(ch(i)) : x[2] = ch(i)[j] /\ n = tl(i)[j]
      BY <1>5, <1>10
    <2>3. CASE x[2] = order[i] /\ n = top(i)
      BY <2>1, <2>3
    <2>4. CASE \E j \in 1..Len(ch(i)) : x[2] = ch(i)[j] /\ n = tl(i)[j]
      <3>1. PICK j \in 1..Len(ch(i)) : x[2] = ch(i)[j] /\ n = tl(i)[j]
        BY <2>4
      <3> QED BY <1>3, <3>1
    <2> QED BY <2>2, <2>3, <2>4
  <1> QED BY <1>6, <1>7, <1>8, <1>9, <1>10

LEMMA CopyingEnds ==
  ASSUME NEW order, NEW src, Ordered(src), NEW e, Sound(e), NEW d, Ordered(d),
         NEW list, NEW known, Copying(order, src, e, d, list, <<>>, known)
  PROVE  /\ ToSet(order) \subseteq known
         /\ {ob \in ToSet(order) : Store!Exists(src, ob)} = ToSet(order)
         /\ order \in Store!SetToSeqs(ToSet(order))
         /\ \E new \in [Store!Copies(src, ToSet(order)) -> Object \ known] :
              /\ Store!IsInjective(new)
              /\ d = Store!WithCopies(e, src, order, new)
              /\ ToSet(list) \cap Object = {new[x] : x \in DOMAIN new}
  <1> DEFINE m == Len(order)
             S == ToSet(order)
             C == Store!Copies(src, S)
             ch(i) == src.children[order[i]]
             top(i) == Top(e, d, i)
             tl(i) == TopList(e, d, i)
  <1>1. /\ order \in Seq(Object) /\ order \in Store!SetToSeqs(S)
        /\ \A i \in 1..m : order[i] \in known /\ src.value[order[i]] # None
    BY OrderOfSet DEF Copying, Plan
  <1>2. S \subseteq known /\ {ob \in S : Store!Exists(src, ob)} = S
    BY <1>1, ToSetMeans DEF Store!Exists
  <1>3. /\ m \in Nat /\ DOMAIN order = 1..m
        /\ \A i \in 1..m : /\ Len(tl(i)) = Len(ch(i)) /\ ch(i) \in Seq(Object)
                           /\ order[i] \in Object /\ order[i] \in S
                           /\ top(i) \in Object /\ tl(i) \in Seq(Object)
                           /\ top(i) \in ToSet(list)
                           /\ \A n \in ToSet(tl(i)) : n \in ToSet(list)
        /\ \A n \in ToSet(list) \cap Object : \E i \in 1..m : n = top(i) \/ n \in ToSet(tl(i))
        /\ Len(e.children[NULL]) \in Nat
        /\ Len(d.children[NULL]) = Len(e.children[NULL]) + m
    <2>1. Made(e, d) = m /\ \A i \in 1..m : Len(tl(i)) = Len(ch(i))
      BY AllMade
    <2>2. /\ \A i \in 1..m : order[i] \in Object /\ ch(i) \in Seq(Object)
          /\ \A i \in 1..Made(e, d) : top(i) \in Object /\ tl(i) \in Seq(Object)
          /\ Len(e.children[NULL]) \in Nat
          /\ Len(d.children[NULL]) = Len(e.children[NULL]) + Made(e, d)
      BY CopyingNumbers
    <2>5. \A i \in 1..Made(e, d) : /\ top(i) \in ToSet(list)
                                  /\ \A n \in ToSet(tl(i)) : n \in ToSet(list)
      BY CopyingNumbers
    <2>3. m \in Nat /\ DOMAIN order = 1..m /\ \A i \in 1..m : order[i] \in S
      BY <1>1, ToSetMeans
    <2>4. \A n \in Object :
            n \in ToSet(list) <=> \E i \in 1..Made(e, d) : n = top(i) \/ n \in ToSet(tl(i))
      BY DEF Copying, CopiesListed
    <2> QED BY <2>1, <2>2, <2>3, <2>4, <2>5
  <1>4. \A i \in 1..m, j \in Nat :
          j \in 1..Len(ch(i)) => /\ ch(i)[j] \in Object /\ ch(i)[j] \in ToSet(ch(i))
                                 /\ ch(i)[j] # order[i]
                                 /\ tl(i)[j] \in Object /\ tl(i)[j] \in ToSet(tl(i))
    <2> SUFFICES ASSUME NEW i \in 1..m, NEW j \in 1..Len(ch(i))
                 PROVE  /\ ch(i)[j] \in Object /\ ch(i)[j] \in ToSet(ch(i))
                        /\ ch(i)[j] # order[i]
                        /\ tl(i)[j] \in Object /\ tl(i)[j] \in ToSet(tl(i))
      OBVIOUS
    <2>1. ch(i)[j] \in Object /\ ch(i)[j] \in ToSet(ch(i))
      BY <1>3, ToSetMeans
    <2>2. ch(i)[j] # order[i]
      <3> SUFFICES ASSUME ch(i)[j] = order[i] PROVE FALSE
        OBVIOUS
      <3>1. ch(i) = <<>>
        BY <1>3, <2>1 DEF Ordered, Sound
      <3> QED BY <2>1, <3>1, EmptySet
    <2>3. tl(i)[j] \in Object /\ tl(i)[j] \in ToSet(tl(i))
      <3>1. j \in 1..Len(tl(i)) /\ tl(i) \in Seq(Object)
        BY <1>3
      <3> QED BY <3>1, ToSetMeans
    <2> QED BY <2>1, <2>2, <2>3
  <1>5. /\ \A i \in 1..m : /\ <<order[i], order[i]>> \in C
                           /\ IsCopy(order, src, e, d, <<order[i], order[i]>>, top(i))
        /\ \A i \in 1..m : \A j \in 1..Len(ch(i)) :
             /\ <<order[i], ch(i)[j]>> \in C
             /\ IsCopy(order, src, e, d, <<order[i], ch(i)[j]>>, tl(i)[j])
    <2>1. \A x : x \in C <=> /\ x \in S \X Object
                             /\ x[2] = x[1] \/ x[2] \in ToSet(src.children[x[1]])
      BY StoreNames, StoreSequences DEF Store!Copies, Store!AttachedTo
    <2>2. \A i \in 1..m : /\ <<order[i], order[i]>> \in C
                          /\ IsCopy(order, src, e, d, <<order[i], order[i]>>, top(i))
      BY <1>3, <2>1 DEF IsCopy
    <2>3. ASSUME NEW i \in 1..m, NEW j \in 1..Len(ch(i))
          PROVE  /\ <<order[i], ch(i)[j]>> \in C
                 /\ IsCopy(order, src, e, d, <<order[i], ch(i)[j]>>, tl(i)[j])
      <3>1. ch(i)[j] \in Object /\ ch(i)[j] \in ToSet(ch(i))
        BY <1>3, ToSetMeans
      <3>2. j \in 1..Len(tl(i))
        BY <1>3
      <3> QED BY <1>3, <2>1, <3>1, <3>2 DEF IsCopy
    <2> QED BY <2>2, <2>3
  <1> DEFINE new == [x \in C |-> CHOOSE n \in Object : IsCopy(order, src, e, d, x, n)]
  <1>6. \A x \in C : new[x] \in Object /\ IsCopy(order, src, e, d, x, new[x])
    <2>1. \A x \in C : \E n \in Object : IsCopy(order, src, e, d, x, n)
      BY CopiesPaired
    <2> QED BY <2>1
  <1>7. DOMAIN new = C
    OBVIOUS
  <1>8. new = [x \in C |-> new[x]]
    OBVIOUS
  <1> HIDE DEF new
  <1>9. /\ \A x \in C, n \in Object : IsCopy(order, src, e, d, x, n) => new[x] = n
        /\ \A x, y \in C : new[x] = new[y] => x = y
        /\ \A n \in Object : n \in ToSet(list) <=> \E x \in C : new[x] = n
        /\ \A x \in C : d.value[new[x]] = src.value[x[2]]
    <2>1. \A x \in C, n \in Object : IsCopy(order, src, e, d, x, n) => new[x] = n
      BY <1>6, CopiesPaired
    <2>2. \A x, y \in C : new[x] = new[y] => x = y
      <3>1. \A x, y \in C, n \in Object :
              IsCopy(order, src, e, d, x, n) /\ IsCopy(order, src, e, d, y, n) => x = y
        BY CopiesPaired
      <3> QED BY <1>6, <3>1
    <2>3. \A n \in Object : n \in ToSet(list) <=> \E x \in C : new[x] = n
      <3>1. \A n \in Object : n \in ToSet(list) <=>
              \E x \in C : IsCopy(order, src, e, d, x, n)
        BY CopiesPaired
      <3> QED BY <1>6, <2>1, <3>1
    <2>4. \A x \in C : d.value[new[x]] = src.value[x[2]]
      <3>1. \A x \in C, n \in Object :
              IsCopy(order, src, e, d, x, n) => d.value[n] = src.value[x[2]]
        BY CopiesPaired
      <3> QED BY <1>6, <3>1
    <2> QED BY <2>1, <2>2, <2>3, <2>4
  <1>10. \A n \in ToSet(list) : n \in Object /\ n \notin known /\ e.value[n] = None
    BY DEF Copying, CopiesListed
  <1>11. new \in [C -> Object \ known]
    BY <1>6, <1>8, <1>9, <1>10
  <1>12. Store!IsInjective(new)
    BY <1>7, <1>9, StoreSequences DEF IsInjective
  <1>13. ToSet(list) \cap Object = {new[x] : x \in DOMAIN new}
    BY <1>6, <1>7, <1>9
  <1>14. /\ \A i \in 1..m : new[<<order[i], order[i]>>] = top(i)
         /\ \A i \in 1..m : \A j \in 1..Len(ch(i)) : new[<<order[i], ch(i)[j]>>] = tl(i)[j]
    <2>1. \A x \in C, n \in Object : IsCopy(order, src, e, d, x, n) => new[x] = n
      BY <1>9
    <2>2. \A i \in 1..m : new[<<order[i], order[i]>>] = top(i)
      BY <1>3, <1>5, <2>1
    <2>3. ASSUME NEW i \in 1..m, NEW j \in 1..Len(ch(i))
          PROVE  new[<<order[i], ch(i)[j]>>] = tl(i)[j]
      BY <1>4, <1>5, <2>1
    <2> QED BY <2>2, <2>3
  <1> DEFINE tops == [i \in DOMAIN order |-> new[<<order[i], order[i]>>]]
             copied(n) == \E x \in DOMAIN new : new[x] = n
             origin(n) == CHOOSE x \in DOMAIN new : new[x] = n
             value == [n \in Object |-> IF copied(n) THEN src.value[origin(n)[2]]
                                        ELSE e.value[n]]
             copies(x) == [i \in DOMAIN src.children[x[1]] |->
                             new[<<x[1], src.children[x[1]][i]>>]]
             lists == [n \in Node |->
                         IF n = NULL THEN e.children[n] \o tops
                         ELSE IF copied(n) /\ origin(n)[1] = origin(n)[2]
                         THEN copies(origin(n))
                         ELSE e.children[n]]
  <1>15. Store!WithCopies(e, src, order, new) = [value |-> value, children |-> lists]
    BY StoreNames DEF Store!WithCopies
  <1>16. \A n \in Object : copied(n) <=> n \in ToSet(list)
    BY <1>7, <1>9
  <1>17. \A x \in C : origin(new[x]) = x
    BY <1>7, <1>9
  <1> HIDE DEF copied, origin
  <1>18. /\ IsContents(e) /\ IsContents(d)
         /\ e.children \in [Node -> Seq(Object)] /\ d.children \in [Node -> Seq(Object)]
         /\ \A n \in Object : n \notin ToSet(list) =>
              d.value[n] = e.value[n] /\ d.children[n] = e.children[n]
    BY DEF Copying, CopiesListed, Ordered, Sound, IsContents
  <1>19. \A n \in Object : d.value[n] = value[n]
    <2>1. \A n \in Object : n \notin ToSet(list) => d.value[n] = value[n]
      BY <1>16, <1>18
    <2>2. ASSUME NEW n \in Object, n \in ToSet(list) PROVE d.value[n] = value[n]
      <3>1. PICK x \in C : new[x] = n
        BY <1>9, <2>2
      <3> QED BY <1>9, <1>16, <1>17, <2>2, <3>1
    <2> QED BY <2>1, <2>2
  <1> HIDE DEF tops, copies
  <1>20. d.children[NULL] = e.children[NULL] \o tops
    <2>1. /\ tops \in Seq(Object) /\ Len(tops) = m
          /\ \A i \in 1..m : tops[i] = top(i)
      <3>1. tops \in [1..m -> Object]
        BY <1>3, <1>14 DEF tops
      <3>2. tops \in Seq(Object)
        BY <1>3, <3>1, SMTT(30) DEF Seq
      <3>3. \A i \in 1..m : tops[i] = top(i)
        BY <1>3, <1>14 DEF tops
      <3>4. Len(tops) = m
        BY <1>3, <3>1, <3>2, LenProperties
      <3> QED BY <3>2, <3>3, <3>4
    <2>2. e.children[NULL] \in Seq(Object) /\ d.children[NULL] \in Seq(Object)
      BY <1>18, NodeObject
    <2> DEFINE p == Len(e.children[NULL])
    <2>3. /\ e.children[NULL] \o tops \in Seq(Object)
          /\ Len(e.children[NULL] \o tops) = p + m
          /\ \A i \in 1..(p + m) : (e.children[NULL] \o tops)[i] =
               IF i <= p THEN e.children[NULL][i] ELSE tops[i - p]
      <3> HIDE DEF p
      <3>1. \A u, v \in Seq(Object) :
              /\ u \o v \in Seq(Object)
              /\ Len(u \o v) = Len(u) + Len(v)
              /\ \A i \in 1..(Len(u) + Len(v)) : (u \o v)[i] =
                   IF i <= Len(u) THEN u[i] ELSE v[i - Len(u)]
        BY ONLY ConcatProperties
      <3>2. /\ e.children[NULL] \o tops \in Seq(Object)
            /\ Len(e.children[NULL] \o tops) = Len(e.children[NULL]) + Len(tops)
            /\ \A i \in 1..(Len(e.children[NULL]) + Len(tops)) :
                 (e.children[NULL] \o tops)[i] =
                   IF i <= Len(e.children[NULL]) THEN e.children[NULL][i]
                   ELSE tops[i - Len(e.children[NULL])]
        BY Zenon, <2>1, <2>2, <3>1
      <3>3. Len(tops) = m
        BY <2>1
      <3> QED BY Zenon, <3>2, <3>3 DEF p
    <2>4. \A i \in 1..p : d.children[NULL][i] = e.children[NULL][i]
      BY DEF Copying, CopiesMade
    <2>5. ASSUME NEW i \in 1..(p + m)
          PROVE  d.children[NULL][i] = (e.children[NULL] \o tops)[i]
      <3>1. CASE i <= p
        <4>1. i \in 1..p
          BY <1>3, <3>1
        <4> QED BY <2>3, <2>4, <3>1, <4>1
      <3>2. CASE ~(i <= p)
        <4>1. i - p \in 1..m /\ p + (i - p) = i
          BY <1>3, <3>2
        <4>2. tops[i - p] = d.children[NULL][p + (i - p)]
          BY <2>1, <4>1 DEF Top
        <4> QED BY <2>3, <3>2, <4>1, <4>2
      <3> QED BY <3>1, <3>2
    <2> QED BY <1>3, <2>2, <2>3, <2>5, SameList
  <1>21. ASSUME NEW n \in Object PROVE d.children[n] = lists[n]
    <2>1. n \in Node /\ n # NULL
      BY NodeObject
    <2>2. CASE n \notin ToSet(list)
      BY <1>16, <1>18, <2>1, <2>2
    <2>3. CASE \E i \in 1..m : n = top(i)
      <3>1. PICK i \in 1..m : n = top(i)
        BY <2>3
      <3>2. copied(n)
        BY <1>3, <1>16, <3>1
      <3>3. origin(n) = <<order[i], order[i]>>
        BY <1>5, <1>14, <1>17, <3>1
      <3>4. lists[n] = [j \in DOMAIN ch(i) |-> new[<<order[i], ch(i)[j]>>]]
        <4>1. lists[n] = copies(origin(n))
          BY <2>1, <3>2, <3>3
        <4>2. copies(<<order[i], order[i]>>)
                = [j \in DOMAIN ch(i) |-> new[<<order[i], ch(i)[j]>>]]
          BY DEF copies
        <4> QED BY <3>3, <4>1, <4>2
      <3>5. /\ DOMAIN ch(i) = 1..Len(ch(i)) /\ DOMAIN tl(i) = 1..Len(ch(i))
            /\ tl(i) = [j \in DOMAIN tl(i) |-> tl(i)[j]]
        BY <1>3, LenProperties
      <3>6. tl(i) = [j \in DOMAIN ch(i) |-> new[<<order[i], ch(i)[j]>>]]
        BY <1>14, <3>5
      <3> QED BY <3>1, <3>4, <3>6 DEF TopList
    <2>4. CASE \E i \in 1..m : n \in ToSet(tl(i))
      <3>1. PICK i \in 1..m : n \in ToSet(tl(i))
        BY <2>4
      <3>2. PICK j \in 1..Len(ch(i)) : tl(i)[j] = n
        BY <1>3, <3>1, ToSetMeans
      <3>3. origin(n) = <<order[i], ch(i)[j]>>
        <4>1. <<order[i], ch(i)[j]>> \in C /\ new[<<order[i], ch(i)[j]>>] = n
          BY <1>5, <1>14, <3>2
        <4> QED BY <1>17, <4>1
      <3>4. ch(i)[j] # order[i]
        BY <1>4, <3>2
      <3>5. lists[n] = e.children[n]
        BY <2>1, <3>3, <3>4
      <3>6. d.children[n] = <<>>
        BY <1>3, <3>1 DEF Ordered, Sound, TopList
      <3>7. e.value[n] = None
        BY <1>3, <1>10, <3>1
      <3> QED BY <3>5, <3>6, <3>7 DEF Sound
    <2> QED BY <1>3, <2>2, <2>3, <2>4
  <1>22. d.value = value /\ d.children = lists
    <2>1. lists[NULL] = e.children[NULL] \o tops
      BY NodeObject
    <2>2. \A n \in Node : d.children[n] = lists[n]
      <3> HIDE DEF lists
      <3>1. d.children[NULL] = lists[NULL]
        BY <1>20, <2>1
      <3>2. \A n \in Object : d.children[n] = lists[n]
        BY <1>21
      <3> QED BY <3>1, <3>2 DEF Node, Object, NULL
    <2>3. d.children = [n \in Node |-> d.children[n]] /\ lists = [n \in Node |-> lists[n]]
      BY <1>18
    <2>4. d.value = [n \in Object |-> d.value[n]] /\ value = [n \in Object |-> value[n]]
      BY <1>18 DEF IsContents
    <2> QED BY <1>19, <2>2, <2>3, <2>4
  <1>23. d = Store!WithCopies(e, src, order, new)
    BY <1>15, <1>18, <1>22 DEF IsContents
  <1> QED BY <1>1, <1>2, <1>11, <1>12, <1>13, <1>23

-----------------------------------------------------------------------------
(* Entering the loops *)

\* Nothing has been changed yet, and the revision is no longer looked at.
LEMMA Entered ==
  ASSUME RefcountInv, RefcountInv', RowsOK, NEW dst \in Rev, call = Idle,
         NEW pc, NEW src, NEW multi, NEW work, NEW list,
         Enter(pc, dst, src, multi, work, list)
  PROVE  /\ UNCHANGED Store!vars /\ handles' = handles
         /\ call' = [pc |-> pc, dst |-> dst, src |-> src, multi |-> multi,
                     work |-> work, list |-> list]
         /\ entry' = Contents(dst) /\ Contents(dst)' = Contents(dst)
         /\ Ordered(Contents(dst))
         /\ \A s \in Rev : VisibleContents'[s] = Contents(s)
  <1>1. /\ call' = [pc |-> pc, dst |-> dst, src |-> src, multi |-> multi,
                    work |-> work, list |-> list]
        /\ entry' = Contents(dst)
        /\ UNCHANGED <<live, is_transient, obstates, children, cell, handles>>
    BY DEF Enter, revVars, heapVars
  <1>2. MemoryKept
    BY <1>1 DEF MemoryKept
  <1>3. \A s \in Rev : Contents(s)' = Contents(s)
    BY <1>1, <1>2, ContentsKept
  <1>4. \A s \in Rev : s # call.dst
    BY StorageAssumption DEF Idle
  <1>5. /\ VisibleContents = [s \in Rev |-> Contents(s)]
        /\ VisibleContents' = [s \in Rev |-> Contents(s)]
    <2>1. VisibleContents = [s \in Rev |-> Contents(s)]
      BY <1>4 DEF VisibleContents
    <2>2. call'.dst = dst
      BY <1>1
    <2>3. VisibleContents' = [s \in Rev |-> IF s = dst THEN Contents(dst) ELSE Contents(s)']
      BY <1>1, <2>2 DEF VisibleContents
    <2> QED BY <1>3, <2>1, <2>3
  <1>6. Ordered(Contents(dst))
    BY ContentsOrdered DEF RowsOK
  <1> QED BY <1>1, <1>3, <1>5, <1>6 DEF Store!vars

LEMMA DeleteSelectedEnters ==
  ASSUME RefcountInv, RefcountInv', RowsOK, NEW r \in Rev, NEW sel \in SUBSET handles,
         xorn_delete_selected_objects(r, sel)
  PROVE  UNCHANGED Store!vars /\ LoopInv'
  <1>1. call = Idle
    BY DEF xorn_delete_selected_objects, Callable
  <1>2. PICK s : ToSet(s) = sel /\ Enter("deleting", r, None, FALSE, <<>>, s)
    BY DEF xorn_delete_selected_objects, Ascending
  <1>3. /\ UNCHANGED Store!vars /\ handles' = handles
        /\ call' = [pc |-> "deleting", dst |-> r, src |-> None, multi |-> FALSE,
                    work |-> <<>>, list |-> s]
        /\ entry' = Contents(r) /\ Contents(r)' = Contents(r)
        /\ Ordered(Contents(r))
    BY <1>1, <1>2, Entered
  <1>4. Deleting(Contents(r), Contents(r), s, handles)
    BY <1>2 DEF Deleting
  <1>5. call'.pc = "deleting" /\ call'.dst = r /\ call'.list = s
    BY <1>3
  <1> QED BY <1>3, <1>4, <1>5 DEF LoopInv

LEMMA CopyingEnters ==
  ASSUME RefcountInv, RefcountInv', RowsOK, NEW r \in Rev, NEW src \in Rev, call = Idle,
         NEW order \in Seq(Object),
         \A i, j \in 1..Len(order) : order[i] = order[j] => i = j,
         \A i \in 1..Len(order) : order[i] \in handles /\ Exists(src, order[i]),
         NEW multi, NEW work \in Seq(Object \X Node), Len(work) = Len(order),
         \A i \in 1..Len(order) : work[i] = <<order[i], NULL>>,
         Enter("copying", r, src, multi, work, <<>>)
  PROVE  UNCHANGED Store!vars /\ LoopInv'
  <1>1. /\ UNCHANGED Store!vars /\ handles' = handles
        /\ call' = [pc |-> "copying", dst |-> r, src |-> src, multi |-> multi,
                    work |-> work, list |-> <<>>]
        /\ entry' = Contents(r) /\ Contents(r)' = Contents(r)
        /\ Ordered(Contents(r))
        /\ VisibleContents'[src] = Contents(src)
    BY Entered
  <1>2. /\ call'.pc = "copying" /\ call'.dst = r /\ call'.src = src
        /\ call'.work = work /\ call'.list = <<>>
    BY <1>1
  <1>3. Plan(order, Contents(src), handles)
    <2>1. \A i \in 1..Len(order) : Contents(src).value[order[i]] # None
      <3>1. \A i \in 1..Len(order) : order[i] \in Object
        BY ElementOfSeq
      <3>2. \A ob \in Object : Contents(src).value[ob] = ValueOf(src, ob)
        BY ContentsAre DEF RefcountInv
      <3> QED BY <3>1, <3>2, ValueFacts
    <2> QED BY <2>1 DEF Plan
  <1>4. Copying(order, Contents(src), Contents(r), Contents(r), <<>>, work, handles)
    BY <1>1, <1>3, CopyingStarts DEF Ordered
  <1> QED BY <1>1, <1>2, <1>4 DEF LoopInv

LEMMA CopyObjectEnters ==
  ASSUME RefcountInv, RefcountInv', RowsOK, NEW r \in Rev, NEW src \in Rev,
         NEW ob \in handles, xorn_copy_object(r, src, ob)
  PROVE  UNCHANGED Store!vars /\ LoopInv'
  <1>1. /\ call = Idle /\ Exists(src, ob)
        /\ Enter("copying", r, src, FALSE, <<<<ob, NULL>>>>, <<>>)
    BY DEF xorn_copy_object, Callable
  <1>2. ob \in Object
    BY HandedOut DEF RefcountInv
  <1>3. /\ <<ob>> \in Seq(Object) /\ Len(<<ob>>) = 1 /\ <<ob>>[1] = ob
        /\ <<<<ob, NULL>>>> \in Seq(Object \X Node) /\ Len(<<<<ob, NULL>>>>) = 1
        /\ <<<<ob, NULL>>>>[1] = <<ob, NULL>>
    BY <1>2, NodeObject
  <1>4. \A i \in 1..1 : i = 1
    OBVIOUS
  <1>5. PICK order : order = <<ob>>
    OBVIOUS
  <1>6. PICK work : work = <<<<ob, NULL>>>>
    OBVIOUS
  <1>7. /\ order \in Seq(Object) /\ Len(order) = 1 /\ order[1] = ob
        /\ work \in Seq(Object \X Node) /\ Len(work) = 1 /\ work[1] = <<ob, NULL>>
        /\ Enter("copying", r, src, FALSE, work, <<>>)
    BY <1>1, <1>3, <1>5, <1>6
  <1>8. /\ \A i, j \in 1..Len(order) : order[i] = order[j] => i = j
        /\ \A i \in 1..Len(order) : order[i] \in handles /\ Exists(src, order[i])
        /\ \A i \in 1..Len(order) : work[i] = <<order[i], NULL>>
    BY <1>1, <1>4, <1>7
  <1> QED BY <1>1, <1>7, <1>8, CopyingEnters

LEMMA CopyObjectsEnters ==
  ASSUME RefcountInv, RefcountInv', RowsOK, NEW r \in Rev, NEW src \in Rev,
         NEW sel \in SUBSET handles, xorn_copy_objects(r, src, sel)
  PROVE  UNCHANGED Store!vars /\ LoopInv'
  <1> DEFINE found == {ob \in sel : Exists(src, ob)}
             n == Cardinality(found)
  <1>1. sel \in SUBSET Object
    BY HandedOut DEF RefcountInv
  <1>2. n \in Nat
    BY <1>1, ObjectFinite, FS_Subset, FS_CardinalityType
  <1>3. PICK s \in [1..n -> found] :
          /\ \A i, j \in DOMAIN s : i < j => s[i] < s[j]
          /\ Enter("copying", r, src, TRUE, [i \in DOMAIN s |-> <<s[i], NULL>>], <<>>)
    BY DEF xorn_copy_objects, Ascending
  <1>4. \A x \in found : x \in Object /\ x \in handles /\ Exists(src, x)
    BY <1>1
  <1> HIDE DEF found, n
  <1>5. s \in Seq(Object) /\ DOMAIN s = 1..n /\ Len(s) = n
    <2>1. s \in [1..n -> Object]
      BY <1>4
    <2>2. s \in Seq(Object) /\ DOMAIN s = 1..n
      BY <1>2, <2>1, FunctionIsSeq
    <2> QED BY <1>2, <2>2, LenProperties
  <1> DEFINE work == [i \in DOMAIN s |-> <<s[i], NULL>>]
  <1>6. work \in Seq(Object \X Node) /\ Len(work) = n /\ \A i \in 1..n : work[i] = <<s[i], NULL>>
    <2>1. work \in [1..n -> Object \X Node]
      BY <1>4, <1>5, NodeObject
    <2>2. work \in Seq(Object \X Node) /\ DOMAIN work = 1..n
      BY <1>2, <2>1, FunctionIsSeq
    <2>3. \A i \in 1..n : work[i] = <<s[i], NULL>>
      BY <1>5
    <2> HIDE DEF work
    <2>4. Len(work) = n
      <3>1. Len(work) \in Nat /\ 1..n = 1..Len(work)
        BY <2>2, LenProperties
      <3> QED BY <1>2, <3>1
    <2> QED BY <2>2, <2>3, <2>4
  <1>7. Enter("copying", r, src, TRUE, work, <<>>)
    BY <1>3
  <1> HIDE DEF work
  <1>8. \A i, j \in 1..n : s[i] = s[j] => i = j
    <2>1. \A i \in 1..n : s[i] \in Nat
      BY <1>4, NodeObject
    <2>2. ASSUME NEW i \in 1..n, NEW j \in 1..n, s[i] = s[j] PROVE i = j
      <3>1. ~(i < j) /\ ~(j < i)
        BY <1>3, <1>5, <2>1, <2>2
      <3> QED BY <1>2, <3>1
    <2> QED BY <2>2
  <1>9. \A i \in 1..Len(s) : s[i] \in handles /\ Exists(src, s[i])
    BY <1>4, <1>5
  <1>10. call = Idle
    BY DEF xorn_copy_objects, Callable
  <1> QED BY <1>5, <1>6, <1>7, <1>8, <1>9, <1>10, CopyingEnters

-----------------------------------------------------------------------------
(* The steps of the loops, and returning *)

\* What is copied exists in the source, and isn't a copy itself.
LEMMA WorkFromSource ==
  ASSUME NEW order, NEW src, Ordered(src), NEW e, Sound(e), NEW d, Ordered(d),
         NEW list \in Seq(Object), NEW work \in Seq(Object \X Node), NEW known,
         Copying(order, src, e, d, list, work, known), work # <<>>,
         NEW ob \in Object, NEW to \in Node, Head(work) = <<ob, to>>
  PROVE  src.value[ob] # None
  <1> DEFINE m == Made(e, d)
             k == Left(order, src, e, d)
             from == src.children[order[m]]
  <1>1. /\ Len(order) \in Nat /\ m \in Nat /\ k \in Nat /\ m <= Len(order)
        /\ k # 0 => m # 0
    <2>1. Len(order) \in Nat /\ m \in Nat /\ k \in Nat
      BY CopyingNumbers
    <2>2. m <= Len(order)
      BY CopyingNumbers
    <2>3. k # 0 => m # 0
      BY DEF Left
    <2> QED BY <2>1, <2>2, <2>3
  <1>6. \A i \in 1..Len(order) : src.value[order[i]] # None
    BY DEF Copying, Plan
  <1>2. /\ Len(work) = k + (Len(order) - m)
        /\ \A i \in 1..k : work[i] = <<from[Len(TopList(e, d, m)) + i], Top(e, d, m)>>
        /\ \A i \in 1..(Len(order) - m) : work[k + i] = <<order[m + i], NULL>>
    BY DEF Copying, WorkLeft
  <1>3. work[1] = <<ob, to>> /\ Len(work) # 0 /\ Len(work) \in Nat
    BY HeadAndTail
  <1>4. CASE k = 0
    <2>1. 1 \in 1..(Len(order) - m) /\ m + 1 \in 1..Len(order) /\ k + 1 = 1
      BY <1>1, <1>2, <1>3, <1>4
    <2>2. work[1] = <<order[m + 1], NULL>>
      BY <1>2, <2>1
    <2>3. ob = order[m + 1]
      BY <1>3, <2>2
    <2> QED BY <1>6, <2>1, <2>3
  <1>5. CASE k # 0
    <2>1. m \in 1..m /\ m \in 1..Len(order) /\ 1 \in 1..k
      BY <1>1, <1>5
    <2>2. /\ Len(TopList(e, d, m)) \in Nat /\ from \in Seq(Object) /\ Len(from) \in Nat
          /\ order[m] \in Object
      BY <2>1, CopyingNumbers
    <2>3. ob = from[Len(TopList(e, d, m)) + 1]
      BY <1>2, <1>3, <2>1
    <2>4. k = Len(from) - Len(TopList(e, d, m))
      BY <1>1, <1>5 DEF Left
    <2>5. Len(TopList(e, d, m)) + 1 \in 1..Len(from)
      BY <1>1, <1>5, <2>2, <2>4
    <2>6. ob \in ToSet(from)
      BY <2>2, <2>3, <2>5, ToSetMeans
    <2> QED BY <2>2, <2>6, NodeObject DEF Ordered, Sound
  <1> QED BY <1>4, <1>5

\* What a loop finds: the revision it works on, what has been listed so far, and
\* what the revision it copies from is seen to hold.
LEMMA LoopFacts ==
  ASSUME RefcountInv, RowsOK, LoopInv, call.pc # "idle"
  PROVE  /\ call \in CallRecord /\ call.dst \in Rev /\ call.dst \in live
         /\ is_transient[call.dst] /\ call.list \in Seq(Object)
         /\ call.work \in Seq(Object \X Node)
         /\ Ordered(entry) /\ Ordered(Contents(call.dst))
         /\ VisibleContents[call.dst] = entry
         /\ call.pc = "copying" =>
              /\ call.src \in live /\ call.src \in Rev
              /\ VisibleContents[call.src] = IF call.src = call.dst THEN entry
                                             ELSE Contents(call.src)
              /\ Ordered(VisibleContents[call.src])
  <1>1. /\ call \in CallRecord /\ call.dst \in Rev /\ call.dst \in live
        /\ is_transient[call.dst] /\ call.list \in Seq(Object)
        /\ call.work \in Seq(Object \X Node)
        /\ call.pc = "copying" => call.src \in live /\ call.src \in Rev
    BY DEF RefcountInv, TypeOK, CallRecord
  <1>2. \A r \in Rev : Ordered(Contents(r))
    BY ContentsOrdered DEF RowsOK
  <1>3. Ordered(entry)
    BY DEF LoopInv
  <1>4. \A r \in Rev : VisibleContents[r] = IF r = call.dst THEN entry ELSE Contents(r)
    BY DEF VisibleContents
  <1> QED BY <1>1, <1>2, <1>3, <1>4

LEMMA DeleteNextLoop ==
  ASSUME RefcountInv, RefcountInv', RowsOK, LoopInv, DeleteNext
  PROVE  UNCHANGED Store!vars /\ LoopInv'
  <1>1. /\ call.pc = "deleting" /\ call.list # <<>>
        /\ call' = [call EXCEPT !.list = Tail(@)]
        /\ UNCHANGED <<live, is_transient, handles, entry>>
    BY DEF DeleteNext
  <1>2. /\ call \in CallRecord /\ call.dst \in Rev /\ call.list \in Seq(Object)
        /\ Ordered(entry) /\ Ordered(Contents(call.dst))
    BY <1>1, LoopFacts
  <1>3. PICK r \in Rev, list \in Seq(Object) : r = call.dst /\ list = call.list /\ list # <<>>
    BY <1>1, <1>2
  <1>4. PICK ob \in Object : ob = Head(list)
    BY <1>3, HeadAndTail
  <1>5. /\ Contents(r)' = Store!Deleted(Contents(r), {ob}) /\ MemoryKept
        /\ \A s \in Rev : s # r => obstates'[s] = obstates[s] /\ children'[s] = children[s]
    <2>1. CASE parent[r][ob] # Absent
      <3>1. DeleteFrom(r, ob)
        BY <1>3, <1>4, <2>1 DEF DeleteNext
      <3> QED BY <2>1, <3>1, DeleteFromContents
    <2>2. CASE parent[r][ob] = Absent
      <3>1. UNCHANGED <<obstates, children, cell>>
        BY <1>3, <1>4, <2>2 DEF DeleteNext, heapVars
      <3>2. MemoryKept
        BY <3>1 DEF MemoryKept
      <3>3. Contents(r)' = Contents(r)
        BY <3>1, <3>2, ContentsKept
      <3>4. Contents(r).value[ob] = None
        <4>1. obstates[r][ob] = None
          BY <2>2 DEF RowsOK, RowOK, Forest
        <4>2. Contents(r).value[ob] = ValueOf(r, ob)
          BY ContentsAre DEF RefcountInv
        <4> QED BY <4>1, <4>2 DEF ValueOf, Exists
      <3>5. Store!Deleted(Contents(r), {ob}) = Contents(r)
        BY <1>2, <1>3, <3>4, DeletedAbsent DEF Ordered
      <3> QED BY <3>1, <3>2, <3>3, <3>5
    <2> QED BY <2>1, <2>2
  <1>6. call'.pc = "deleting" /\ call'.dst = r /\ call'.list = Tail(list)
    BY <1>1, <1>2, <1>3 DEF CallRecord
  <1>7. VisibleContents' = VisibleContents
    BY <1>1, <1>3, <1>5, <1>6, NothingChanges
  <1>8. Deleting(entry, Contents(r), list, handles)
    BY <1>1, <1>3 DEF LoopInv
  <1>9. Deleting(entry, Contents(r)', Tail(list), handles)
    BY <1>2, <1>3, <1>4, <1>5, <1>8, DeletingStep DEF Ordered
  <1>10. LoopInv'
    BY <1>1, <1>2, <1>6, <1>9 DEF LoopInv
  <1> QED BY <1>1, <1>7, <1>10 DEF Store!vars

\* When a loop returns, the revision can be looked at again.
LEMMA Returned ==
  ASSUME RefcountInv, RefcountInv', call' = Idle,
         UNCHANGED <<obstates, children, cell>>
  PROVE  VisibleContents' = [VisibleContents EXCEPT ![call.dst] = Contents(call.dst)]
  <1>1. MemoryKept
    BY DEF MemoryKept
  <1>2. \A s \in Rev : Contents(s)' = Contents(s)
    BY <1>1, ContentsKept
  <1>3. \A s \in Rev : s # call'.dst
    BY StorageAssumption DEF Idle
  <1>4. VisibleContents' = [s \in Rev |-> Contents(s)]
    <2>1. VisibleContents' = [s \in Rev |-> IF s = call'.dst THEN entry' ELSE Contents(s)']
      BY DEF VisibleContents
    <2> QED BY <1>2, <1>3, <2>1
  <1>5. VisibleContents = [s \in Rev |-> IF s = call.dst THEN entry ELSE Contents(s)]
    BY DEF VisibleContents
  <1> QED BY <1>4, <1>5

LEMMA DeleteReturnsStore ==
  ASSUME RefcountInv, RefcountInv', RowsOK, LoopInv, DeleteReturns
  PROVE  Store!Next /\ LoopInv'
  <1>1. /\ call.pc = "deleting" /\ call.list = <<>> /\ call' = Idle
        /\ UNCHANGED <<live, is_transient, obstates, children, cell, handles>>
    BY DEF DeleteReturns, Return, revVars, heapVars
  <1>2. /\ call.dst \in Rev /\ call.dst \in live /\ is_transient[call.dst]
        /\ Ordered(entry) /\ Ordered(Contents(call.dst))
        /\ VisibleContents[call.dst] = entry
    BY <1>1, LoopFacts
  <1>3. PICK S \in SUBSET handles :
          Store!Deleted(Contents(call.dst), ToSet(<<>>)) = Store!Deleted(entry, S)
    BY <1>1 DEF LoopInv, Deleting
  <1>4. Contents(call.dst) = Store!Deleted(entry, S)
    BY <1>2, <1>3, EmptySet, DeletedNone DEF Ordered, Sound
  <1>5. VisibleContents' = [VisibleContents EXCEPT ![call.dst] = Contents(call.dst)]
    BY <1>1, Returned
  <1>6. Store!Delete(call.dst, S)
    BY <1>1, <1>2, <1>4, <1>5 DEF Store!Delete, Store!Becomes
  <1>7. LoopInv'
    BY <1>1 DEF LoopInv, Idle
  <1> QED BY <1>2, <1>6, <1>7 DEF Store!Next

LEMMA CopyReturnsStore ==
  ASSUME RefcountInv, RefcountInv', RowsOK, LoopInv, CopyReturns
  PROVE  Store!Next /\ LoopInv'
  <1>1. /\ call.pc = "copying" /\ call.work = <<>> /\ call' = Idle
        /\ handles' = handles \cup ToSet(call.list)
        /\ UNCHANGED <<live, is_transient, obstates, children, cell>>
    BY DEF CopyReturns, Return, revVars, heapVars
  <1> DEFINE src == VisibleContents[call.src]
  <1>2. /\ call.dst \in Rev /\ call.dst \in live /\ is_transient[call.dst]
        /\ call.src \in live /\ call.src \in Rev /\ Ordered(src)
        /\ Ordered(entry) /\ Sound(entry) /\ Ordered(Contents(call.dst))
        /\ VisibleContents[call.dst] = entry /\ call.list \in Seq(Object)
    BY <1>1, LoopFacts DEF Ordered
  <1>3. PICK order \in Seq(Object) :
          Copying(order, src, entry, Contents(call.dst), call.list, <<>>, handles)
    BY <1>1 DEF LoopInv
  <1> DEFINE S == ToSet(order)
             found == {ob \in S : Store!Exists(src, ob)}
  <1>4. /\ S \subseteq handles /\ found = S /\ order \in Store!SetToSeqs(S)
        /\ \E new \in [Store!Copies(src, S) -> Object \ handles] :
             /\ Store!IsInjective(new)
             /\ Contents(call.dst) = Store!WithCopies(entry, src, order, new)
             /\ ToSet(call.list) \cap Object = {new[x] : x \in DOMAIN new}
    <2>1. PICK c, e, d, list, known :
            /\ c = src /\ e = entry /\ d = Contents(call.dst)
            /\ list = call.list /\ known = handles
      OBVIOUS
    <2>2. /\ Ordered(c) /\ Sound(e) /\ Ordered(d)
          /\ Copying(order, c, e, d, list, <<>>, known)
      BY <1>2, <1>3, <2>1
    <2>3. S \subseteq known /\ {ob \in S : Store!Exists(c, ob)} = S
          /\ order \in Store!SetToSeqs(S)
      BY <2>2, CopyingEnds
    <2>4. \E new \in [Store!Copies(c, S) -> Object \ known] :
            /\ Store!IsInjective(new)
            /\ d = Store!WithCopies(e, c, order, new)
            /\ ToSet(list) \cap Object = {new[x] : x \in DOMAIN new}
      BY <2>2, CopyingEnds
    <2> QED BY <2>1, <2>3, <2>4
  <1> HIDE DEF src, S, found
  <1>5. PICK new \in [Store!Copies(src, found) -> Object \ handles] :
          /\ Store!IsInjective(new)
          /\ Contents(call.dst) = Store!WithCopies(entry, src, order, new)
          /\ ToSet(call.list) \cap Object = {new[x] : x \in DOMAIN new}
    BY <1>4
  <1>6. ToSet(call.list) \cap Object = ToSet(call.list)
    BY <1>2, ToSetMeans
  <1>7. VisibleContents' = [VisibleContents EXCEPT ![call.dst] = Contents(call.dst)]
    BY <1>1, Returned
  <1>8. Store!Becomes(call.dst, Store!WithCopies(VisibleContents[call.dst], src, order, new))
    BY <1>1, <1>2, <1>5, <1>7 DEF Store!Becomes
  <1>9. handles' = handles \cup {new[x] : x \in DOMAIN new}
    BY <1>1, <1>5, <1>6
  <1>10. Store!CopyObjects(call.dst, call.src, S)
    BY <1>2, <1>4, <1>5, <1>8, <1>9, StoreNames DEF Store!CopyObjects, src, found
  <1>11. LoopInv'
    BY <1>1 DEF LoopInv, Idle
  <1> QED BY <1>2, <1>4, <1>10, <1>11 DEF Store!Next

\* A copy which has failed is being undone; nothing has changed yet.
LEMMA UndoLoop ==
  ASSUME RefcountInv, RefcountInv', RowsOK, LoopInv, call.pc = "copying", Undo,
         UNCHANGED <<live, is_transient, obstates, children, cell, handles, entry>>
  PROVE  UNCHANGED Store!vars /\ LoopInv'
  <1>1. /\ call \in CallRecord /\ call.dst \in Rev
        /\ Ordered(entry) /\ Sound(entry) /\ Ordered(Contents(call.dst))
        /\ call.list \in Seq(Object)
    BY LoopFacts DEF Ordered
  <1>2. call'.pc = "deleting" /\ call'.dst = call.dst /\ call'.list = call.list
    BY <1>1 DEF Undo, CallRecord
  <1>3. MemoryKept
    BY DEF MemoryKept
  <1>4. VisibleContents' = VisibleContents
    BY <1>2, <1>3, NothingChanges
  <1>5. PICK order \in Seq(Object) :
          Copying(order, VisibleContents[call.src], entry, Contents(call.dst), call.list,
                  call.work, handles)
    BY DEF LoopInv
  <1>6. Deleting(entry, Contents(call.dst), call.list, handles)
    BY <1>1, <1>5, UndoDeletes
  <1>7. Contents(call.dst)' = Contents(call.dst)
    <2>1. \A r \in Rev : Contents(r)' = Contents(r)
      BY <1>3, ContentsKept
    <2>2. PICK r \in Rev : r = call.dst
      BY <1>1
    <2>3. Contents(r)' = Contents(r) /\ r = call'.dst
      BY <1>2, <2>1, <2>2
    <2> QED BY <2>2, <2>3
  <1>8. LoopInv'
    BY <1>1, <1>2, <1>6, <1>7 DEF LoopInv
  <1> QED BY <1>4, <1>8 DEF Store!vars

LEMMA CopyObjectLoop ==
  ASSUME RefcountInv, RefcountInv', RowsOK, CopyTargets, LoopInv, copy_object
  PROVE  UNCHANGED Store!vars /\ LoopInv'
  <1>1. /\ call.pc = "copying" /\ call.work # <<>> /\ next_object_id < MaxObject
        /\ UNCHANGED <<live, is_transient, cell, handles, entry>>
    BY DEF copy_object
  <1>2. PICK dst \in Rev, src \in Rev, ob \in Object, copy \in Object, to \in Node :
           /\ dst = call.dst /\ src = call.src /\ copy = next_object_id + 1
           /\ ob = Head(call.work)[1] /\ to = Head(call.work)[2]
           /\ CanCopy(src, dst, ob, to)
           /\ obstates[src][ob] \in Addr
           /\ obstates[dst][copy] = None /\ parent[dst][copy] = Absent
           /\ to # copy
    BY <1>1, CopyCall
  <1>3. PICK state \in Addr : state = obstates[src][ob]
    BY SMTT(30), <1>2
  <1>4. PICK list, work : list = call.list /\ work = call.work
    OBVIOUS
  <1>5. /\ children' = [children EXCEPT ![dst][to] = Append(@, copy)]
        /\ obstates' = [obstates EXCEPT ![dst][copy] = state]
        /\ call' = [call EXCEPT !.work = Attached(src, ob, copy) \o Tail(@),
                                !.list = Append(@, copy)]
    BY <1>2, <1>3 DEF copy_object
  <1>6. /\ call \in CallRecord /\ list \in Seq(Object) /\ work \in Seq(Object \X Node)
        /\ Ordered(entry) /\ Sound(entry) /\ Ordered(Contents(dst))
        /\ VisibleContents[src] = IF src = dst THEN entry ELSE Contents(src)
        /\ Ordered(VisibleContents[src])
    BY <1>1, <1>2, <1>4, LoopFacts DEF Ordered
  <1>7. MemoryKept
    BY <1>1 DEF MemoryKept
  <1>8. /\ \A s \in Rev : s # dst => obstates'[s] = obstates[s] /\ children'[s] = children[s]
        /\ \A x \in Object :
             obstates'[dst][x] = IF x = copy THEN obstates[src][ob] ELSE obstates[dst][x]
        /\ children'[dst] = [children[dst] EXCEPT ![to] = Append(@, copy)]
    <2>1. /\ obstates \in [Rev -> [Object -> Addr \cup {None}]]
          /\ children \in [Rev -> [Node -> Seq(Object)]]
      BY DEF RefcountInv, TypeOK
    <2> QED BY <1>3, <1>5, <2>1
  <1>9. /\ call'.pc = "copying" /\ call'.dst = dst /\ call'.src = src
        /\ call'.work = Attached(src, ob, copy) \o Tail(work)
        /\ call'.list = Append(list, copy)
    BY <1>1, <1>2, <1>4, <1>5, <1>6 DEF CallRecord
  <1>10. VisibleContents' = VisibleContents
    BY <1>1, <1>2, <1>7, <1>8, <1>9, NothingChanges
  <1>11. PICK c, e, d : c = VisibleContents[src] /\ e = entry /\ d = Contents(dst)
    OBVIOUS
  <1>12. PICK known : known = handles
    OBVIOUS
  <1>13. PICK order \in Seq(Object) : Copying(order, c, e, d, list, work, known)
    BY <1>1, <1>2, <1>4, <1>11, <1>12 DEF LoopInv
  <1>14. work # <<>> /\ Head(work) = <<ob, to>>
    <2>1. work # <<>> /\ Head(work)[1] = ob /\ Head(work)[2] = to
      BY <1>1, <1>2, <1>4
    <2>2. Head(work) \in Object \X Node
      BY <1>6, <2>1, HeadTailProperties
    <2> QED BY <2>1, <2>2
  <1>15. /\ \A x \in Object : d.value[x] = ValueOf(dst, x)
         /\ d.children = children[dst]
    BY <1>11, ContentsAre DEF RefcountInv
  <1>16. copy \notin ToSet(list) /\ copy \notin known /\ d.value[copy] = None
    <2>1. ToSet(list) \subseteq 1..next_object_id /\ next_object_id \in Int
      BY <1>4, HandedOut DEF RefcountInv, TypeOK
    <2>2. \A x \in known : x <= next_object_id
      BY <1>12, HandedOut DEF RefcountInv
    <2>3. d.value[copy] = None
      BY <1>2, <1>15 DEF ValueOf, Exists
    <2> QED BY <1>2, <2>1, <2>2, <2>3
  <1>17. c.value[ob] = ValueOf(src, ob) /\ c.children[ob] = children[src][ob]
    <2>1. CASE src # dst
      <3>1. c = Contents(src)
        BY <1>6, <1>11, <2>1
      <3> QED BY <3>1, ContentsAre DEF RefcountInv
    <2>2. CASE src = dst
      <3>1. c = e
        BY <1>6, <1>11, <2>2
      <3>2. c.value[ob] # None
        BY <1>6, <1>11, <1>13, <1>14, WorkFromSource
      <3>3. ob \notin ToSet(list)
        BY <1>13, <3>1, <3>2 DEF Copying, CopiesListed
      <3>4. d.value[ob] = e.value[ob] /\ d.children[ob] = e.children[ob]
        BY <1>13, <3>3 DEF Copying, CopiesListed
      <3> QED BY <1>15, <2>2, <3>1, <3>4
    <2> QED BY <2>1, <2>2
  <1>18. Contents(dst)' = Grown(d, to, copy, c.value[ob])
    <2>1. ValueOf(dst, copy)' = ValueOf(src, ob)
      BY <1>7, <1>8, ValueKept
    <2>2. \A x \in Object : x # copy => ValueOf(dst, x)' = ValueOf(dst, x)
      BY <1>7, <1>8, ValueKept
    <2>3. IsContents(d)
      BY <1>11, ContentsAre DEF RefcountInv
    <2>4. [x \in Object |-> ValueOf(dst, x)]' = [d.value EXCEPT ![copy] = c.value[ob]]
      BY <1>15, <1>17, <2>1, <2>2, <2>3 DEF IsContents
    <2>5. Contents(dst)' = [value |-> [x \in Object |-> ValueOf(dst, x)]',
                            children |-> children'[dst]]
      BY DEF Contents
    <2> QED BY <1>8, <1>15, <2>4, <2>5 DEF Grown
  <1> DEFINE more == Attached(src, ob, copy)
  <1>19. /\ c.children[ob] \in Seq(Object) /\ Len(c.children[ob]) \in Nat
         /\ DOMAIN c.children[ob] = 1..Len(c.children[ob])
         /\ \A i \in 1..Len(c.children[ob]) : c.children[ob][i] \in Object
    <2>1. c.children[ob] \in Seq(Object)
      BY <1>6, <1>11, NodeObject DEF Ordered, Sound, IsContents
    <2> QED BY <2>1, LenProperties, ElementOfSeq
  <1>20. /\ more \in Seq(Object \X Node) /\ Len(more) = Len(c.children[ob])
         /\ \A i \in 1..Len(c.children[ob]) : more[i] = <<c.children[ob][i], copy>>
    <2>1. more = [i \in DOMAIN c.children[ob] |-> <<c.children[ob][i], copy>>]
      BY <1>17 DEF Attached
    <2>2. more \in [1..Len(c.children[ob]) -> Object \X Node]
      BY <1>19, <2>1, NodeObject
    <2>3. more \in Seq(Object \X Node) /\ DOMAIN more = 1..Len(c.children[ob])
      BY <1>19, <2>2, FunctionIsSeq
    <2>4. \A i \in 1..Len(c.children[ob]) : more[i] = <<c.children[ob][i], copy>>
      BY <1>19, <2>1
    <2> HIDE DEF more
    <2>5. Len(more) = Len(c.children[ob])
      <3>1. Len(more) \in Nat /\ 1..Len(c.children[ob]) = 1..Len(more)
        BY <2>3, LenProperties
      <3> QED BY <1>19, <3>1
    <2> QED BY <2>3, <2>4, <2>5
  <1> HIDE DEF more
  <1>21. Copying(order, c, e, Grown(d, to, copy, c.value[ob]), Append(list, copy),
                 more \o Tail(work), known)
    <2>1. Ordered(c) /\ Sound(e) /\ Ordered(d)
      BY <1>6, <1>11
    <2>2. CASE to = NULL
      BY <1>6, <1>13, <1>14, <1>16, <1>20, <2>1, <2>2, CopyingTop
    <2>3. CASE to # NULL
      <3>1. to \in Object
        BY <2>3 DEF Node, Object, NULL
      <3>2. /\ c.children[ob] = <<>>
            /\ Copying(order, c, e, Grown(d, to, copy, c.value[ob]), Append(list, copy),
                       Tail(work), known)
        BY <1>6, <1>13, <1>14, <1>16, <2>1, <3>1, CopyingAttached
      <3>3. more \o Tail(work) = Tail(work)
        <4>1. Len(more) = 0
          BY <1>20, <3>2, EmptySet
        <4>2. more = <<>>
          BY <1>20, <4>1, EmptySeq
        <4>3. Tail(work) \in Seq(Object \X Node)
          BY <1>6, <1>14, HeadTailProperties
        <4> QED BY <4>2, <4>3, ConcatEmptySeq
      <3> QED BY <3>2, <3>3
    <2> QED BY <2>2, <2>3
  <1>22. LoopInv'
    BY <1>1, <1>6, <1>9, <1>10, <1>11, <1>12, <1>18, <1>21 DEF LoopInv, more
  <1> QED BY <1>1, <1>10, <1>22 DEF Store!vars

-----------------------------------------------------------------------------
(* Every step *)

LEMMA IdleLoop == ASSUME call' = Idle PROVE LoopInv'
  <1>1. call'.pc = "idle"
    BY DEF Idle
  <1> QED BY <1>1 DEF LoopInv

LEMMA ObjectCallStore ==
  ASSUME RefcountInv, RefcountInv', RowsOK, LoopInv, ObjectCall
  PROVE  /\ Store!Next \/ UNCHANGED Store!vars
         /\ LoopInv'
  <1>1. /\ \A ob \in handles : ob \in Object
        /\ \A sel \in SUBSET handles : sel \in SUBSET Object
        /\ \A n \in handles \cup {NULL} : n \in Node
    BY HandedOut, NodeObject DEF RefcountInv
  <1>2. PICK s \in Rev :
    \/ \E v \in Value : xorn_add_object(s, v)
    \/ \E stage \in 1..3 : AddObjectFails(s, stage)
    \/ \E ob \in handles, v \in Value : xorn_set_object_data(s, ob, v)
    \/ \E ob \in handles, stage \in 1..3 : SetObjectDataFails(s, ob, stage)
    \/ \E ob \in handles, to \in handles \cup {NULL}, before \in handles \cup {NULL} :
         xorn_relocate_object(s, ob, to, before)
    \/ \E ob \in handles : xorn_delete_object(s, ob)
    \/ \E sel \in SUBSET handles : xorn_delete_selected_objects(s, sel)
    \/ \E src \in Rev, ob \in handles : xorn_copy_object(s, src, ob)
    \/ \E src \in Rev, sel \in SUBSET handles : xorn_copy_objects(s, src, sel)
    \/ \E sel \in SUBSET handles, f \in Setters : set_attr(s, sel, f)
    \/ \E done \in SUBSET handles : SetAttrFails(s, done)
    BY DEF ObjectCall
  <1>3. CASE \E v \in Value : xorn_add_object(s, v)
    <2>1. PICK v \in Value : xorn_add_object(s, v)
      BY <1>3
    <2>2. v \in ValidData /\ Store!Add(s, v)
      BY <2>1, AddObjectStore
    <2>3. call' = Idle
      BY <2>1 DEF xorn_add_object, Callable
    <2> QED BY <2>2, <2>3, IdleLoop DEF Store!Next
  <1>4. CASE \E stage \in 1..3 : AddObjectFails(s, stage)
    <2>1. PICK stage \in 1..3 : AddObjectFails(s, stage)
      BY <1>4
    <2>2. call' = Idle
      BY <2>1 DEF AddObjectFails, Callable
    <2> QED BY <2>1, <2>2, IdleLoop, AddObjectFailsStore
  <1>5. CASE \E ob \in handles, v \in Value : xorn_set_object_data(s, ob, v)
    <2>1. PICK ob \in handles, v \in Value : xorn_set_object_data(s, ob, v)
      BY <1>5
    <2>2. v \in ValidData /\ Store!Set(s, ob, v)
      BY <1>1, <2>1, SetObjectStore
    <2>3. call' = Idle
      BY <2>1 DEF xorn_set_object_data, Callable
    <2> QED BY <2>2, <2>3, IdleLoop DEF Store!Next
  <1>6. CASE \E ob \in handles, stage \in 1..3 : SetObjectDataFails(s, ob, stage)
    <2>1. PICK ob \in handles, stage \in 1..3 : SetObjectDataFails(s, ob, stage)
      BY <1>6
    <2>2. call' = Idle
      BY <2>1 DEF SetObjectDataFails, Callable
    <2> QED BY <1>1, <2>1, <2>2, IdleLoop, SetObjectDataFailsStore
  <1>7. CASE \E ob \in handles, to \in handles \cup {NULL}, before \in handles \cup {NULL} :
               xorn_relocate_object(s, ob, to, before)
    <2>1. PICK ob \in handles, to \in handles \cup {NULL}, before \in handles \cup {NULL} :
            xorn_relocate_object(s, ob, to, before)
      BY <1>7
    <2>2. Store!Relocate(s, ob, to, before)
      BY <1>1, <2>1, RelocateStore
    <2>3. call' = Idle
      BY <2>1 DEF xorn_relocate_object, Callable
    <2>4. Store!Next
      BY <2>2, StoreNames DEF Store!Next
    <2> QED BY <2>3, <2>4, IdleLoop
  <1>8. CASE \E ob \in handles : xorn_delete_object(s, ob)
    <2>1. PICK ob \in handles : xorn_delete_object(s, ob)
      BY <1>8
    <2>2. Store!Delete(s, {ob}) /\ {ob} \in SUBSET handles
      BY <1>1, <2>1, DeleteObjectStore
    <2>3. call' = Idle
      BY <2>1 DEF xorn_delete_object, Callable
    <2> QED BY <2>2, <2>3, IdleLoop DEF Store!Next
  <1>9. CASE \E sel \in SUBSET handles : xorn_delete_selected_objects(s, sel)
    BY <1>9, DeleteSelectedEnters
  <1>10. CASE \E src \in Rev, ob \in handles : xorn_copy_object(s, src, ob)
    BY <1>10, CopyObjectEnters
  <1>11. CASE \E src \in Rev, sel \in SUBSET handles : xorn_copy_objects(s, src, sel)
    BY <1>11, CopyObjectsEnters
  <1>12. CASE \E sel \in SUBSET handles, f \in Setters : set_attr(s, sel, f)
    <2>1. PICK sel \in SUBSET handles, f \in Setters : set_attr(s, sel, f)
      BY <1>12
    <2>2. Store!SetAttr(s, sel, f)
      BY <1>1, <2>1, SetAttrStore
    <2>3. call' = Idle
      BY <2>1 DEF set_attr, Callable
    <2> QED BY <2>2, <2>3, IdleLoop DEF Store!Next
  <1>13. CASE \E done \in SUBSET handles : SetAttrFails(s, done)
    <2>1. PICK done \in SUBSET handles : SetAttrFails(s, done)
      BY <1>13
    <2>2. call' = Idle
      BY <2>1 DEF SetAttrFails, Callable
    <2> QED BY <1>1, <2>1, <2>2, IdleLoop, SetAttrFailsStore
  <1> QED BY <1>2, <1>3, <1>4, <1>5, <1>6, <1>7, <1>8, <1>9, <1>10, <1>11, <1>12, <1>13

LEMMA ProgressStore ==
  ASSUME RefcountInv, RefcountInv', RowsOK, CopyTargets, LoopInv, Progress
  PROVE  /\ Store!Next \/ UNCHANGED Store!vars
         /\ LoopInv'
  <1>1. CASE DeleteNext
    BY <1>1, DeleteNextLoop
  <1>2. CASE DeleteReturns
    BY <1>2, DeleteReturnsStore
  <1>3. CASE copy_object
    BY <1>3, CopyObjectLoop
  <1>4. CASE \E stage \in 1..4 : CopyObjectFails(stage)
    <2>1. PICK stage \in 1..4 : CopyObjectFails(stage)
      BY <1>4
    <2>2. UNCHANGED <<obstates, children, cell>>
      BY <2>1, CopyObjectFailsKeeps
    <2>3. call.pc = "copying" /\ Undo /\ UNCHANGED <<live, is_transient, handles, entry>>
      BY <2>1 DEF CopyObjectFails
    <2> QED BY <2>2, <2>3, UndoLoop
  <1>5. CASE CopyObjectsFails
    <2>1. /\ call.pc = "copying" /\ Undo
          /\ UNCHANGED <<live, is_transient, obstates, children, cell, handles, entry>>
      BY <1>5 DEF CopyObjectsFails, revVars, heapVars
    <2> QED BY <2>1, UndoLoop
  <1>6. CASE CopyReturns
    BY <1>6, CopyReturnsStore
  <1> QED BY <1>1, <1>2, <1>3, <1>4, <1>5, <1>6 DEF Progress

LEMMA InitStore ==
  ASSUME Init
  PROVE  Store!Init /\ LoopInv
  <1>1. \A r \in Rev : Contents(r) = Store!Empty
    BY StoreNames DEF Init, Contents, Store!Empty, NoObstates, NoChildren, ValueOf, Exists
  <1>2. \A r \in Rev : r # call.dst
    BY StorageAssumption DEF Init, Idle
  <1>3. call.pc = "idle"
    BY DEF Init, Idle
  <1>4. LoopInv
    BY <1>3 DEF LoopInv
  <1> QED BY <1>1, <1>2, <1>4 DEF Init, Store!Init, VisibleContents

\* The storage library does what its header promises, for any revisions, objects
\* and memory: each call takes effect at once and on one revision, or not at all.
\* Deleting and copying several objects, attached ones with them, comes to one
\* step, and a copy which runs out of memory is undone without a trace.
THEOREM StoreIsImplemented == Spec => ImplementsStore
  <1> DEFINE Inv == TreeInv /\ LoopInv
  <1>1. Init => Inv /\ Store!Init
    BY InitTreeInv, InitStore
  <1>2. Inv /\ [Next]_vars => Inv' /\ [Store!Next]_(Store!vars)
    <2> SUFFICES ASSUME Inv, [Next]_vars PROVE Inv' /\ [Store!Next]_(Store!vars)
      OBVIOUS
    <2>1. TreeInv' /\ RefcountInv /\ RefcountInv' /\ RowsOK /\ CopyTargets
      BY NextTreeInv, RowsOKMeans DEF TreeInv, RefcountInv
    <2>2. CASE RevisionCall
      <3>1. Store!Next
        BY <2>1, <2>2, RevisionCallStore
      <3>2. call' = Idle
        BY <2>2 DEF RevisionCall, xorn_new_revision, copy_revision,
                    xorn_finalize_revision, xorn_free_revision
      <3> QED BY <2>1, <3>1, <3>2, IdleLoop
    <2>3. CASE ObjectCall
      BY <2>1, <2>3, ObjectCallStore
    <2>4. CASE Progress
      BY <2>1, <2>4, ProgressStore
    <2>5. CASE UNCHANGED vars
      <3>1. UNCHANGED <<live, is_transient, obstates, children, cell, handles, call, entry>>
        BY <2>5 DEF vars, revVars, heapVars
      <3>2. VisibleContents' = VisibleContents
        BY <3>1 DEF VisibleContents, Contents, ValueOf, Exists
      <3>3. LoopInv'
        BY <3>1, <3>2 DEF LoopInv, Contents, ValueOf, Exists
      <3> QED BY <2>1, <3>1, <3>2, <3>3 DEF Store!vars
    <2> QED BY <2>2, <2>3, <2>4, <2>5 DEF Next
  <1> HIDE DEF Inv
  <1> QED BY <1>1, <1>2, PTL DEF Spec, ImplementsStore, Store!Spec

-----------------------------------------------------------------------------
(* Joining lists *)

LEMMA ListsJoin ==
  ASSUME NEW A, NEW a, Lists(a, A), NEW B, NEW b, Lists(b, B), A \cap B = {}
  PROVE  Lists(a \o b, A \cup B)
  <1>1. /\ a \in Seq(Object) /\ Len(a) \in Nat
        /\ \A i \in 1..Len(a) : a[i] \in A
        /\ \A e \in A : \E i \in 1..Len(a) : a[i] = e
        /\ \A i, j \in 1..Len(a) : a[i] = a[j] => i = j
    BY ListFacts
  <1>2. /\ b \in Seq(Object) /\ Len(b) \in Nat
        /\ \A i \in 1..Len(b) : b[i] \in B
        /\ \A e \in B : \E i \in 1..Len(b) : b[i] = e
        /\ \A i, j \in 1..Len(b) : b[i] = b[j] => i = j
    BY ListFacts
  <1>3. PICK c : c = a \o b
    OBVIOUS
  <1>4. /\ c \in Seq(Object) /\ Len(c) = Len(a) + Len(b)
        /\ \A i \in 1..(Len(a) + Len(b)) :
             c[i] = IF i <= Len(a) THEN a[i] ELSE b[i - Len(a)]
    BY <1>1, <1>2, <1>3, ConcatProperties
  <1>5. \A i \in 1..Len(c) : \/ i \in 1..Len(a) /\ c[i] = a[i]
                             \/ i > Len(a) /\ i - Len(a) \in 1..Len(b) /\ c[i] = b[i - Len(a)]
    BY <1>1, <1>2, <1>4
  <1>6. \A i \in 1..Len(c) : c[i] \in A \cup B
    BY <1>1, <1>2, <1>5
  <1>7. ASSUME NEW e \in A \cup B PROVE \E i \in 1..Len(c) : c[i] = e
    <2>1. CASE e \in A
      <3>1. PICK i \in 1..Len(a) : a[i] = e
        BY <1>1, <2>1
      <3>2. i \in 1..Len(c) /\ c[i] = e
        BY <1>1, <1>2, <1>4, <3>1
      <3> QED BY <3>2
    <2>2. CASE e \in B
      <3>1. PICK i \in 1..Len(b) : b[i] = e
        BY <1>2, <2>2
      <3>2. /\ i + Len(a) \in 1..(Len(a) + Len(b))
            /\ ~(i + Len(a) <= Len(a)) /\ i + Len(a) - Len(a) = i
        BY <1>1, <1>2
      <3>3. c[i + Len(a)] = e
        BY <1>4, <3>1, <3>2
      <3> QED BY <1>4, <3>2, <3>3
    <2> QED BY <2>1, <2>2
  <1>8. ASSUME NEW i \in 1..Len(c), NEW j \in 1..Len(c), c[i] = c[j] PROVE i = j
    <2>1. i \in Int /\ j \in Int
      BY <1>1, <1>2, <1>4
    <2>2. CASE i \in 1..Len(a) /\ c[i] = a[i]
      <3>1. j \in 1..Len(a) /\ c[j] = a[j]
        <4>1. c[j] \notin B
          BY <1>1, <1>8, <2>2
        <4>2. \/ j \in 1..Len(a) /\ c[j] = a[j]
              \/ j - Len(a) \in 1..Len(b) /\ c[j] = b[j - Len(a)]
          BY <1>5
        <4> QED BY <1>2, <4>1, <4>2
      <3>2. a[i] = a[j]
        BY <1>8, <2>2, <3>1
      <3>3. \A l, m \in 1..Len(a) : a[l] = a[m] => l = m
        BY <1>1
      <3> QED BY ONLY <2>2, <3>1, <3>2, <3>3
    <2>3. CASE i > Len(a) /\ i - Len(a) \in 1..Len(b) /\ c[i] = b[i - Len(a)]
      <3>1. j > Len(a) /\ j - Len(a) \in 1..Len(b) /\ c[j] = b[j - Len(a)]
        BY <1>1, <1>2, <1>5, <1>8, <2>3
      <3>2. i - Len(a) = j - Len(a)
        BY <1>2, <1>8, <2>3, <3>1
      <3> QED BY <1>1, <2>1, <3>2
    <2> QED BY <1>5, <2>2, <2>3
  <1>9. Lists(c, A \cup B)
    BY <1>4, <1>6, <1>7, <1>8, ListIntro
  <1> QED BY <1>3, <1>9

LEMMA ListsLength ==
  ASSUME NEW T, NEW s, Lists(s, T)
  PROVE  Len(s) = Cardinality(T)
  <1>1. /\ s \in Seq(Object) /\ Len(s) \in Nat /\ DOMAIN s = 1..Len(s)
        /\ \A i \in 1..Len(s) : s[i] \in T
        /\ \A e \in T : \E i \in 1..Len(s) : s[i] = e
        /\ \A i, j \in 1..Len(s) : s[i] = s[j] => i = j
    BY ListFacts
  <1>2. s \in [1..Len(s) -> T]
    <2>1. s = [i \in 1..Len(s) |-> s[i]]
      BY <1>1
    <2> QED BY <1>1, <2>1
  <1>3. s \in Bijection(1..Len(s), T)
    BY <1>1, <1>2 DEF Bijection, Injection, Surjection, IsInjective
  <1>4. ExistsBijection(1..Len(s), T)
    BY <1>3 DEF ExistsBijection
  <1> QED BY <1>1, <1>4, FS_CountingElements

\* One list after the other: the recursion in FlattenSeq, for the first k lists.
Unfolds(lists, f, k) ==
  f = [i \in 1..k |-> IF i = 1 THEN lists[i] ELSE f[i - 1] \o lists[i]]

LEMMA Unfolding ==
  ASSUME NEW lists, NEW n \in Nat
  PROVE  \E f : Unfolds(lists, f, n)
  <1> DEFINE T == {k \in Nat : ~ \E f : Unfolds(lists, f, k)}
  <1> SUFFICES ASSUME T # {} PROVE FALSE
    OBVIOUS
  <1>1. PICK k \in T : \A m \in T : k <= m
    <2>1. T \in SUBSET Nat
      OBVIOUS
    <2> HIDE DEF T
    <2> QED BY <2>1, LeastNumber
  <1>2. k # 0
    <2>1. PICK f : f = [i \in 1..0 |-> 0]
      OBVIOUS
    <2>2. Unfolds(lists, f, 0)
      BY <2>1 DEF Unfolds
    <2> QED BY <1>1, <2>2
  <1>3. k - 1 \in Nat /\ k - 1 \notin T
    BY <1>1, <1>2
  <1>4. PICK f : Unfolds(lists, f, k - 1)
    BY <1>3
  <1>5. PICK g : g = [i \in 1..k |-> IF i < k THEN f[i]
                                     ELSE IF i = 1 THEN lists[i] ELSE f[i - 1] \o lists[i]]
    OBVIOUS
  <1>6. ASSUME NEW i \in 1..k
        PROVE  g[i] = IF i = 1 THEN lists[i] ELSE g[i - 1] \o lists[i]
    <2>1. i \in Int /\ k \in Int /\ 1 <= i /\ i <= k
      BY <1>1
    <2>2. i # 1 => g[i - 1] = f[i - 1]
      BY <1>5, <2>1
    <2>3. CASE i < k
      <3>1. i \in 1..(k - 1)
        BY <2>1, <2>3
      <3>2. f[i] = IF i = 1 THEN lists[i] ELSE f[i - 1] \o lists[i]
        BY <1>4, <3>1 DEF Unfolds
      <3> QED BY <1>5, <2>2, <2>3, <3>2
    <2>4. CASE ~(i < k)
      BY <1>5, <2>2, <2>4
    <2> QED BY <2>3, <2>4
  <1>7. Unfolds(lists, g, k)
    <2>1. g = [i \in 1..k |-> g[i]]
      BY <1>5
    <2> QED BY <1>6, <2>1 DEF Unfolds
  <1> QED BY <1>1, <1>7

LEMMA FlattenMeans ==
  ASSUME NEW lists, Len(lists) \in Nat, Len(lists) # 0
  PROVE  \E f : Unfolds(lists, f, Len(lists)) /\ FlattenSeq(lists) = f[Len(lists)]
  <1> DEFINE F == CHOOSE f : f = [i \in 1..Len(lists) |->
                     IF i = 1 THEN lists[i] ELSE f[i - 1] \o lists[i]]
  <1>1. FlattenSeq(lists) = F[Len(lists)]
    BY DEF FlattenSeq
  <1>2. \E f : f = [i \in 1..Len(lists) |->
                     IF i = 1 THEN lists[i] ELSE f[i - 1] \o lists[i]]
    BY Unfolding DEF Unfolds
  <1>3. Unfolds(lists, F, Len(lists))
    BY <1>2 DEF Unfolds
  <1> QED BY <1>1, <1>3

LEMMA FlattenLists ==
  ASSUME NEW lists, NEW n \in Nat, Len(lists) = n, n = 0 => lists = <<>>,
         NEW A, \A i \in 1..n : Lists(lists[i], A[i]),
         \A i, j \in 1..n : i # j => A[i] \cap A[j] = {}
  PROVE  Lists(FlattenSeq(lists), UNION {A[i] : i \in 1..n})
  <1> DEFINE U(k) == UNION {A[i] : i \in 1..k}
  <1>1. CASE n = 0
    <2>1. FlattenSeq(lists) = <<>>
      BY <1>1 DEF FlattenSeq
    <2>2. U(n) = {}
      BY <1>1
    <2> QED BY <2>1, <2>2, EmptyLists
  <1>2. CASE n # 0
    <2>1. PICK f : Unfolds(lists, f, n) /\ FlattenSeq(lists) = f[n]
      BY <1>2, FlattenMeans
    <2> DEFINE T == {k \in 1..n : ~Lists(f[k], U(k))}
    <2>2. ASSUME T # {} PROVE FALSE
      <3>1. PICK k \in T : \A m \in T : k <= m
        <4>1. T \in SUBSET Nat
          OBVIOUS
        <4> HIDE DEF T
        <4> QED BY <2>2, <4>1, LeastNumber
      <3>2. k \in 1..n /\ ~Lists(f[k], U(k)) /\ Lists(lists[k], A[k])
        BY <3>1
      <3>3. f[k] = IF k = 1 THEN lists[k] ELSE f[k - 1] \o lists[k]
        BY <2>1, <3>2 DEF Unfolds
      <3>4. CASE k = 1
        <4>1. U(k) = A[k]
          BY <3>4
        <4> QED BY <3>2, <3>3, <3>4, <4>1
      <3>5. CASE k # 1
        <4>1. /\ k - 1 \in 1..n
              /\ k - 1 \notin T
          <5>1. k - 1 \in 1..n /\ ~(k <= k - 1)
            BY <3>2, <3>5
          <5> HIDE DEF T
          <5> QED BY <3>1, <5>1
        <4>2. Lists(f[k - 1], U(k - 1))
          BY <4>1
        <4>3. \A i \in 1..k : i \in 1..(k - 1) \/ i = k
          BY <3>2
        <4>4. U(k) = U(k - 1) \cup A[k]
          <5>1. U(k - 1) \cup A[k] \subseteq U(k)
            BY <3>2
          <5>2. U(k) \subseteq U(k - 1) \cup A[k]
            BY <4>3
          <5> QED BY <5>1, <5>2
        <4>5. U(k - 1) \cap A[k] = {}
          <5>1. ASSUME NEW i \in 1..(k - 1) PROVE A[i] \cap A[k] = {}
            BY <3>2
          <5> QED BY <5>1
        <4> HIDE DEF U, T
        <4>6. Lists(f[k - 1] \o lists[k], U(k - 1) \cup A[k])
          BY <3>2, <4>2, <4>5, ListsJoin
        <4> QED BY <3>2, <3>3, <3>5, <4>4, <4>6
      <3> QED BY <3>4, <3>5
    <2>3. n \in 1..n
      BY <1>2
    <2>4. Lists(f[n], U(n))
      BY <2>2, <2>3
    <2> QED BY <2>1, <2>4
  <1> QED BY <1>1, <1>2

-----------------------------------------------------------------------------
(* object.cc: listing objects *)

\* The object at the i-th place of the object list, and those attached to it.
Block(r, i) ==
  LET top == children[r][NULL][i]
  IN {top} \cup Below(parent[r], top)

LEMMA BlocksAre ==
  ASSUME NEW r \in Rev, RowOK(r)
  PROVE  LET n == Len(children[r][NULL])
         IN /\ n \in Nat /\ DOMAIN children[r][NULL] = 1..n
            /\ \A i \in 1..n : Lists(<<children[r][NULL][i]>>
                                       \o children[r][children[r][NULL][i]], Block(r, i))
            /\ \A i, j \in 1..n : i # j => Block(r, i) \cap Block(r, j) = {}
            /\ UNION {Block(r, i) : i \in 1..n} = {ob \in Object : Exists(r, ob)}
  <1> DEFINE top == children[r][NULL]
             n == Len(top)
  <1>0. /\ NULL \in Node /\ NULL \notin Object /\ Object \subseteq Node /\ Absent \notin Node
        /\ Node = Object \cup {NULL}
    BY NodeObject DEF Node, Object, NULL
  <1>1. /\ \A m \in Node : Lists(children[r][m], Below(parent[r], m))
        /\ \A ob \in Object : Exists(r, ob) <=> parent[r][ob] # Absent
        /\ \A ob \in Object : ~Exists(r, ob) => Below(parent[r], ob) = {}
        /\ \A ob \in Object : parent[r][ob] \in Node \cup {Absent}
    BY DEF RowOK, Forest, RowTyped, Exists
  <1>2. /\ top \in Seq(Object) /\ n \in Nat /\ DOMAIN top = 1..n
        /\ \A i \in 1..n : top[i] \in Below(parent[r], NULL)
        /\ \A e \in Below(parent[r], NULL) : \E i \in 1..n : top[i] = e
        /\ \A i, j \in 1..n : top[i] = top[j] => i = j
    <2>1. Lists(top, Below(parent[r], NULL))
      BY <1>0, <1>1
    <2> HIDE DEF top
    <2> QED BY <2>1, ListFacts
  <1> HIDE DEF top
  <1>3. \A i \in 1..n : top[i] \in Object /\ parent[r][top[i]] = NULL
    BY <1>2 DEF Below
  <1>4. ASSUME NEW i \in 1..n
        PROVE  Lists(<<top[i]>> \o children[r][top[i]], {top[i]} \cup Below(parent[r], top[i]))
    <2>1. PICK e : e = top[i]
      OBVIOUS
    <2>2. e \in Object /\ parent[r][e] = NULL
      BY <1>3, <2>1
    <2>3. Lists(<<e>>, {e})
      <3>1. PICK s : s = <<e>>
        OBVIOUS
      <3>2. s \in Seq(Object) /\ Len(s) = 1 /\ s[1] = e
        BY <2>2, <3>1
      <3>3. Lists(s, {e})
        BY <3>2, ListIntro
      <3> QED BY <3>1, <3>3
    <2>4. {e} \cap Below(parent[r], e) = {}
      BY <1>0, <2>2 DEF Below
    <2>5. Lists(<<e>> \o children[r][e], {e} \cup Below(parent[r], e))
      BY <1>0, <1>1, <2>2, <2>3, <2>4, ListsJoin
    <2> QED BY <2>1, <2>5
  <1>5. ASSUME NEW i \in 1..n, NEW j \in 1..n, i # j
        PROVE  ({top[i]} \cup Below(parent[r], top[i])) \cap
               ({top[j]} \cup Below(parent[r], top[j])) = {}
    <2>1. top[i] # top[j]
      BY <1>2, <1>5
    <2> QED BY <1>0, <1>3, <2>1 DEF Below
  <1>6. ASSUME NEW ob \in Object, Exists(r, ob)
        PROVE  \E i \in 1..n : ob \in {top[i]} \cup Below(parent[r], top[i])
    <2>1. CASE parent[r][ob] = NULL
      BY <1>2, <2>1 DEF Below
    <2>2. CASE parent[r][ob] # NULL
      <3>1. parent[r][ob] \in Object
        BY <1>0, <1>1, <1>6, <2>2
      <3>2. parent[r][ob] \in Below(parent[r], NULL)
        BY <3>1 DEF RowOK, Shallow, Below
      <3>3. PICK i \in 1..n : top[i] = parent[r][ob]
        BY <1>2, <3>2
      <3> QED BY <3>3 DEF Below
    <2> QED BY <2>1, <2>2
  <1>7. ASSUME NEW i \in 1..n, NEW ob \in {top[i]} \cup Below(parent[r], top[i])
        PROVE  ob \in Object /\ Exists(r, ob)
    BY <1>0, <1>1, <1>3 DEF Below
  <1>8. \A i \in 1..n : Block(r, i) = {top[i]} \cup Below(parent[r], top[i])
    BY DEF Block, top
  <1>9. UNION {Block(r, i) : i \in 1..n} = {ob \in Object : Exists(r, ob)}
    <2> HIDE DEF n
    <2> QED BY <1>6, <1>7, <1>8
  <1>10. /\ \A i \in 1..n : Lists(<<top[i]>> \o children[r][top[i]], Block(r, i))
         /\ \A i, j \in 1..n : i # j => Block(r, i) \cap Block(r, j) = {}
    BY <1>4, <1>5, <1>8
  <1> QED BY <1>2, <1>9, <1>10 DEF top

LEMMA ListingMeans ==
  ASSUME NEW r \in Rev, RowOK(r)
  PROVE  Lists(xorn_get_objects(r), {ob \in Object : Exists(r, ob)})
  <1> DEFINE top == children[r][NULL]
             n == Len(top)
             lists == [i \in DOMAIN top |-> <<top[i]>> \o children[r][top[i]]]
             A == [i \in 1..n |-> Block(r, i)]
  <1>1. /\ n \in Nat /\ DOMAIN top = 1..n
        /\ \A i \in 1..n : Lists(<<top[i]>> \o children[r][top[i]], Block(r, i))
        /\ \A i, j \in 1..n : i # j => Block(r, i) \cap Block(r, j) = {}
        /\ UNION {Block(r, i) : i \in 1..n} = {ob \in Object : Exists(r, ob)}
    BY BlocksAre
  <1>2. xorn_get_objects(r) = FlattenSeq(lists)
    BY DEF xorn_get_objects, dump_children
  <1> HIDE DEF top
  <1>3. DOMAIN lists = 1..n /\ \A i \in 1..n : lists[i] = <<top[i]>> \o children[r][top[i]]
    BY <1>1
  <1>4. lists = [i \in 1..n |-> lists[i]]
    BY <1>1
  <1> HIDE DEF lists, n
  <1>5. \A i \in 1..n : Lists(lists[i], A[i])
    BY <1>1, <1>3
  <1>6. Len(lists) = n /\ (n = 0 => lists = <<>>)
    <2>1. \A i \in 1..n : lists[i] \in Seq(Object)
      BY <1>5 DEF Lists
    <2>2. lists \in Seq(Seq(Object)) /\ Len(lists) = n
      BY <1>1, <1>4, <2>1, FunctionIsSeq
    <2> QED BY <2>2, EmptySeq
  <1>7. \A i, j \in 1..n : i # j => A[i] \cap A[j] = {}
    BY <1>1
  <1>8. UNION {A[i] : i \in 1..n} = {ob \in Object : Exists(r, ob)}
    BY <1>1
  <1> HIDE DEF A
  <1>9. Lists(FlattenSeq(lists), UNION {A[i] : i \in 1..n})
    BY <1>1, <1>5, <1>6, <1>7, FlattenLists
  <1> QED BY <1>2, <1>8, <1>9

LEMMA TreeListingFits ==
  ASSUME RowsOK, live \subseteq Rev
  PROVE  ListingFits
  <1> SUFFICES ASSUME NEW r \in live
               PROVE  LET list == xorn_get_objects(r)
                      IN /\ Len(list) = Cardinality({ob \in Object : Exists(r, ob)})
                         /\ ToSet(list) = {ob \in Object : Exists(r, ob)}
    BY DEF ListingFits
  <1>1. Lists(xorn_get_objects(r), {ob \in Object : Exists(r, ob)})
    BY ListingMeans DEF RowsOK
  <1>2. PICK list : list = xorn_get_objects(r)
    OBVIOUS
  <1>3. PICK there : there = {ob \in Object : Exists(r, ob)}
    OBVIOUS
  <1>4. Lists(list, there)
    BY <1>1, <1>2, <1>3
  <1>5. Len(list) = Cardinality(there) /\ ToSet(list) = there
    BY <1>4, ListsLength DEF Lists
  <1> QED BY <1>2, <1>3, <1>5

-----------------------------------------------------------------------------
(* manipulate.cc: moving an object back *)

\* Putting an element which isn't there into a list, and taking it out.
LEMMA PutTaken ==
  ASSUME NEW T, NEW s, Lists(s, T), NEW e \in Object, e \notin T, NEW before \in Node,
         before # NULL => before \in T
  PROVE  Store!Without(Store!Put(s, e, before), {e}) = s
  <1>1. /\ s \in Seq(Object) /\ Len(s) \in Nat
        /\ \A i \in 1..Len(s) : s[i] \in T
    BY ListFacts
  <1>2. PICK t : t = Store!Put(s, e, before)
    OBVIOUS
  <1>3. PICK k \in 1..(Len(s) + 1) :
          /\ Lists(t, T \cup {e}) /\ Len(t) = Len(s) + 1
          /\ \A j \in 1..(Len(s) + 1) :
               t[j] = IF j < k THEN s[j] ELSE IF j = k THEN e ELSE s[j - 1]
    <2>1. CASE before = NULL
      <3>1. t = Append(s, e)
        BY <1>2, <2>1, PutMeans
      <3>2. Lists(t, T \cup {e})
        BY <3>1, ListsAppend
      <3>3. /\ Len(Append(s, e)) = Len(s) + 1
            /\ \A j \in 1..Len(s) : Append(s, e)[j] = s[j]
            /\ Append(s, e)[Len(s) + 1] = e
        BY <1>1, AppendProperties
      <3>4. Len(s) + 1 \in 1..(Len(s) + 1)
        BY <1>1
      <3>5. \A j \in 1..(Len(s) + 1) :
              t[j] = IF j < Len(s) + 1 THEN s[j] ELSE IF j = Len(s) + 1 THEN e ELSE s[j - 1]
        BY <1>1, <3>1, <3>3
      <3> QED BY <3>1, <3>2, <3>3, <3>4, <3>5
    <2>2. CASE before # NULL
      <3>1. PICK k : k = Find(s, before)
        OBVIOUS
      <3>2. k \in 1..Len(s)
        BY <2>2, <3>1, ListsFind
      <3>3. t = InsertAt(s, k, e)
        BY <1>2, <2>2, <3>1, PutMeans
      <3>4. Lists(t, T \cup {e})
        BY <3>2, <3>3, ListsInsert
      <3>5. /\ Len(t) = Len(s) + 1
            /\ \A j \in 1..(Len(s) + 1) :
                 t[j] = IF j < k THEN s[j] ELSE IF j = k THEN e ELSE s[j - 1]
        <4>1. s \in Seq(Object) /\ e \in Object /\ k \in 1..Len(s)
          BY <1>1, <3>2
        <4>2. /\ Len(InsertAt(s, k, e)) = Len(s) + 1
              /\ \A j \in 1..(Len(s) + 1) :
                   InsertAt(s, k, e)[j] = IF j < k THEN s[j] ELSE IF j = k THEN e ELSE s[j - 1]
          BY ONLY ZenonT(40), <4>1, InsertMeans
        <4> QED BY <3>3, <4>2
      <3>6. k \in 1..(Len(s) + 1)
        BY <1>1, <3>2
      <3> QED BY <3>4, <3>5, <3>6
    <2> QED BY <2>1, <2>2
  <1>4. /\ t \in Seq(Object) /\ \A i, j \in 1..Len(t) : t[i] = t[j] => i = j
    BY <1>3, ListFacts
  <1>5. Find(t, e) = k
    <2>1. t[k] = e
      BY <1>1, <1>3
    <2>2. Find(t, e) \in 1..Len(t) /\ t[Find(t, e)] = e
      BY <1>3, ListsFind
    <2>3. k \in 1..Len(t)
      BY <1>3
    <2> QED BY <1>4, <2>1, <2>2, <2>3
  <1>6. PICK w : w = Store!Without(t, {e})
    OBVIOUS
  <1>7. /\ w \in Seq(Object) /\ Len(w) = Len(t) - 1
        /\ \A j \in 1..(Len(t) - 1) : w[j] = IF j < k THEN t[j] ELSE t[j + 1]
    <2>1. PICK U : U = T \cup {e}
      OBVIOUS
    <2>2. Lists(t, U) /\ e \in U
      BY <1>3, <2>1
    <2>3. /\ Store!Without(t, {e}) \in Seq(Object)
          /\ Len(Store!Without(t, {e})) = Len(t) - 1
          /\ \A j \in 1..(Len(t) - 1) :
               Store!Without(t, {e})[j] = IF j < Find(t, e) THEN t[j] ELSE t[j + 1]
      BY ONLY <2>2, WithoutOne
    <2> QED BY <1>5, <1>6, <2>3
  <1>8. Len(w) = Len(s) /\ \A j \in 1..Len(s) : w[j] = s[j]
    <2>1. Len(w) = Len(s) /\ Len(t) - 1 = Len(s)
      BY <1>1, <1>3, <1>7
    <2>2. ASSUME NEW j \in 1..Len(s) PROVE w[j] = s[j]
      <3>1. /\ j \in 1..(Len(s) + 1) /\ j + 1 \in 1..(Len(s) + 1) /\ j + 1 - 1 = j
            /\ k \in Int /\ j \in Int
        BY <1>1, <1>3
      <3>2. CASE j < k
        BY <1>3, <1>7, <2>1, <3>1, <3>2
      <3>3. CASE ~(j < k)
        <4>1. ~(j + 1 < k) /\ j + 1 # k
          BY <3>1, <3>3
        <4> QED BY <1>3, <1>7, <2>1, <3>1, <3>3, <4>1
      <3> QED BY <3>2, <3>3
    <2> QED BY <2>1, <2>2
  <1>9. w = s
    BY <1>1, <1>7, <1>8, SameList
  <1> QED BY <1>2, <1>6, <1>9

\* Taking an element out of a list, and putting it back before what then is at
\* the place it had.
LEMMA PutBack ==
  ASSUME NEW T, NEW s, Lists(s, T), NEW e \in T, NEW w, w = Store!Without(s, {e}),
         NEW p, p = Find(s, e),
         NEW next, next = IF p - 1 < Len(w) THEN w[p - 1 + 1] ELSE NULL
  PROVE  /\ next \in Node /\ (next # NULL => next \in T) /\ next # e
         /\ Store!Put(w, e, next) = s
  <1>1. /\ s \in Seq(Object) /\ Len(s) \in Nat
        /\ \A i \in 1..Len(s) : s[i] \in T
        /\ \A i, j \in 1..Len(s) : s[i] = s[j] => i = j
        /\ T \subseteq Object
    BY ListFacts
  <1>2. /\ p \in 1..Len(s) /\ s[p] = e
    BY ListsFind
  <1>3. /\ w \in Seq(Object) /\ Len(w) = Len(s) - 1
        /\ \A j \in 1..(Len(s) - 1) : w[j] = IF j < p THEN s[j] ELSE s[j + 1]
    BY WithoutOne
  <1>4. Lists(w, T \ {e})
    BY WithoutOne, ListsRemove
  <1>5. NULL \in Node /\ NULL \notin Object /\ Object \subseteq Node
    BY NodeObject
  <1>6. CASE p = Len(s)
    <2>1. next = NULL
      BY <1>1, <1>2, <1>3, <1>6
    <2>2. Store!Put(w, e, next) = Append(w, e)
      BY <1>1, <1>4, <1>5, <2>1, PutMeans
    <2>3. /\ Append(w, e) \in Seq(Object) /\ Len(Append(w, e)) = Len(w) + 1
          /\ \A j \in 1..Len(w) : Append(w, e)[j] = w[j]
          /\ Append(w, e)[Len(w) + 1] = e
      BY <1>1, <1>3, AppendMeans
    <2>4. Len(w) + 1 = Len(s)
      BY <1>1, <1>3
    <2>5. ASSUME NEW j \in 1..Len(s) PROVE Append(w, e)[j] = s[j]
      <3>1. CASE j = Len(s)
        BY <1>2, <1>6, <2>3, <2>4, <3>1
      <3>2. CASE j # Len(s)
        <4>1. j \in 1..(Len(s) - 1) /\ j < p
          BY <1>1, <1>6, <3>2
        <4> QED BY <1>3, <2>3, <4>1
      <3> QED BY <3>1, <3>2
    <2>6. Append(w, e) = s
      BY <1>1, <2>3, <2>4, <2>5, SameList
    <2> QED BY <1>1, <1>5, <2>1, <2>2, <2>6
  <1>7. CASE p # Len(s)
    <2>1. p \in 1..(Len(s) - 1) /\ p - 1 < Len(w) /\ p - 1 + 1 = p /\ p \in 1..Len(w)
      BY <1>1, <1>2, <1>3, <1>7
    <2>2. next = w[p]
      BY <2>1
    <2>3. next \in T \ {e}
      <3>1. \A i \in 1..Len(w) : w[i] \in T \ {e}
        BY <1>4, ListFacts
      <3> QED BY <2>1, <2>2, <3>1
    <2>4. Find(w, next) = p
      <3>1. /\ Find(w, next) \in 1..Len(w) /\ w[Find(w, next)] = next
        BY <1>4, <2>3, ListsFind
      <3>2. \A i, j \in 1..Len(w) : w[i] = w[j] => i = j
        BY <1>4, ListFacts
      <3> QED BY <2>1, <2>2, <3>1, <3>2
    <2>5. Store!Put(w, e, next) = InsertAt(w, p, e)
      BY <1>1, <1>4, <1>5, <2>3, <2>4, PutMeans
    <2>6. PICK t : t = InsertAt(w, p, e)
      OBVIOUS
    <2>7. /\ t \in Seq(Object) /\ Len(t) = Len(w) + 1
          /\ \A j \in 1..(Len(w) + 1) :
               t[j] = IF j < p THEN w[j] ELSE IF j = p THEN e ELSE w[j - 1]
      <3>1. w \in Seq(Object) /\ e \in Object /\ p \in 1..Len(w)
        BY <1>1, <1>3, <2>1
      <3>2. /\ InsertAt(w, p, e) \in Seq(Object)
            /\ Len(InsertAt(w, p, e)) = Len(w) + 1
            /\ \A j \in 1..(Len(w) + 1) :
                 InsertAt(w, p, e)[j] = IF j < p THEN w[j] ELSE IF j = p THEN e ELSE w[j - 1]
        BY ONLY ZenonT(40), <3>1, InsertMeans
      <3> QED BY <2>6, <3>2
    <2>8. Len(w) + 1 = Len(s)
      BY <1>1, <1>3
    <2>9. ASSUME NEW j \in 1..Len(s) PROVE t[j] = s[j]
      <3>1. j \in Int /\ p \in Int /\ 1 <= j /\ j <= Len(s)
        BY <1>1, <1>2
      <3>2. CASE j < p
        <4>1. j \in 1..(Len(s) - 1) /\ j \in 1..(Len(w) + 1)
          BY <1>1, <2>1, <2>8, <3>1, <3>2
        <4>2. t[j] = w[j]
          BY <2>7, <3>2, <4>1
        <4> QED BY <1>3, <3>2, <4>1, <4>2
      <3>3. CASE j = p
        <4>1. j \in 1..(Len(w) + 1) /\ ~(j < p)
          BY <2>8, <3>1, <3>3
        <4> QED BY <1>2, <2>7, <3>3, <4>1
      <3>4. CASE j > p
        <4>1. j - 1 \in 1..(Len(s) - 1) /\ ~(j - 1 < p) /\ j - 1 + 1 = j /\ ~(j < p) /\ j # p
          BY <1>1, <1>2, <3>1, <3>4
        <4>2. w[j - 1] = s[j]
          BY <1>3, <4>1
        <4> QED BY <2>7, <2>8, <4>1, <4>2
      <3> QED BY <3>1, <3>2, <3>3, <3>4
    <2>10. t = s
      BY <1>1, <2>7, <2>8, <2>9, SameList
    <2> QED BY <1>1, <1>5, <2>3, <2>5, <2>6, <2>10
  <1> QED BY <1>6, <1>7

\* Moving an object changes no list, except that the object is taken out and
\* put in somewhere.
LEMMA MovedOthers ==
  ASSUME NEW o, NEW pr, NEW ch, Forest(o, pr, ch), NEW ob \in Object, o[ob] # None,
         NEW to \in Node, NEW before \in Node, before # NULL => before \in Below(pr, to),
         NEW n \in Node
  PROVE  Store!Without(ListMoved(ch, ob, to, before, n), {ob}) = Store!Without(ch[n], {ob})
  <1>1. Lists(ch[n], Below(pr, n)) /\ ch[n] \in Seq(Object)
    BY DEF Forest, RowTyped
  <1>2. PICK w : w = Store!Without(ch[n], {ob})
    OBVIOUS
  <1>3. Lists(w, Below(pr, n) \ {ob})
    <2>1. CASE ob \in Below(pr, n)
      <3>1. w = RemoveAt(ch[n], Find(ch[n], ob))
        BY <1>1, <1>2, <2>1, WithoutOne
      <3> QED BY <1>1, <2>1, <3>1, ListsRemove
    <2>2. CASE ob \notin Below(pr, n)
      <3>1. \A l \in 1..Len(ch[n]) : ch[n][l] \notin {ob}
        BY <1>1, <2>2, ListFacts
      <3>2. w = ch[n]
        BY <1>1, <1>2, <3>1, WithoutNone
      <3>3. Below(pr, n) \ {ob} = Below(pr, n)
        BY <2>2
      <3> QED BY <1>1, <3>2, <3>3
    <2> QED BY <2>1, <2>2
  <1>4. CASE before = ob
    BY <1>2, <1>4 DEF ListMoved
  <1>5. CASE before # ob /\ n = to
    <2>1. PICK T : T = Below(pr, n) \ {ob}
      OBVIOUS
    <2>2. Lists(w, T) /\ ob \notin T /\ (before # NULL => before \in T)
      BY <1>3, <1>5, <2>1
    <2>3. Store!Without(Store!Put(w, ob, before), {ob}) = w
      BY <2>2, PutTaken
    <2> QED BY <1>2, <1>5, <2>3 DEF ListMoved
  <1>6. CASE before # ob /\ n # to
    <2>1. w \in Seq(Object) /\ \A l \in 1..Len(w) : w[l] \notin {ob}
      BY <1>3, ListFacts
    <2>2. Store!Without(w, {ob}) = w
      BY <2>1, WithoutNone
    <2> QED BY <1>2, <1>6, <2>2 DEF ListMoved
  <1> QED BY <1>4, <1>5, <1>6

LEMMA OthersMeans ==
  ASSUME NEW T, NEW s, Lists(s, T), NEW ob \in Object
  PROVE  Others(s, ob) = Store!Without(s, {ob})
  <1>1. s \in Seq(Object) /\ ToSet(s) = T
    BY DEF Lists
  <1>2. CASE ob \in T
    BY <1>1, <1>2, WithoutOne DEF Others
  <1>3. CASE ob \notin T
    <2>1. \A l \in 1..Len(s) : s[l] \notin {ob}
      BY <1>3, ListFacts
    <2> QED BY <1>1, <1>3, <2>1, WithoutNone DEF Others
  <1> QED BY <1>2, <1>3

LEMMA MovedBack ==
  ASSUME NEW o, NEW pr, NEW ch, Forest(o, pr, ch), NEW ob \in Object, o[ob] # None,
         NEW to \in Node, to # NULL => o[to] # None,
         NEW before \in Node, before # NULL => before \in Below(pr, to),
         NEW moved, moved = Relocated(ch, pr[ob], to, ob, before),
         NEW rest, rest = Others(moved[pr[ob]], ob),
         NEW p, p = Find(ch[pr[ob]], ob),
         NEW next, next = IF p - 1 < Len(rest) THEN rest[p - 1 + 1] ELSE NULL
  PROVE  Relocated(moved, to, pr[ob], ob, next) = ch
  <1>1. PICK old : old = pr[ob]
    OBVIOUS
  <1>2. /\ old \in Node /\ ob \in Below(pr, old)
        /\ \A n \in Node : n # old => ob \notin Below(pr, n)
        /\ ch \in [Node -> Seq(Object)]
        /\ \A n \in Node : Lists(ch[n], Below(pr, n))
    BY <1>1 DEF Forest, RowTyped, Below
  <1>3. \A n \in Node : moved[n] = ListMoved(ch, ob, to, before, n)
    BY RelocatedMeans
  <1>4. \A n \in Node : Store!Without(moved[n], {ob}) = Store!Without(ch[n], {ob})
    BY <1>3, MovedOthers
  <1>5. PICK pr2 : pr2 = [pr EXCEPT ![ob] = to]
    OBVIOUS
  <1>6. Forest(o, pr2, moved)
    BY <1>5, ForestRelocate
  <1>7. /\ pr2[ob] = to
        /\ \A n \in Node : Lists(moved[n], Below(pr2, n))
        /\ moved \in [Node -> Seq(Object)]
    BY <1>5, <1>6 DEF Forest, RowTyped
  <1>8. rest = Store!Without(ch[old], {ob})
    <2>1. rest = Store!Without(moved[old], {ob})
      BY <1>1, <1>2, <1>7, OthersMeans
    <2> QED BY <1>2, <1>4, <2>1
  <1>9. /\ next \in Node /\ (next # NULL => next \in Below(pr, old)) /\ next # ob
        /\ Store!Put(rest, ob, next) = ch[old]
    <2>1. Lists(ch[old], Below(pr, old)) /\ ob \in Below(pr, old)
      BY <1>2
    <2>2. p = Find(ch[old], ob)
      BY <1>1
    <2> QED BY <1>8, <2>1, <2>2, PutBack
  <1>10. next # NULL => next \in Below(pr2, old)
    BY <1>5, <1>9 DEF Below, Forest, RowTyped
  <1>11. PICK back : back = Relocated(moved, to, old, ob, next)
    OBVIOUS
  <1>12. \A n \in Node : back[n] = ListMoved(moved, ob, old, next, n)
    BY <1>2, <1>6, <1>7, <1>9, <1>10, <1>11, RelocatedMeans
  <1>13. ASSUME NEW n \in Node PROVE back[n] = ch[n]
    <2>1. CASE n = old
      <3>1. back[n] = Store!Put(Store!Without(moved[n], {ob}), ob, next)
        BY <1>9, <1>12, <2>1 DEF ListMoved
      <3> QED BY <1>2, <1>4, <1>8, <1>9, <2>1, <3>1
    <2>2. CASE n # old
      <3>1. back[n] = Store!Without(ch[n], {ob})
        BY <1>4, <1>9, <1>12, <2>2 DEF ListMoved
      <3>2. \A l \in 1..Len(ch[n]) : ch[n][l] \notin {ob}
        BY <1>2, <2>2, ListFacts
      <3> QED BY <1>2, <3>1, <3>2, WithoutNone
    <2> QED BY <2>1, <2>2
  <1>14. back \in [Node -> Seq(Object)]
    <2>1. next # NULL => next \in ToSet(moved[old])
      BY <1>2, <1>7, <1>10 DEF Lists
    <2> QED BY <1>2, <1>7, <1>9, <1>11, <2>1, RelocatedType
  <1>15. back = ch
    BY <1>2, <1>13, <1>14
  <1> QED BY <1>1, <1>11, <1>15

LEMMA TreeRelocationReversible ==
  ASSUME RowsOK, live \subseteq Rev, handles \subseteq Object
  PROVE  RelocationReversible
  <1> SUFFICES ASSUME NEW r \in live, NEW ob \in handles, NEW to \in handles \cup {NULL},
                      NEW before \in handles \cup {NULL}, CanRelocate(r, ob, to, before)
               PROVE  LET was == xorn_get_object_location(r, ob)
                          moved == Relocated(children[r], was.attached_to, to, ob, before)
                          siblings == Others(moved[was.attached_to], ob)
                          successor == IF was.position < Len(siblings)
                                       THEN siblings[was.position + 1] ELSE NULL
                      IN Relocated(moved, to, was.attached_to, ob, successor) = children[r]
    BY DEF RelocationReversible
  <1>1. ob \in Object /\ to \in Node /\ before \in Node
    BY NodeObject
  <1>2. Forest(obstates[r], parent[r], children[r])
    BY DEF RowsOK, RowOK
  <1>3. /\ obstates[r][ob] # None /\ (to # NULL => obstates[r][to] # None)
        /\ before # NULL => before \in Below(parent[r], to)
    BY <1>1, <1>2 DEF CanRelocate, Exists, Forest, Lists
  <1>4. /\ xorn_get_object_location(r, ob).attached_to = parent[r][ob]
        /\ xorn_get_object_location(r, ob).position = Find(children[r][parent[r][ob]], ob) - 1
    BY DEF xorn_get_object_location
  <1> DEFINE p == Find(children[r][parent[r][ob]], ob)
             moved == Relocated(children[r], parent[r][ob], to, ob, before)
             rest == Others(moved[parent[r][ob]], ob)
             next == IF p - 1 < Len(rest) THEN rest[p - 1 + 1] ELSE NULL
  <1>5. Relocated(moved, to, parent[r][ob], ob, next) = children[r]
    <2> HIDE DEF p, moved, rest, next
    <2> QED BY <1>1, <1>2, <1>3, MovedBack DEF p, moved, rest, next
  <1> QED BY <1>4, <1>5

\* The list of objects which is handed out has each object of the revision once,
\* so that it fits into the array allocated for it; and wherever an object is
\* moved, moving it back to the place where it was restores the whole order.
THEOREM QueriesAlwaysFit == Spec => []QueriesFit
  <1>1. TreeInv => QueriesFit
    <2> SUFFICES ASSUME TreeInv PROVE QueriesFit
      OBVIOUS
    <2>1. RowsOK /\ live \subseteq Rev /\ handles \subseteq Object
      BY RowsOKMeans, HandlesAreObjects DEF TreeInv, RefcountInv, TypeOK
    <2> QED BY <2>1, TreeListingFits, TreeRelocationReversible DEF QueriesFit
  <1> QED BY <1>1, TreeInvariant, PTL

=============================================================================
