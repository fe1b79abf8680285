-------------------------- MODULE StorageTreeProofs --------------------------
(* The three maps of a revision describe one ordered forest, which is at   *)
(* most two levels deep.                                                   *)
EXTENDS StorageRefcountProofs

\* Copying object ob and attaching the copy to `to' makes sense: the object is
\* there, and something attached, a text, goes to a copy which can hold it.
CanCopy(src, dst, ob, to) ==
  /\ Exists(src, ob)
  /\ to # NULL => /\ TypeOf(src, ob) = Text
                  /\ Exists(dst, to)
                  /\ TypeOf(dst, to) \in Holders
                  /\ parent[dst][to] = NULL

CopyTargets ==
  call.pc = "copying" =>
    \A i \in DOMAIN call.work :
      CanCopy(call.src, call.dst, call.work[i][1], call.work[i][2])

\* The inductive invariant: a copy is only entered below an object which holds
\* it if the calls that are still to be made say so.
TreeInv == RefcountInv /\ TreeConsistent /\ AttachmentsTyped /\ CopyTargets

-----------------------------------------------------------------------------
(* Lists without repetitions *)

\* The list has each element of the set T once, and nothing else.
Lists(s, T) == s \in Seq(Object) /\ IsInjective(s) /\ ToSet(s) = T

LEMMA ListFacts ==
  ASSUME NEW T, NEW s, Lists(s, T)
  PROVE  /\ s \in Seq(Object) /\ Len(s) \in Nat /\ DOMAIN s = 1..Len(s)
         /\ \A i \in 1..Len(s) : s[i] \in T
         /\ \A e \in T : \E i \in 1..Len(s) : s[i] = e
         /\ \A i, j \in 1..Len(s) : s[i] = s[j] => i = j
         /\ T \subseteq Object
  <1>1. s \in Seq(Object) /\ DOMAIN s = 1..Len(s) /\ Len(s) \in Nat
    BY LenProperties DEF Lists
  <1>2. \A i \in 1..Len(s) : s[i] \in Object
    BY <1>1, ElementOfSeq
  <1> QED BY <1>1, <1>2 DEF Lists, ToSet, IsInjective

LEMMA ListIntro ==
  ASSUME NEW T, NEW s \in Seq(Object),
         \A i \in 1..Len(s) : s[i] \in T,
         \A e \in T : \E i \in 1..Len(s) : s[i] = e,
         \A i, j \in 1..Len(s) : s[i] = s[j] => i = j
  PROVE  Lists(s, T)
  <1>1. DOMAIN s = 1..Len(s)
    BY LenProperties
  <1> QED BY <1>1 DEF Lists, ToSet, IsInjective

LEMMA EmptyLists == Lists(<<>>, {}) /\ \A s : Lists(s, {}) => s = <<>>
  <1>1. Lists(<<>>, {})
    BY EmptySeq DEF Lists, ToSet, IsInjective
  <1>2. ASSUME NEW s, Lists(s, {}) PROVE s = <<>>
    <2>1. s \in Seq(Object) /\ Len(s) \in Nat /\ \A i \in 1..Len(s) : s[i] \in {}
      BY <1>2, ListFacts
    <2>2. Len(s) = 0
      <3>1. Len(s) # 0 => 1 \in 1..Len(s)
        BY <2>1
      <3> QED BY <2>1, <3>1
    <2> QED BY <2>1, <2>2, EmptySeq
  <1> QED BY <1>1, <1>2

LEMMA ListsAppend ==
  ASSUME NEW T, NEW s, Lists(s, T), NEW e \in Object, e \notin T
  PROVE  Lists(Append(s, e), T \cup {e})
  <1>1. /\ s \in Seq(Object) /\ Len(s) \in Nat
        /\ \A i \in 1..Len(s) : s[i] \in T
        /\ \A x \in T : \E i \in 1..Len(s) : s[i] = x
        /\ \A i, j \in 1..Len(s) : s[i] = s[j] => i = j
    BY ListFacts
  <1>2. /\ Append(s, e) \in Seq(Object) /\ Len(Append(s, e)) = Len(s) + 1
        /\ \A i \in 1..Len(s) : Append(s, e)[i] = s[i]
        /\ Append(s, e)[Len(s) + 1] = e
    BY <1>1, AppendProperties
  <1> DEFINE t == Append(s, e)
  <1> HIDE DEF t
  <1>3. /\ t \in Seq(Object) /\ Len(t) = Len(s) + 1
        /\ \A i \in 1..Len(s) : t[i] = s[i]
        /\ t[Len(s) + 1] = e
    BY <1>2 DEF t
  <1>4. \A i \in 1..Len(t) : i \in 1..Len(s) \/ i = Len(s) + 1
    BY <1>1, <1>3
  <1>5. \A i \in 1..Len(t) : t[i] \in T \cup {e}
    BY <1>1, <1>3, <1>4
  <1>6. \A x \in T \cup {e} : \E i \in 1..Len(t) : t[i] = x
    <2>1. Len(s) + 1 \in 1..Len(t) /\ \A i \in 1..Len(s) : i \in 1..Len(t)
      BY <1>1, <1>3
    <2> QED BY <1>1, <1>3, <2>1
  <1>7. \A i, j \in 1..Len(t) : t[i] = t[j] => i = j
    BY <1>1, <1>3, <1>4
  <1>8. Lists(t, T \cup {e})
    BY <1>3, <1>5, <1>6, <1>7, ListIntro
  <1> QED BY <1>8 DEF t

LEMMA ListsInsert ==
  ASSUME NEW T, NEW s, Lists(s, T), NEW e \in Object, e \notin T,
         NEW k \in 1..Len(s)
  PROVE  Lists(InsertAt(s, k, e), T \cup {e})
  <1>1. /\ s \in Seq(Object) /\ Len(s) \in Nat
        /\ \A i \in 1..Len(s) : s[i] \in T
        /\ \A x \in T : \E i \in 1..Len(s) : s[i] = x
        /\ \A i, j \in 1..Len(s) : s[i] = s[j] => i = j
    BY ListFacts
  <1> DEFINE t == InsertAt(s, k, e)
  <1>2. /\ t \in Seq(Object) /\ Len(t) = Len(s) + 1
        /\ \A j \in 1..(Len(s) + 1) :
             t[j] = IF j < k THEN s[j] ELSE IF j = k THEN e ELSE s[j - 1]
    BY <1>1, InsertAtProperties
  <1> HIDE DEF t
  <1>3. \A i \in 1..Len(t) : \/ i < k /\ i \in 1..Len(s) /\ t[i] = s[i]
                             \/ i = k /\ t[i] = e
                             \/ i > k /\ i - 1 \in 1..Len(s) /\ t[i] = s[i - 1]
    BY <1>1, <1>2
  <1>4. \A i \in 1..Len(t) : t[i] \in T \cup {e}
    BY <1>1, <1>3
  <1>5. \A x \in T \cup {e} : \E i \in 1..Len(t) : t[i] = x
    <2>1. k \in 1..Len(t) /\ t[k] = e
      BY <1>1, <1>2
    <2>2. ASSUME NEW x \in T PROVE \E i \in 1..Len(t) : t[i] = x
      <3>1. PICK i \in 1..Len(s) : s[i] = x
        BY <1>1
      <3>2. CASE i < k
        <4>1. i \in 1..Len(t) /\ t[i] = x
          BY <1>1, <1>2, <3>1, <3>2
        <4> QED BY <4>1
      <3>3. CASE i >= k
        <4>1. i + 1 \in 1..Len(t) /\ t[i + 1] = x
          BY <1>1, <1>2, <3>1, <3>3
        <4> QED BY <4>1
      <3> QED BY <1>1, <3>2, <3>3
    <2> QED BY <2>1, <2>2
  <1>6. ASSUME NEW i \in 1..Len(t), NEW j \in 1..Len(t), t[i] = t[j] PROVE i = j
    <2>1. \A n \in 1..Len(t) : n # k =>
            \E l \in 1..Len(s) : t[n] = s[l] /\ l = (IF n < k THEN n ELSE n - 1)
      <3> TAKE n \in 1..Len(t)
      <3>1. n \in Int /\ k \in Int
        BY <1>1, <1>2
      <3> QED BY <1>3, <3>1
    <2>2. CASE i # k /\ j # k
      <3>1. PICK l \in 1..Len(s) : t[i] = s[l] /\ l = (IF i < k THEN i ELSE i - 1)
        BY <2>1, <2>2
      <3>2. PICK m \in 1..Len(s) : t[j] = s[m] /\ m = (IF j < k THEN j ELSE j - 1)
        BY <2>1, <2>2
      <3>3. l = m
        BY <1>1, <1>6, <3>1, <3>2
      <3>4. i \in Int /\ j \in Int /\ k \in Int
        BY <1>1, <1>2
      <3> QED BY <2>2, <3>1, <3>2, <3>3, <3>4
    <2>3. \A n \in 1..Len(t) : n # k => t[n] # e
      BY <1>1, <2>1
    <2>4. t[k] = e
      BY <1>1, <1>2
    <2> QED BY <1>6, <2>2, <2>3, <2>4
  <1>7. Lists(t, T \cup {e})
    BY ZenonT(60), <1>2, <1>4, <1>5, <1>6, ListIntro
  <1> QED BY <1>7 DEF t

LEMMA ListsFind ==
  ASSUME NEW T, NEW s, Lists(s, T), NEW e \in T
  PROVE  Find(s, e) \in 1..Len(s) /\ s[Find(s, e)] = e
  <1>1. s \in Seq(Object) /\ e \in ToSet(s) /\ Len(s) \in Nat
    BY ListFacts DEF Lists
  <1>2. Find(s, e) \in 1..(Len(s) + 1) /\ Find(s, e) <= Len(s) /\ s[Find(s, e)] = e
    BY <1>1, FindProperties
  <1> HIDE DEF Find
  <1> QED BY <1>1, <1>2

LEMMA ListsRemove ==
  ASSUME NEW T, NEW s, Lists(s, T), NEW e \in T
  PROVE  Lists(RemoveAt(s, Find(s, e)), T \ {e})
  <1> DEFINE k == Find(s, e)
             t == RemoveAt(s, k)
  <1>1. /\ s \in Seq(Object) /\ Len(s) \in Nat
        /\ \A i \in 1..Len(s) : s[i] \in T
        /\ \A x \in T : \E i \in 1..Len(s) : s[i] = x
        /\ \A i, j \in 1..Len(s) : s[i] = s[j] => i = j
    BY ListFacts
  <1>2. k \in 1..Len(s) /\ s[k] = e
    BY ListsFind
  <1> HIDE DEF k
  <1>3. /\ t \in Seq(Object) /\ Len(t) = Len(s) - 1
        /\ \A j \in 1..(Len(s) - 1) : t[j] = IF j < k THEN s[j] ELSE s[j + 1]
    <2>1. s \in Seq(Object)
      BY <1>1
    <2>2. k \in 1..(Len(s) + 1) /\ k <= Len(s)
      BY <1>1, <1>2
    <2>3. /\ RemoveAt(s, k) \in Seq(Object)
          /\ k <= Len(s) => Len(RemoveAt(s, k)) = Len(s) - 1
          /\ k <= Len(s) => \A j \in 1..(Len(s) - 1) :
               RemoveAt(s, k)[j] = IF j < k THEN s[j] ELSE s[j + 1]
      BY ONLY SMTT(30), <2>1, <2>2, RemoveAtProperties
    <2> QED BY <2>2, <2>3
  <1> HIDE DEF t
  <1>4. \A i \in 1..Len(t) : \/ i < k /\ i \in 1..Len(s) /\ t[i] = s[i]
                             \/ i >= k /\ i + 1 \in 1..Len(s) /\ t[i] = s[i + 1]
    BY <1>1, <1>2, <1>3
  <1>5. \A i \in 1..Len(t) : t[i] \in T \ {e}
    <2> SUFFICES ASSUME NEW i \in 1..Len(t) PROVE t[i] \in T \ {e}
      OBVIOUS
    <2>1. PICK j \in 1..Len(s) : j # k /\ t[i] = s[j]
      <3>1. CASE i < k /\ i \in 1..Len(s) /\ t[i] = s[i]
        BY <3>1, <1>2
      <3>2. CASE i >= k /\ i + 1 \in 1..Len(s) /\ t[i] = s[i + 1]
        <4>1. i + 1 # k
          BY <3>2, <1>2
        <4> QED BY <3>2, <4>1
      <3> QED BY <1>4, <3>1, <3>2
    <2> QED BY <2>1, <1>1, <1>2
  <1>6. ASSUME NEW x \in T \ {e} PROVE \E i \in 1..Len(t) : t[i] = x
    <2>1. PICK i \in 1..Len(s) : s[i] = x
      BY <1>1
    <2>2. i # k
      BY <1>2, <2>1
    <2>3. CASE i < k
      <3>1. i \in 1..Len(t) /\ t[i] = x
        BY <1>1, <1>2, <1>3, <2>1, <2>3
      <3> QED BY <3>1
    <2>4. CASE i > k
      <3>1. i - 1 \in 1..Len(t) /\ t[i - 1] = x
        BY <1>1, <1>2, <1>3, <2>1, <2>4
      <3> QED BY <3>1
    <2> QED BY <1>2, <2>2, <2>3, <2>4
  <1>7. ASSUME NEW i \in 1..Len(t), NEW j \in 1..Len(t), t[i] = t[j] PROVE i = j
    <2>1. i \in Int /\ j \in Int /\ k \in Int
      BY <1>1, <1>2, <1>3
    <2>2. PICK l \in 1..Len(s) : t[i] = s[l] /\ l = (IF i < k THEN i ELSE i + 1)
      BY <1>4, <2>1
    <2>3. PICK m \in 1..Len(s) : t[j] = s[m] /\ m = (IF j < k THEN j ELSE j + 1)
      BY <1>4, <2>1
    <2>4. l = m
      BY <1>1, <1>7, <2>2, <2>3
    <2> QED BY <2>1, <2>2, <2>3, <2>4
  <1>8. Lists(t, T \ {e})
    BY <1>3, <1>5, <1>6, <1>7, ListIntro
  <1> QED BY <1>8 DEF t, k

\* The elements of list s are put into another order; `at' says where t[i] was.
Reorders(s, t, at) ==
  /\ at \in [1..Len(t) -> 1..Len(s)]
  /\ \A i \in 1..Len(t) : t[i] = s[at[i]]
  /\ \A i, j \in 1..Len(t) : at[i] = at[j] => i = j
  /\ \A i \in 1..Len(s) : \E j \in 1..Len(t) : at[j] = i

LEMMA ListsReordered ==
  ASSUME NEW T, NEW s, Lists(s, T), NEW t \in Seq(Object), NEW at, Reorders(s, t, at)
  PROVE  Lists(t, T)
  <1>1. /\ s \in Seq(Object) /\ Len(s) \in Nat
        /\ \A i \in 1..Len(s) : s[i] \in T
        /\ \A x \in T : \E i \in 1..Len(s) : s[i] = x
        /\ \A i, j \in 1..Len(s) : s[i] = s[j] => i = j
    BY ListFacts
  <1>2. \A i \in 1..Len(t) : t[i] \in T
    BY <1>1 DEF Reorders
  <1>3. ASSUME NEW x \in T PROVE \E i \in 1..Len(t) : t[i] = x
    <2>1. PICK i \in 1..Len(s) : s[i] = x
      BY <1>1
    <2>2. PICK j \in 1..Len(t) : at[j] = i
      BY <2>1 DEF Reorders
    <2> QED BY <2>1, <2>2 DEF Reorders
  <1>4. ASSUME NEW i \in 1..Len(t), NEW j \in 1..Len(t), t[i] = t[j] PROVE i = j
    <2>1. /\ at[i] \in 1..Len(s) /\ t[i] = s[at[i]]
          /\ at[j] \in 1..Len(s) /\ t[j] = s[at[j]]
      BY DEF Reorders
    <2>2. at[i] = at[j]
      BY ZenonT(60), <1>1, <1>4, <2>1
    <2> QED BY <2>2 DEF Reorders
  <1> QED BY <1>2, <1>3, <1>4, ListIntro

\* Entering an element of a list a second time and removing it from its first
\* place, one further on if it has been entered at or before it, moves it.
LEMMA ListsMoved ==
  ASSUME NEW T, NEW s, Lists(s, T), NEW e \in T, NEW before \in Node,
         before # NULL => before \in T
  PROVE  LET i == Find(s, e)
             j == Find(s, before)
             pos == IF before # NULL /\ j <= i THEN i + 1 ELSE i
             entered == IF before = NULL THEN Append(s, e) ELSE InsertAt(s, j, e)
         IN Lists(RemoveAt(entered, pos), T)
  <1> DEFINE i == Find(s, e)
             j == Find(s, before)
             pos == IF before # NULL /\ j <= i THEN i + 1 ELSE i
             entered == IF before = NULL THEN Append(s, e) ELSE InsertAt(s, j, e)
             k == IF before = NULL THEN Len(s) + 1 ELSE j
             t == RemoveAt(entered, pos)
  <1>1. s \in Seq(Object) /\ Len(s) \in Nat /\ e \in Object
    BY ListFacts
  <1>2. i \in 1..Len(s) /\ s[i] = e
    BY ListsFind
  <1>3. before # NULL => j \in 1..Len(s)
    BY ListsFind
  <1> HIDE DEF i, j
  <1>4. /\ k \in 1..(Len(s) + 1)
        /\ pos = IF k <= i THEN i + 1 ELSE i
        /\ entered \in Seq(Object) /\ Len(entered) = Len(s) + 1
        /\ \A l \in 1..(Len(s) + 1) :
             entered[l] = IF l < k THEN s[l] ELSE IF l = k THEN e ELSE s[l - 1]
    <2>1. CASE before = NULL
      <3>1. /\ entered \in Seq(Object) /\ Len(entered) = Len(s) + 1
            /\ \A l \in 1..Len(s) : entered[l] = s[l]
            /\ entered[Len(s) + 1] = e
        BY <1>1, <2>1, AppendProperties
      <3> HIDE DEF entered
      <3>2. \A l \in 1..(Len(s) + 1) : l # Len(s) + 1 => l \in 1..Len(s) /\ l < Len(s) + 1
        <4> DEFINE n == Len(s)
        <4>1. n \in Nat
          BY <1>1
        <4> HIDE DEF n
        <4>2. \A l \in 1..(n + 1) : l # n + 1 => l \in 1..n /\ l < n + 1
          BY <4>1
        <4> QED BY <4>2 DEF n
      <3>3. k = Len(s) + 1 /\ pos = i /\ ~(k <= i)
        BY <1>1, <1>2, <2>1
      <3> HIDE DEF k, pos
      <3> QED BY <1>1, <3>1, <3>2, <3>3
    <2>2. CASE before # NULL
      <3>1. k = j /\ j \in 1..Len(s) /\ entered = InsertAt(s, j, e)
        BY <1>3, <2>2
      <3>2. /\ InsertAt(s, j, e) \in Seq(Object)
            /\ Len(InsertAt(s, j, e)) = Len(s) + 1
            /\ \A l \in 1..(Len(s) + 1) :
                 InsertAt(s, j, e)[l] = IF l < j THEN s[l]
                                        ELSE IF l = j THEN e ELSE s[l - 1]
        <4>1. s \in Seq(Object) /\ j \in 1..Len(s) /\ e \in Object
          BY <1>1, <3>1
        <4> QED BY ONLY <4>1, InsertAtProperties
      <3>3. pos = (IF k <= i THEN i + 1 ELSE i) /\ k \in 1..(Len(s) + 1)
        BY <1>1, <2>2, <3>1
      <3>4. entered \in Seq(Object) /\ Len(entered) = Len(s) + 1
        BY <3>1, <3>2
      <3>5. \A l \in 1..(Len(s) + 1) :
              entered[l] = IF l < k THEN s[l] ELSE IF l = k THEN e ELSE s[l - 1]
        <4> SUFFICES ASSUME NEW l \in 1..(Len(s) + 1)
                     PROVE  entered[l] = IF l < k THEN s[l] ELSE IF l = k THEN e ELSE s[l - 1]
          OBVIOUS
        <4>1. InsertAt(s, j, e)[l] = IF l < j THEN s[l] ELSE IF l = j THEN e ELSE s[l - 1]
          BY <3>2
        <4> HIDE DEF k, entered
        <4> QED BY <4>1, <3>1
      <3> HIDE DEF k, pos, entered
      <3> QED BY <3>3, <3>4, <3>5
    <2> QED BY <2>1, <2>2
  <1> HIDE DEF k, pos, entered
  <1>5. /\ t \in Seq(Object) /\ Len(t) = Len(s)
        /\ \A l \in 1..Len(s) : t[l] = IF l < pos THEN entered[l] ELSE entered[l + 1]
    <2>1. pos \in 1..(Len(entered) + 1) /\ pos <= Len(entered) /\ Len(entered) - 1 = Len(s)
      BY <1>1, <1>2, <1>4
    <2> QED BY ZenonT(60), <1>4, <2>1, RemoveAtProperties
  <1> HIDE DEF t
  <1> DEFINE n == Len(s)
             at == [l \in 1..n |->
                      IF k <= i THEN IF l < k THEN l ELSE IF l = k THEN i
                                     ELSE IF l <= i THEN l - 1 ELSE l
                      ELSE IF l < i THEN l ELSE IF l + 1 < k THEN l + 1
                           ELSE IF l + 1 = k THEN i ELSE l]
             back == [l \in 1..n |->
                        IF k <= i THEN IF l < k THEN l ELSE IF l = i THEN k
                                       ELSE IF l < i THEN l + 1 ELSE l
                        ELSE IF l < i THEN l ELSE IF l = i THEN k - 1
                             ELSE IF l < k THEN l - 1 ELSE l]
  <1>6. n \in Nat /\ i \in 1..n /\ k \in 1..(n + 1)
    BY <1>1, <1>2, <1>4
  <1>7. at \in [1..n -> 1..n]
    BY <1>6
  <1>8. \A l \in 1..n : back[l] \in 1..n /\ at[back[l]] = l
    BY <1>6
  <1>9. \A l \in 1..n : back[at[l]] = l
    BY <1>6
  <1>10. \A l \in 1..n : t[l] = s[at[l]]
    <2> TAKE l \in 1..n
    <2>1. t[l] = IF l < pos THEN entered[l] ELSE entered[l + 1]
      BY <1>5
    <2>2. l \in 1..(n + 1) /\ l + 1 \in 1..(n + 1) /\ l \in Int
      BY <1>6
    <2>3. /\ entered[l] = IF l < k THEN s[l] ELSE IF l = k THEN e ELSE s[l - 1]
          /\ entered[l + 1] = IF l + 1 < k THEN s[l + 1]
                              ELSE IF l + 1 = k THEN e ELSE s[l]
      BY <1>4, <2>2
    <2>4. CASE k <= i
      BY <1>2, <1>4, <1>6, <2>1, <2>2, <2>3, <2>4
    <2>5. CASE k > i
      BY <1>2, <1>4, <1>6, <2>1, <2>2, <2>3, <2>5
    <2> QED BY <1>6, <2>4, <2>5
  <1> HIDE DEF at, back
  <1>11. \A l, m \in 1..n : at[l] = at[m] => l = m
    BY <1>9
  <1>12. \A l \in 1..n : \E m \in 1..n : at[m] = l
    BY <1>8
  <1>13. Lists(t, T)
    <2>1. Reorders(s, t, at)
      BY <1>5, <1>7, <1>10, <1>11, <1>12 DEF Reorders
    <2> QED BY <1>5, <2>1, ListsReordered
  <1> QED BY <1>13 DEF t, entered, pos, i, j

-----------------------------------------------------------------------------
(* Forests: the object states, parents and children of one revision *)

RowTyped(o, pr, ch) ==
  /\ o \in [Object -> Addr \cup {None}]
  /\ pr \in [Object -> Node \cup {Absent}]
  /\ ch \in [Node -> Seq(Object)]

Below(pr, n) == {ob \in Object : pr[ob] = n}

Forest(o, pr, ch) ==
  /\ RowTyped(o, pr, ch)
  /\ \A ob \in Object : o[ob] = None <=> pr[ob] = Absent
  /\ \A n \in Node : Lists(ch[n], Below(pr, n))
  /\ \A ob \in Object : o[ob] = None => Below(pr, ob) = {}

LEMMA ForestIntro ==
  ASSUME NEW o \in [Object -> Addr \cup {None}],
         NEW pr \in [Object -> Node \cup {Absent}],
         NEW ch, ch = [n \in Node |-> ch[n]],
         \A ob \in Object : o[ob] = None <=> pr[ob] = Absent,
         \A n \in Node : Lists(ch[n], Below(pr, n)),
         \A ob \in Object : o[ob] = None => Below(pr, ob) = {}
  PROVE  Forest(o, pr, ch)
  <1>1. \A n \in Node : ch[n] \in Seq(Object)
    BY DEF Lists
  <1>2. ch \in [Node -> Seq(Object)]
    BY <1>1
  <1> QED BY <1>2 DEF Forest, RowTyped

\* The maps of all revisions are forests.
LEMMA TreeRows ==
  ASSUME StateTyped
  PROVE  TreeConsistent <=> \A r \in Rev : Forest(obstates[r], parent[r], children[r])
  <1>1. \A r \in Rev : RowTyped(obstates[r], parent[r], children[r])
    BY DEF StateTyped, RowTyped
  <1>2. ASSUME NEW r \in Rev, NEW n \in Node
        PROVE  Lists(children[r][n], Below(parent[r], n)) <=>
                 /\ IsInjective(children[r][n])
                 /\ \A ob \in Object : ob \in ToSet(children[r][n]) <=> parent[r][ob] = n
    <2>1. children[r][n] \in Seq(Object)
      BY DEF StateTyped
    <2>2. ToSet(children[r][n]) \subseteq Object
      BY <2>1, LenProperties, ElementOfSeq DEF ToSet
    <2> QED BY <2>1, <2>2 DEF Lists, Below
  <1>3. ASSUME NEW r \in Rev, NEW ob \in Object,
               Lists(children[r][ob], Below(parent[r], ob))
        PROVE  children[r][ob] = <<>> <=> Below(parent[r], ob) = {}
    <2>1. Below(parent[r], ob) = {} => children[r][ob] = <<>>
      BY <1>3, EmptyLists
    <2>2. ASSUME children[r][ob] = <<>> PROVE Below(parent[r], ob) = {}
      <3>1. ToSet(<<>>) = {}
        BY DEF ToSet
      <3> QED BY <1>3, <2>2, <3>1 DEF Lists
    <2> QED BY <2>1, <2>2
  <1>4. Object \subseteq Node
    BY NodeObject
  <1>5. ASSUME NEW r \in Rev
        PROVE  Forest(obstates[r], parent[r], children[r]) <=>
                 /\ \A ob \in Object : Exists(r, ob) <=> parent[r][ob] # Absent
                 /\ \A n \in Node : IsInjective(children[r][n])
                 /\ \A n \in Node, ob \in Object :
                      ob \in ToSet(children[r][n]) <=> parent[r][ob] = n
                 /\ \A ob \in Object : ~Exists(r, ob) => children[r][ob] = <<>>
    <2>1. (\A n \in Node : Lists(children[r][n], Below(parent[r], n))) <=>
            /\ \A n \in Node : IsInjective(children[r][n])
            /\ \A n \in Node, ob \in Object :
                 ob \in ToSet(children[r][n]) <=> parent[r][ob] = n
      BY <1>2
    <2>2. (\A n \in Node : Lists(children[r][n], Below(parent[r], n))) =>
            \A ob \in Object : children[r][ob] = <<>> <=> Below(parent[r], ob) = {}
      BY <1>3, <1>4
    <2> QED BY <1>1, <2>1, <2>2 DEF Forest, Exists
  <1> QED BY <1>5 DEF TreeConsistent

LEMMA EmptyForest == Forest(NoObstates, NoParents, NoChildren)
  <1>1. /\ NoObstates \in [Object -> Addr \cup {None}]
        /\ NoParents \in [Object -> Node \cup {Absent}]
        /\ NoChildren = [n \in Node |-> NoChildren[n]]
    BY DEF NoObstates, NoParents, NoChildren
  <1>2. \A n \in Node : Below(NoParents, n) = {}
    BY NodeObject DEF NoParents, Below
  <1>3. \A n \in Node : Lists(NoChildren[n], Below(NoParents, n))
    BY <1>2, EmptyLists DEF NoChildren
  <1>4. \A ob \in Object : NoObstates[ob] = None /\ NoParents[ob] = Absent
    BY DEF NoObstates, NoParents
  <1> QED BY <1>1, <1>2, <1>3, <1>4, NodeObject, ForestIntro

\* An object which wasn't there becomes the last one below a node which is.
LEMMA ForestAdd ==
  ASSUME NEW o, NEW pr, NEW ch, Forest(o, pr, ch),
         NEW ob \in Object, pr[ob] = Absent, NEW p \in Addr,
         NEW n \in Node, n # NULL => n # ob /\ o[n] # None
  PROVE  Forest([o EXCEPT ![ob] = p], [pr EXCEPT ![ob] = n],
                [ch EXCEPT ![n] = Append(@, ob)])
  <1> DEFINE o2 == [o EXCEPT ![ob] = p]
             pr2 == [pr EXCEPT ![ob] = n]
             ch2 == [ch EXCEPT ![n] = Append(@, ob)]
  <1>1. /\ o \in [Object -> Addr \cup {None}]
        /\ pr \in [Object -> Node \cup {Absent}]
        /\ ch \in [Node -> Seq(Object)]
        /\ \A x \in Object : o[x] = None <=> pr[x] = Absent
        /\ \A m \in Node : Lists(ch[m], Below(pr, m))
        /\ \A x \in Object : o[x] = None => Below(pr, x) = {}
    BY DEF Forest, RowTyped
  <1>2. Absent \notin Node /\ NULL \notin Object /\ p # None
    BY NodeObject, StorageAssumption
  <1>3. o2 \in [Object -> Addr \cup {None}] /\ pr2 \in [Object -> Node \cup {Absent}]
    BY <1>1
  <1>4. ch2 = [m \in Node |-> ch2[m]]
    BY <1>1
  <1>5. \A x \in Object : o2[x] = None <=> pr2[x] = Absent
    BY <1>1, <1>2
  <1>6. Below(pr2, n) = Below(pr, n) \cup {ob} /\ ob \notin Below(pr, n)
    BY <1>1, <1>2 DEF Below
  <1>7. \A m \in Node : m # n => Below(pr2, m) = Below(pr, m)
    BY <1>1, <1>2 DEF Below
  <1>8. \A m \in Node : Lists(ch2[m], Below(pr2, m))
    <2> TAKE m \in Node
    <2>1. CASE m = n
      <3>1. Lists(Append(ch[n], ob), Below(pr, n) \cup {ob})
        BY <1>1, <1>6, ListsAppend
      <3> QED BY <1>1, <1>6, <2>1, <3>1
    <2>2. CASE m # n
      BY <1>1, <1>7, <2>2
    <2> QED BY <2>1, <2>2
  <1>9. \A x \in Object : o2[x] = None => Below(pr2, x) = {}
    <2> SUFFICES ASSUME NEW x \in Object, o2[x] = None PROVE Below(pr2, x) = {}
      OBVIOUS
    <2>1. x # ob /\ o[x] = None
      BY <1>1, <1>2
    <2>2. x # n
      BY <1>2, <2>1
    <2>3. x \in Node
      BY NodeObject
    <2> QED BY <1>1, <1>7, <2>1, <2>2, <2>3
  <1> QED BY <1>3, <1>4, <1>5, <1>8, <1>9, ForestIntro

\* What an object keeps its data in doesn't matter.
LEMMA ForestSet ==
  ASSUME NEW o, NEW pr, NEW ch, Forest(o, pr, ch), NEW o2 \in [Object -> Addr \cup {None}],
         \A ob \in Object : o2[ob] = None <=> o[ob] = None
  PROVE  Forest(o2, pr, ch)
  BY DEF Forest, RowTyped

\* An object is moved to a node which is there.
LEMMA ForestRelocate ==
  ASSUME NEW o, NEW pr, NEW ch, Forest(o, pr, ch),
         NEW ob \in Object, o[ob] # None, NEW new \in Node, new # NULL => o[new] # None,
         NEW before \in Node, before # NULL => before \in Below(pr, new)
  PROVE  Forest(o, [pr EXCEPT ![ob] = new], Relocated(ch, pr[ob], new, ob, before))
  <1> DEFINE old == pr[ob]
             i == Find(ch[old], ob)
             j == Find(ch[new], before)
             pos == IF before # NULL /\ new = old /\ j <= i THEN i + 1 ELSE i
             inserted == [ch EXCEPT ![new] = IF before = NULL THEN Append(@, ob)
                                             ELSE InsertAt(@, j, ob)]
             pr2 == [pr EXCEPT ![ob] = new]
             ch2 == [inserted EXCEPT ![old] = RemoveAt(@, pos)]
  <1>1. /\ o \in [Object -> Addr \cup {None}]
        /\ pr \in [Object -> Node \cup {Absent}]
        /\ ch \in [Node -> Seq(Object)]
        /\ \A x \in Object : o[x] = None <=> pr[x] = Absent
        /\ \A m \in Node : Lists(ch[m], Below(pr, m))
        /\ \A x \in Object : o[x] = None => Below(pr, x) = {}
    BY DEF Forest, RowTyped
  <1>2. Absent \notin Node /\ NULL \notin Object
    BY NodeObject
  <1>3. old \in Node /\ ob \in Below(pr, old)
    BY <1>1 DEF Below
  <1>4. pr2 \in [Object -> Node \cup {Absent}]
    BY <1>1
  <1>5. ch2 = [m \in Node |-> ch2[m]]
    BY <1>1
  <1>6. \A x \in Object : o[x] = None <=> pr2[x] = Absent
    BY <1>1, <1>2
  <1>7. \A m \in Node : m # old /\ m # new => ch2[m] = ch[m] /\ Below(pr2, m) = Below(pr, m)
    BY <1>1 DEF Below
  <1>8. ASSUME new = old
        PROVE  Lists(ch2[new], Below(pr2, new))
    <2>1. LET p == IF before # NULL /\ j <= i THEN i + 1 ELSE i
              e == IF before = NULL THEN Append(ch[new], ob)
                   ELSE InsertAt(ch[new], j, ob)
          IN Lists(RemoveAt(e, p), Below(pr, new))
      BY <1>1, <1>3, <1>8, ListsMoved
    <2>2. pos = IF before # NULL /\ j <= i THEN i + 1 ELSE i
      BY <1>8
    <2> HIDE DEF i, j
    <2>3. ch2[new] = RemoveAt(IF before = NULL THEN Append(ch[new], ob)
                              ELSE InsertAt(ch[new], j, ob), pos)
      BY <1>1, <1>8
    <2>4. Below(pr2, new) = Below(pr, new)
      BY <1>1, <1>3, <1>8 DEF Below
    <2> HIDE DEF pos, ch2, pr2
    <2> QED BY <2>1, <2>2, <2>3, <2>4
  <1>9. ASSUME new # old
        PROVE  Lists(ch2[new], Below(pr2, new)) /\ Lists(ch2[old], Below(pr2, old))
    <2>1. Below(pr2, new) = Below(pr, new) \cup {ob} /\ ob \notin Below(pr, new)
      BY <1>1, <1>9 DEF Below
    <2>2. Below(pr2, old) = Below(pr, old) \ {ob}
      BY <1>1, <1>9 DEF Below
    <2> HIDE DEF pr2
    <2>3. Lists(RemoveAt(ch[old], i), Below(pr2, old))
      BY <1>1, <1>3, <2>2, ListsRemove
    <2>4. before # NULL => j \in 1..Len(ch[new])
      BY <1>1, ListsFind
    <2>5. before = NULL => Lists(Append(ch[new], ob), Below(pr2, new))
      BY <1>1, <2>1, ListsAppend
    <2>6. before # NULL => Lists(InsertAt(ch[new], j, ob), Below(pr2, new))
      <3> HIDE DEF j
      <3> QED BY <1>1, <2>1, <2>4, ListsInsert
    <2> HIDE DEF i, j
    <2>7. /\ ch2[new] = IF before = NULL THEN Append(ch[new], ob)
                        ELSE InsertAt(ch[new], j, ob)
          /\ ch2[old] = RemoveAt(ch[old], i)
      BY <1>1, <1>3, <1>9
    <2> HIDE DEF ch2
    <2> QED BY <2>3, <2>5, <2>6, <2>7
  <1>10. \A m \in Node : Lists(ch2[m], Below(pr2, m))
    <2> HIDE DEF ch2, pr2
    <2> QED BY <1>1, <1>7, <1>8, <1>9
  <1>11. \A x \in Object : o[x] = None => Below(pr2, x) = {}
    BY <1>1, <1>2 DEF Below
  <1>12. Relocated(ch, pr[ob], new, ob, before) = ch2
    BY DEF Relocated
  <1> HIDE DEF ch2, pr2
  <1>13. Forest(o, pr2, ch2)
    BY <1>1, <1>4, <1>5, <1>6, <1>10, <1>11, ForestIntro
  <1> QED BY <1>12, <1>13 DEF pr2

\* An object is removed together with the objects below it, which themselves
\* have none below them.
LEMMA ForestDelete ==
  ASSUME NEW o, NEW pr, NEW ch, Forest(o, pr, ch),
         NEW ob \in Object, pr[ob] # Absent,
         \A x \in Object : pr[x] \in Object => pr[pr[x]] = NULL,
         NEW doomed, doomed = Doomed(ch, ob),
         NEW o2, o2 = [x \in Object |-> IF x \in doomed THEN None ELSE o[x]],
         NEW pr2, pr2 = [x \in Object |-> IF x \in doomed THEN Absent ELSE pr[x]],
         NEW ch2,
         ch2 = [[n \in Node |-> IF n \in doomed THEN <<>> ELSE ch[n]]
                  EXCEPT ![pr[ob]] = RemoveAt(@, Find(@, ob))]
  PROVE  Forest(o2, pr2, ch2)
  <1> DEFINE above == pr[ob]
  <1>1. /\ o \in [Object -> Addr \cup {None}]
        /\ pr \in [Object -> Node \cup {Absent}]
        /\ ch \in [Node -> Seq(Object)]
        /\ \A x \in Object : o[x] = None <=> pr[x] = Absent
        /\ \A m \in Node : Lists(ch[m], Below(pr, m))
        /\ \A x \in Object : o[x] = None => Below(pr, x) = {}
    BY DEF Forest, RowTyped
  <1>2. Absent \notin Node /\ NULL \notin Object /\ Object \subseteq Node
    BY NodeObject
  <1>3. doomed = {ob} \cup Below(pr, ob)
    BY <1>1, <1>2 DEF Doomed, Lists
  <1>4. above \in Node /\ ob \in Below(pr, above)
    BY <1>1 DEF Below
  <1>5. above \notin doomed
    <2>1. CASE above = NULL
      BY <1>2, <1>3, <2>1 DEF Below
    <2>2. CASE above \in Object
      <3>1. pr[above] = NULL
        BY <2>2
      <3>2. above # ob
        BY <1>2, <2>2, <3>1
      <3> QED BY <1>2, <1>3, <3>1, <3>2 DEF Below
    <2> QED BY <1>4, <2>1, <2>2 DEF Node, Object, NULL
  <1>6. ch2[above] = RemoveAt(ch[above], Find(ch[above], ob))
    BY <1>4, <1>5
  <1>7. \A m \in Node : m # above => ch2[m] = IF m \in doomed THEN <<>> ELSE ch[m]
    OBVIOUS
  <1>8. ch2 = [m \in Node |-> ch2[m]]
    OBVIOUS
  <1>9. o2 \in [Object -> Addr \cup {None}] /\ pr2 \in [Object -> Node \cup {Absent}]
    BY <1>1
  <1>10. \A x \in Object : o2[x] = None <=> pr2[x] = Absent
    BY <1>1
  <1>11. \A m \in Node : Below(pr2, m) = Below(pr, m) \ doomed
    BY <1>2 DEF Below
  <1>12. \A m \in Node : m \in doomed => Below(pr, m) \subseteq doomed
    <2> SUFFICES ASSUME NEW m \in Node, m \in doomed, NEW x \in Below(pr, m)
                 PROVE  x \in doomed
      OBVIOUS
    <2>1. CASE m = ob
      BY <1>3, <2>1
    <2>2. CASE m \in Below(pr, ob)
      <3>1. x \in Object /\ pr[x] = m /\ m \in Object /\ pr[m] = ob
        BY <2>2 DEF Below
      <3>2. pr[m] = NULL
        BY <3>1
      <3> QED BY <1>2, <3>1, <3>2
    <2> QED BY <1>3, <2>1, <2>2
  <1>13. \A m \in Node : m \notin doomed /\ m # above => Below(pr, m) \cap doomed = {}
    BY <1>3 DEF Below
  <1>14. Below(pr, above) \cap doomed = {ob}
    <2>1. above # ob
      BY <1>3, <1>5
    <2> QED BY <1>3, <1>4, <2>1 DEF Below
  <1>15. \A m \in Node : Lists(ch2[m], Below(pr2, m))
    <2> TAKE m \in Node
    <2>1. CASE m = above
      <3>1. Below(pr2, m) = Below(pr, above) \ {ob}
        BY <1>11, <1>14, <2>1
      <3> QED BY <1>1, <1>4, <1>6, <2>1, <3>1, ListsRemove
    <2>2. CASE m # above /\ m \in doomed
      <3>1. Below(pr2, m) = {}
        BY <1>11, <1>12, <2>2
      <3> QED BY <1>7, <2>2, <3>1, EmptyLists
    <2>3. CASE m # above /\ m \notin doomed
      <3>1. Below(pr2, m) = Below(pr, m)
        BY <1>11, <1>13, <2>3
      <3> QED BY <1>1, <1>7, <2>3, <3>1
    <2> QED BY <2>1, <2>2, <2>3
  <1>16. \A x \in Object : o2[x] = None => Below(pr2, x) = {}
    BY <1>1, <1>2, <1>11, <1>12
  <1> QED BY <1>8, <1>9, <1>10, <1>15, <1>16, ForestIntro

-----------------------------------------------------------------------------
(* Revisions before and after a step *)

Shallow(r) ==
  \A ob \in Object : parent[r][ob] \in Object =>
    /\ TypeOf(r, ob) = Text
    /\ TypeOf(r, parent[r][ob]) \in Holders
    /\ parent[r][parent[r][ob]] = NULL

RowOK(r) == Forest(obstates[r], parent[r], children[r]) /\ Shallow(r)

RowsOK == \A r \in Rev : RowOK(r)

LEMMA RowsOKMeans ==
  (TypeOK => (RowsOK <=> TreeConsistent /\ AttachmentsTyped))
    /\ (TypeOK' => (RowsOK' <=> TreeConsistent' /\ AttachmentsTyped'))
  <1>1. TypeOK => (RowsOK <=> TreeConsistent /\ AttachmentsTyped)
    BY TypeOKParts, TreeRows DEF TypedParts, RowsOK, RowOK, Shallow, AttachmentsTyped
  <1>2. (TypeOK => (RowsOK <=> TreeConsistent /\ AttachmentsTyped))'
    BY <1>1, PTL
  <1> QED BY <1>1, <1>2

\* An object which is attached is there, and so is what it is attached to.
LEMMA AttachedExist ==
  ASSUME NEW o, NEW pr, NEW ch, Forest(o, pr, ch), NEW ob \in Object
  PROVE  /\ pr[ob] \in Node => o[ob] \in Addr
         /\ pr[ob] \in Object => o[pr[ob]] \in Addr
         /\ o[ob] \in Addr => pr[ob] \in Node
         /\ ch[ob] # <<>> => o[ob] \in Addr
  <1>1. Absent \notin Node /\ Object \subseteq Node /\ None \notin Addr
    BY NodeObject, StorageAssumption
  <1>2. ob \in Below(pr, pr[ob])
    BY DEF Below
  <1>3. o[ob] = None => ch[ob] = <<>>
    <2>1. Lists(ch[ob], Below(pr, ob)) /\ (o[ob] = None => Below(pr, ob) = {})
      BY <1>1 DEF Forest
    <2> QED BY <2>1, EmptyLists
  <1> QED BY <1>1, <1>2, <1>3 DEF Forest, RowTyped

\* Where an object state that was in use is still in use, it is still the same.
LEMMA CellKept ==
  ASSUME RefcountInv, RefcountInv', MemoryKept, NEW p \in Addr,
         NEW r \in Rev, NEW ob \in Object, obstates[r][ob] = p,
         NEW s \in Rev, NEW x \in Object, obstates'[s][x] = p
  PROVE  cell'[p] = cell[p]
  <1>1. ~IsFree(p)
    BY FreeUnused
  <1>2. refcnt'[p] = Cardinality(Uses(p)')
    <2>1. RefcountsExact'
      BY DEF RefcountInv
    <2> QED BY <2>1 DEF RefcountsExact, Uses
  <1>3. Uses(p)' \in SUBSET (Rev \X Object) /\ <<s, x>> \in Uses(p)'
    BY DEF Uses
  <1>4. refcnt'[p] # 0
    BY <1>2, <1>3, SlotsFinite, FS_Subset, FS_EmptySet
  <1> QED BY <1>1, <1>4 DEF MemoryKept

LEMMA TypeKept ==
  ASSUME RefcountInv, RefcountInv', MemoryKept,
         NEW r \in Rev, NEW ob \in Object, obstates[r][ob] \in Addr,
         NEW s \in Rev, NEW x \in Object, obstates'[s][x] = obstates[r][ob]
  PROVE  TypeOf(s, x)' = TypeOf(r, ob)
  <1>1. \A p \in Addr : obstates[r][ob] = p => cell'[p] = cell[p]
    BY CellKept
  <1> QED BY <1>1 DEF TypeOf

\* A revision which becomes what one was before the step, or stays what it was.
LEMMA RowCopied ==
  ASSUME RefcountInv, RefcountInv', MemoryKept, NEW from \in Rev, RowOK(from),
         NEW r \in Rev, obstates'[r] = obstates[from],
         parent'[r] = parent[from], children'[r] = children[from]
  PROVE  RowOK(r)'
  <1>1. Forest(obstates[r], parent[r], children[r])'
    BY DEF RowOK, Forest, RowTyped, Below, Lists
  <1>2. ASSUME NEW ob \in Object, parent'[r][ob] \in Object
        PROVE  /\ TypeOf(r, ob)' = Text
               /\ TypeOf(r, parent[r][ob])' \in Holders
               /\ parent'[r][parent'[r][ob]] = NULL
    <2>1. PICK above \in Object : above = parent[from][ob] /\ above = parent'[r][ob]
      BY <1>2
    <2>2. obstates[from][ob] \in Addr /\ obstates[from][above] \in Addr
      BY <2>1, AttachedExist, NodeObject DEF RowOK
    <2>3. TypeOf(from, ob) = Text /\ TypeOf(from, above) \in Holders
          /\ parent[from][above] = NULL
      BY <2>1 DEF RowOK, Shallow
    <2>4. TypeOf(r, ob)' = TypeOf(from, ob) /\ TypeOf(r, above)' = TypeOf(from, above)
      BY <2>2, TypeKept
    <2> QED BY <2>1, <2>3, <2>4 DEF TypeOf
  <1>3. Shallow(r)'
    BY <1>2 DEF Shallow, TypeOf
  <1> QED BY <1>1, <1>3 DEF RowOK

\* A step which changes one revision only.
RowUntouched(r) ==
  /\ obstates'[r] = obstates[r] /\ parent'[r] = parent[r]
  /\ children'[r] = children[r]

LEMMA OtherRows ==
  ASSUME RefcountInv, RefcountInv', RowsOK, MemoryKept, NEW r \in Rev,
         \A s \in Rev : s # r => RowUntouched(s), RowOK(r)'
  PROVE  RowsOK'
  <1>1. ASSUME NEW s \in Rev, s # r PROVE RowOK(s)'
    BY <1>1, RowCopied DEF RowsOK, RowUntouched
  <1> QED BY <1>1 DEF RowsOK

LEMMA AllRows ==
  ASSUME RefcountInv, RefcountInv', RowsOK, MemoryKept,
         \A s \in Rev : RowUntouched(s)
  PROVE  RowsOK'
  BY RowCopied DEF RowsOK, RowUntouched

\* A step which doesn't touch any of the maps.
LEMMA SameRows ==
  ASSUME RefcountInv, RefcountInv', RowsOK,
         UNCHANGED <<obstates, parent, children, cell>>
  PROVE  RowsOK'
  <1>1. MemoryKept /\ \A s \in Rev : RowUntouched(s)
    BY DEF MemoryKept, RowUntouched
  <1> QED BY <1>1, AllRows

-----------------------------------------------------------------------------
(* What the steps do to the forest *)

LEMMA RowTypes ==
  ASSUME TypeOK, NEW r \in Rev
  PROVE  RowTyped(obstates[r], parent[r], children[r])
  BY DEF TypeOK, RowTyped

\* Something which wasn't there is entered at the end of a list.
LEMMA AddTree ==
  ASSUME RefcountInv, RefcountInv', RowsOK, MemoryKept,
         NEW r \in Rev, NEW ob \in Object, parent[r][ob] = Absent,
         NEW p \in Addr, NEW n \in Node,
         n # NULL => n # ob /\ obstates[r][n] # None /\ TypeOf(r, ob)' = Text
                     /\ TypeOf(r, n) \in Holders /\ parent[r][n] = NULL,
         obstates' = [obstates EXCEPT ![r][ob] = p],
         parent' = [parent EXCEPT ![r][ob] = n],
         children' = [children EXCEPT ![r][n] = Append(@, ob)]
  PROVE  RowsOK'
  <1>1. /\ obstates'[r] = [obstates[r] EXCEPT ![ob] = p]
        /\ parent'[r] = [parent[r] EXCEPT ![ob] = n]
        /\ children'[r] = [children[r] EXCEPT ![n] = Append(@, ob)]
        /\ \A s \in Rev : s # r => RowUntouched(s)
    BY DEF RefcountInv, TypeOK, RowUntouched
  <1>2. Forest(obstates[r], parent[r], children[r]) /\ Shallow(r)
    BY DEF RowsOK, RowOK
  <1>3. Forest(obstates[r], parent[r], children[r])'
    <2>1. parent[r][ob] = Absent /\ (n # NULL => n # ob /\ obstates[r][n] # None)
      OBVIOUS
    <2>2. Forest([obstates[r] EXCEPT ![ob] = p], [parent[r] EXCEPT ![ob] = n],
                 [children[r] EXCEPT ![n] = Append(@, ob)])
      BY <1>2, <2>1, ForestAdd
    <2>3. Forest(obstates'[r], parent'[r], children'[r])
      BY <1>1, <2>2
    <2> QED BY <2>3 DEF Forest, RowTyped, Below, Lists
  <1>4. ASSUME NEW x \in Object, parent'[r][x] \in Object
        PROVE  /\ TypeOf(r, x)' = Text
               /\ TypeOf(r, parent[r][x])' \in Holders
               /\ parent'[r][parent'[r][x]] = NULL
    <2>1. RowTyped(obstates[r], parent[r], children[r])
      BY <1>2 DEF Forest
    <2>2. PICK above \in Object : above = parent'[r][x]
      BY <1>4
    <2>3. \A y \in Object : y # ob /\ obstates[r][y] \in Addr => TypeOf(r, y)' = TypeOf(r, y)
      <3> SUFFICES ASSUME NEW y \in Object, y # ob, obstates[r][y] \in Addr
                   PROVE  TypeOf(r, y)' = TypeOf(r, y)
        OBVIOUS
      <3>1. obstates'[r][y] = obstates[r][y]
        BY <1>1, <2>1 DEF RowTyped
      <3> QED BY <3>1, TypeKept
    <2>4. CASE x = ob
      <3>1. above = n /\ n \in Object /\ n # NULL
        BY <1>1, <2>1, <2>2, <2>4, NodeObject DEF RowTyped
      <3>2. obstates[r][n] \in Addr /\ parent'[r][n] = parent[r][n]
        BY <1>1, <2>1, <3>1 DEF RowTyped
      <3>3. TypeOf(r, n)' = TypeOf(r, n)
        BY <2>3, <3>1, <3>2
      <3> QED BY <2>2, <2>4, <3>1, <3>2, <3>3 DEF TypeOf
    <2>5. CASE x # ob
      <3>1. parent[r][x] = above
        BY <1>1, <2>1, <2>2, <2>5 DEF RowTyped
      <3>2. obstates[r][x] \in Addr /\ obstates[r][above] \in Addr
        BY <1>2, <3>1, AttachedExist, NodeObject
      <3>3. TypeOf(r, x) = Text /\ TypeOf(r, above) \in Holders /\ parent[r][above] = NULL
        BY <1>2, <3>1 DEF Shallow
      <3>4. above # ob
        BY <3>3, NodeObject
      <3>5. TypeOf(r, x)' = TypeOf(r, x) /\ TypeOf(r, above)' = TypeOf(r, above)
            /\ parent'[r][above] = NULL
        BY <1>1, <2>1, <2>3, <2>5, <3>2, <3>3, <3>4 DEF RowTyped
      <3> QED BY <2>2, <3>3, <3>5 DEF TypeOf
    <2> QED BY <2>4, <2>5
  <1>5. Shallow(r)'
    BY <1>4 DEF Shallow, TypeOf
  <1> QED BY <1>1, <1>3, <1>5, OtherRows DEF RowOK

\* The maps after set_object_data, and what types objects have then.
LEMMA SetObjectDataTree ==
  ASSUME RefcountInv, RefcountInv', NEW r \in Rev, NEW ob \in Object,
         NEW v \in ValidData, set_object_data(r, ob, v)
  PROVE  /\ MemoryKept
         /\ \E p \in Addr : obstates' = [obstates EXCEPT ![r][ob] = p]
         /\ TypeOf(r, ob)' = v[1]
  <1>1. MemoryKept
    BY SetObjectDataMemory DEF RefcountInv
  <1>2. PICK p \in Addr :
          /\ obstates' = [obstates EXCEPT ![r][ob] = p]
          /\ refcnt' = [q \in Addr |-> IF q = p THEN 1
                                       ELSE IF q = obstates[r][ob] THEN refcnt[q] - 1
                                       ELSE refcnt[q]]
          /\ cell' = Reclaim(refcnt', [cell EXCEPT ![p] = obstate(v)])
    BY DEF set_object_data
  <1>3. obstates'[r][ob] = p
    BY <1>2 DEF RefcountInv, TypeOK
  <1>4. cell'[p] = obstate(v)
    BY <1>2 DEF Reclaim, RefcountInv, TypeOK
  <1>5. TypeOf(r, ob)' = v[1]
    <2>1. TypeOf(r, ob)' = obstate(v)[1]
      BY <1>3, <1>4 DEF TypeOf
    <2> QED BY <2>1 DEF obstate
  <1>6. \E q \in Addr : obstates' = [obstates EXCEPT ![r][ob] = q]
    BY <1>2
  <1> QED BY <1>1, <1>5, <1>6

LEMMA AddObjectTree ==
  ASSUME RefcountInv, RefcountInv', RowsOK, NEW r \in Rev, NEW v,
         xorn_add_object(r, v)
  PROVE  RowsOK'
  <1>1. PICK ob \in Object : ob = next_object_id + 1
    BY NextId DEF xorn_add_object, RefcountInv
  <1>2. /\ v \in ValidData /\ set_object_data(r, ob, v)
        /\ children' = [children EXCEPT ![r][NULL] = Append(@, ob)]
        /\ parent' = [parent EXCEPT ![r][ob] = NULL]
    BY <1>1 DEF xorn_add_object
  <1>3. parent[r][ob] = Absent
    <2>1. ob > next_object_id
      BY <1>1, HandedOut DEF RefcountInv
    <2>2. obstates[r][ob] = None
      BY <2>1 DEF RefcountInv, ObstatesFresh
    <2> QED BY <2>2 DEF RowsOK, RowOK, Forest
  <1>4. MemoryKept /\ \E p \in Addr : obstates' = [obstates EXCEPT ![r][ob] = p]
    BY <1>2, SetObjectDataTree
  <1> QED BY <1>2, <1>3, <1>4, AddTree, NodeObject

\* An object gets new data where it is, which suits what is around it.
LEMMA ChangeTree ==
  ASSUME RefcountInv, RefcountInv', RowsOK, MemoryKept, NEW r \in Rev,
         NEW ob \in Object, obstates[r][ob] # None, NEW p \in Addr,
         obstates' = [obstates EXCEPT ![r][ob] = p],
         parent' = parent, children' = children, CanBecome(r, ob, TypeOf(r, ob)')
  PROVE  RowsOK'
  <1>1. Forest(obstates[r], parent[r], children[r]) /\ Shallow(r)
        /\ RowTyped(obstates[r], parent[r], children[r])
    BY DEF RowsOK, RowOK, Forest
  <1>2. /\ obstates'[r] = [obstates[r] EXCEPT ![ob] = p]
        /\ \A s \in Rev : s # r => RowUntouched(s)
    BY DEF RefcountInv, TypeOK, RowUntouched
  <1>3. Forest(obstates[r], parent[r], children[r])'
    <2>1. /\ obstates'[r] \in [Object -> Addr \cup {None}]
          /\ \A x \in Object : obstates'[r][x] = None <=> obstates[r][x] = None
      BY <1>1, <1>2, StorageAssumption DEF RowTyped
    <2> QED BY <1>1, <2>1, ForestSet DEF Forest, RowTyped, Below, Lists
  <1>4. ASSUME NEW x \in Object, parent[r][x] \in Object
        PROVE  /\ TypeOf(r, x)' = Text
               /\ TypeOf(r, parent[r][x])' \in Holders
               /\ parent[r][parent[r][x]] = NULL
    <2>1. PICK above \in Object : above = parent[r][x]
      BY <1>4
    <2>2. obstates[r][x] \in Addr /\ obstates[r][above] \in Addr
      BY <1>1, <2>1, AttachedExist, NodeObject
    <2>3. TypeOf(r, x) = Text /\ TypeOf(r, above) \in Holders /\ parent[r][above] = NULL
      BY <1>1, <2>1 DEF Shallow
    <2>4. \A y \in Object : y # ob /\ obstates[r][y] \in Addr => TypeOf(r, y)' = TypeOf(r, y)
      <3> SUFFICES ASSUME NEW y \in Object, y # ob, obstates[r][y] \in Addr
                   PROVE  TypeOf(r, y)' = TypeOf(r, y)
        OBVIOUS
      <3>1. obstates'[r][y] = obstates[r][y]
        BY <1>1, <1>2 DEF RowTyped
      <3> QED BY <3>1, TypeKept
    <2>5. TypeOf(r, x)' = Text
      <3>1. CASE x = ob
        BY <2>1, <3>1, NodeObject DEF CanBecome
      <3>2. CASE x # ob
        BY <2>2, <2>3, <2>4, <3>2
      <3> QED BY <3>1, <3>2
    <2>6. TypeOf(r, above)' \in Holders
      <3>1. CASE above = ob
        <4>1. x \in Below(parent[r], ob) /\ Lists(children[r][ob], Below(parent[r], ob))
          BY <1>1, <2>1, <3>1, NodeObject DEF Below, Forest
        <4>2. children[r][ob] # <<>>
          <5>1. ToSet(<<>>) = {}
            BY DEF ToSet
          <5> QED BY <4>1, <5>1 DEF Lists
        <4> QED BY <3>1, <4>2 DEF CanBecome
      <3>2. CASE above # ob
        BY <2>2, <2>3, <2>4, <3>2
      <3> QED BY <3>1, <3>2
    <2>7. TypeOf(r, parent[r][x])' = TypeOf(r, above)'
      BY <2>1 DEF TypeOf
    <2> QED BY <2>1, <2>3, <2>5, <2>6, <2>7
  <1>5. Shallow(r)'
    BY <1>4 DEF Shallow, TypeOf
  <1> QED BY <1>2, <1>3, <1>5, OtherRows DEF RowOK

LEMMA SetObjectTree ==
  ASSUME RefcountInv, RefcountInv', RowsOK, NEW r \in Rev, NEW ob \in Object, NEW v,
         xorn_set_object_data(r, ob, v)
  PROVE  RowsOK'
  <1>1. /\ v \in ValidData /\ set_object_data(r, ob, v) /\ CanBecome(r, ob, v[1])
        /\ IF parent[r][ob] = Absent
           THEN /\ children' = [children EXCEPT ![r][NULL] = Append(@, ob)]
                /\ parent' = [parent EXCEPT ![r][ob] = NULL]
           ELSE UNCHANGED <<children, parent>>
    BY DEF xorn_set_object_data
  <1>2. PICK p \in Addr : obstates' = [obstates EXCEPT ![r][ob] = p]
    BY <1>1, SetObjectDataTree
  <1>3. MemoryKept /\ TypeOf(r, ob)' = v[1]
    BY <1>1, SetObjectDataTree
  <1>4. CASE parent[r][ob] = Absent
    BY <1>1, <1>2, <1>3, <1>4, AddTree, NodeObject
  <1>5. CASE parent[r][ob] # Absent
    <2>1. obstates[r][ob] # None
      BY <1>5 DEF RowsOK, RowOK, Forest
    <2>2. CanBecome(r, ob, TypeOf(r, ob)')
      BY <1>1, <1>3
    <2> QED BY <1>1, <1>2, <1>3, <1>5, <2>1, <2>2, ChangeTree
  <1> QED BY <1>4, <1>5

LEMMA RelocateTree ==
  ASSUME RefcountInv, RefcountInv', RowsOK, NEW r \in Rev, NEW ob \in Object,
         NEW to \in Node, NEW before \in Node, xorn_relocate_object(r, ob, to, before)
  PROVE  RowsOK'
  <1>1. /\ Exists(r, ob)
        /\ to # NULL => /\ TypeOf(r, ob) = Text
                        /\ Exists(r, to) /\ TypeOf(r, to) \in Holders
        /\ before # NULL => before \in ToSet(children[r][to])
        /\ children' = [children EXCEPT ![r] =
                          Relocated(@, parent[r][ob], to, ob, before)]
        /\ parent' = [parent EXCEPT ![r][ob] = to]
        /\ UNCHANGED <<obstates, cell>>
    BY DEF xorn_relocate_object, CanRelocate, heapVars
  <1>2. Forest(obstates[r], parent[r], children[r]) /\ Shallow(r)
        /\ RowTyped(obstates[r], parent[r], children[r])
    BY DEF RowsOK, RowOK, Forest
  <1>3. MemoryKept
    BY <1>1 DEF MemoryKept
  <1>4. /\ obstates'[r] = obstates[r]
        /\ parent'[r] = [parent[r] EXCEPT ![ob] = to]
        /\ children'[r] = Relocated(children[r], parent[r][ob], to, ob, before)
        /\ \A s \in Rev : s # r => RowUntouched(s)
    BY <1>1 DEF RefcountInv, TypeOK, RowUntouched
  <1>5. Forest(obstates[r], parent[r], children[r])'
    <2>1. /\ obstates[r][ob] # None
          /\ to # NULL => obstates[r][to] # None
      BY <1>1 DEF Exists
    <2>2. before # NULL => before \in Below(parent[r], to)
      BY <1>1, <1>2 DEF Forest, Lists
    <2>3. Forest(obstates[r], [parent[r] EXCEPT ![ob] = to],
                 Relocated(children[r], parent[r][ob], to, ob, before))
      BY <1>2, <2>1, <2>2, ForestRelocate
    <2>4. Forest(obstates'[r], parent'[r], children'[r])
      BY <1>4, <2>3
    <2> QED BY <2>4 DEF Forest, RowTyped, Below, Lists
  <1>6. \A x \in Object : TypeOf(r, x)' = TypeOf(r, x)
    BY <1>1 DEF TypeOf
  <1>7. ASSUME NEW x \in Object, parent'[r][x] \in Object
        PROVE  /\ TypeOf(r, x)' = Text
               /\ TypeOf(r, parent[r][x])' \in Holders
               /\ parent'[r][parent'[r][x]] = NULL
    <2>1. PICK above \in Object : above = parent'[r][x]
      BY <1>7
    <2>2. TypeOf(r, x)' = Text /\ TypeOf(r, above)' \in Holders
      <3>1. CASE x = ob
        <4>1. above = to /\ to # NULL
          BY <1>2, <1>4, <2>1, <3>1, NodeObject DEF RowTyped
        <4> QED BY <1>1, <1>6, <3>1, <4>1
      <3>2. CASE x # ob
        <4>1. parent[r][x] = above
          BY <1>2, <1>4, <2>1, <3>2 DEF RowTyped
        <4> QED BY <1>2, <1>6, <4>1 DEF Shallow
      <3> QED BY <3>1, <3>2
    <2>3. parent[r][above] = NULL
      <3>1. parent[r][above] \in Node
        <4>1. obstates[r][above] # None
          <5>1. CASE x = ob
            BY <1>1, <1>2, <1>4, <2>1, <5>1, NodeObject DEF RowTyped, Exists
          <5>2. CASE x # ob
            <6>1. parent[r][x] = above
              BY <1>2, <1>4, <2>1, <5>2 DEF RowTyped
            <6> QED BY <1>2, <6>1, AttachedExist, StorageAssumption
          <5> QED BY <5>1, <5>2
        <4> QED BY <1>2, <4>1 DEF Forest, RowTyped
      <3>2. ASSUME parent[r][above] \in Object PROVE FALSE
        <4>1. TypeOf(r, above) = Text
          BY <1>2, <3>2 DEF Shallow
        <4> QED BY <1>6, <2>2, <4>1, StorageAssumption
      <3> QED BY <3>1, <3>2 DEF Node, Object, NULL
    <2>4. parent'[r][above] = NULL
      <3>1. above = ob => to = NULL
        <4>1. ASSUME above = ob, to # NULL PROVE FALSE
          BY <1>1, <1>6, <2>2, <4>1, StorageAssumption
        <4> QED BY <4>1
      <3> QED BY <1>2, <1>4, <2>3, <3>1 DEF RowTyped
    <2>5. TypeOf(r, parent[r][x])' = TypeOf(r, above)'
      BY <2>1 DEF TypeOf
    <2> QED BY <2>1, <2>2, <2>4, <2>5
  <1>8. Shallow(r)'
    BY <1>7 DEF Shallow, TypeOf
  <1> QED BY <1>3, <1>4, <1>5, <1>8, OtherRows DEF RowOK

LEMMA DeleteFromTree ==
  ASSUME RefcountInv, RefcountInv', RowsOK, NEW r \in Rev, NEW ob \in Object,
         parent[r][ob] # Absent, DeleteFrom(r, ob)
  PROVE  RowsOK'
  <1> DEFINE doomed == Doomed(children[r], ob)
             o2 == [x \in Object |-> IF x \in doomed THEN None ELSE obstates[r][x]]
             pr2 == [x \in Object |-> IF x \in doomed THEN Absent ELSE parent[r][x]]
             ch2 == [[n \in Node |-> IF n \in doomed THEN <<>> ELSE children[r][n]]
                       EXCEPT ![parent[r][ob]] = RemoveAt(@, Find(@, ob))]
  <1>1. /\ obstates' = [obstates EXCEPT ![r] = o2]
        /\ parent' = [parent EXCEPT ![r] = pr2]
        /\ children' = [children EXCEPT ![r] = ch2]
    BY DEF DeleteFrom, RefcountInv, TypeOK
  <1>2. Forest(obstates[r], parent[r], children[r]) /\ Shallow(r)
    BY DEF RowsOK, RowOK
  <1>3. Forest(o2, pr2, ch2)
    <2>1. \A x \in Object : parent[r][x] \in Object => parent[r][parent[r][x]] = NULL
      BY <1>2 DEF Shallow
    <2>2. /\ doomed = Doomed(children[r], ob)
          /\ o2 = [x \in Object |-> IF x \in doomed THEN None ELSE obstates[r][x]]
          /\ pr2 = [x \in Object |-> IF x \in doomed THEN Absent ELSE parent[r][x]]
          /\ ch2 = [[n \in Node |-> IF n \in doomed THEN <<>> ELSE children[r][n]]
                      EXCEPT ![parent[r][ob]] = RemoveAt(@, Find(@, ob))]
      OBVIOUS
    <2> HIDE DEF doomed, o2, pr2, ch2
    <2> QED BY <1>2, <2>1, <2>2, ForestDelete
  <1>4. \A x \in Object : pr2[x] \in Object =>
          /\ o2[x] = obstates[r][x] /\ pr2[x] = parent[r][x] /\ x \notin doomed
    BY NodeObject
  <1> HIDE DEF o2, pr2, ch2
  <1>5. MemoryKept
    BY DeleteFromMemory DEF RefcountInv
  <1>6. /\ obstates'[r] = o2 /\ parent'[r] = pr2 /\ children'[r] = ch2
        /\ \A s \in Rev : s # r => RowUntouched(s)
    BY <1>1 DEF RefcountInv, TypeOK, RowUntouched
  <1>7. Forest(obstates[r], parent[r], children[r])'
    <2>1. Forest(obstates'[r], parent'[r], children'[r])
      BY <1>3, <1>6
    <2> QED BY <2>1 DEF Forest, RowTyped, Below, Lists
  <1>8. ASSUME NEW x \in Object, parent'[r][x] \in Object
        PROVE  /\ TypeOf(r, x)' = Text
               /\ TypeOf(r, parent[r][x])' \in Holders
               /\ parent'[r][parent'[r][x]] = NULL
    <2>1. PICK above \in Object : above = parent'[r][x]
      BY <1>8
    <2>2. parent[r][x] = above /\ obstates'[r][x] = obstates[r][x] /\ pr2[x] = above
      BY <1>4, <1>6, <2>1
    <2>3. /\ TypeOf(r, x) = Text /\ TypeOf(r, above) \in Holders
          /\ parent[r][above] = NULL
      BY <1>2, <2>2 DEF Shallow
    <2>4. obstates[r][x] \in Addr /\ obstates[r][above] \in Addr
      BY <1>2, <2>2, AttachedExist, NodeObject
    <2>5. o2[above] \in Addr
      BY <1>3, <2>2, AttachedExist
    <2>6. obstates'[r][above] = obstates[r][above] /\ parent'[r][above] = parent[r][above]
      <3>1. above \notin doomed
        BY <2>5, StorageAssumption DEF o2
      <3> QED BY <1>6, <3>1 DEF o2, pr2
    <2>7. TypeOf(r, x)' = TypeOf(r, x) /\ TypeOf(r, above)' = TypeOf(r, above)
      BY <1>5, <2>2, <2>4, <2>6, TypeKept
    <2> QED BY <2>1, <2>3, <2>6, <2>7 DEF TypeOf
  <1>9. Shallow(r)'
    BY <1>8 DEF Shallow, TypeOf
  <1> QED BY <1>5, <1>6, <1>7, <1>9, OtherRows DEF RowOK

\* The setter keeps an object's type.
LEMMA SetAttrTree ==
  ASSUME RefcountInv, RefcountInv', RowsOK, NEW r \in Rev, NEW sel \in SUBSET Object,
         NEW f \in Setters, set_attr(r, sel, f)
  PROVE  RowsOK'
  <1> DEFINE affected == Affected(r, sel, f)
             value(ob) == obstate(<<TypeOf(r, ob), f[ValueOf(r, ob)]>>)
  <1>1. PICK new \in [affected -> Addr] :
       /\ \A o1, o2 \in affected : new[o1] = new[o2] => o1 = o2
       /\ obstates' = [obstates EXCEPT ![r] =
            [ob \in Object |-> IF ob \in affected THEN new[ob] ELSE @[ob]]]
       /\ \A p \in Addr : (\E ob \in affected : p = new[ob]) => refcnt'[p] = 1
       /\ cell' = Reclaim(refcnt', [p \in Addr |->
            IF \E ob \in affected : p = new[ob]
            THEN LET ob == CHOOSE o \in affected : p = new[o] IN value(ob)
            ELSE cell[p]])
    BY ZenonT(60) DEF set_attr
  <1>2. \A ob \in affected : ob \in Object /\ obstates[r][ob] # None
    BY DEF Affected, Exists
  <1>3. UNCHANGED <<parent, children>>
    BY DEF set_attr
  <1>4. MemoryKept
    BY SetAttrMemory DEF RefcountInv
  <1>5. Forest(obstates[r], parent[r], children[r]) /\ Shallow(r)
        /\ RowTyped(obstates[r], parent[r], children[r])
    BY DEF RowsOK, RowOK, Forest
  <1> HIDE DEF affected
  <1>6. ASSUME NEW ob \in affected
        PROVE  TypeOf(r, ob)' = TypeOf(r, ob)
    <2>1. PICK p \in Addr : p = new[ob]
      OBVIOUS
    <2>2. obstates'[r][ob] = p
      BY <1>1, <1>2, <2>1 DEF RefcountInv, TypeOK
    <2>3. (CHOOSE o \in affected : p = new[o]) = ob
      BY <1>1, <2>1
    <2>4. refcnt'[p] = 1
      BY <1>1, <2>1
    <2>5. cell'[p] = value(ob)
      <3> HIDE DEF value
      <3> QED BY <1>1, <2>1, <2>3, <2>4 DEF Reclaim
    <2> QED BY <2>2, <2>5 DEF TypeOf, obstate
  <1> HIDE DEF value
  <1>7. /\ obstates'[r] = [ob \in Object |-> IF ob \in affected THEN new[ob]
                                             ELSE obstates[r][ob]]
        /\ \A s \in Rev : s # r => RowUntouched(s)
    BY <1>1, <1>3 DEF RefcountInv, TypeOK, RowUntouched
  <1>8. \A ob \in Object : obstates[r][ob] \in Addr => TypeOf(r, ob)' = TypeOf(r, ob)
    <2> SUFFICES ASSUME NEW ob \in Object, obstates[r][ob] \in Addr, ob \notin affected
                 PROVE  TypeOf(r, ob)' = TypeOf(r, ob)
      BY <1>6
    <2>1. obstates'[r][ob] = obstates[r][ob]
      BY <1>7
    <2> QED BY <1>4, <2>1, TypeKept
  <1>9. Forest(obstates[r], parent[r], children[r])'
    <2>1. /\ obstates'[r] \in [Object -> Addr \cup {None}]
          /\ \A x \in Object : obstates'[r][x] = None <=> obstates[r][x] = None
      BY <1>2, <1>5, <1>7, StorageAssumption DEF RowTyped
    <2>2. Forest(obstates'[r], parent'[r], children'[r])
      BY <1>3, <1>5, <2>1, ForestSet
    <2> QED BY <2>2 DEF Forest, RowTyped, Below, Lists
  <1>10. Shallow(r)'
    <2>1. ASSUME NEW x \in Object, parent[r][x] \in Object
          PROVE  /\ TypeOf(r, x)' = Text
                 /\ TypeOf(r, parent[r][x])' \in Holders
                 /\ parent[r][parent[r][x]] = NULL
      <3>1. PICK above \in Object : above = parent[r][x]
        BY <2>1
      <3>2. obstates[r][x] \in Addr /\ obstates[r][above] \in Addr
        BY <1>5, <3>1, AttachedExist, NodeObject
      <3>3. TypeOf(r, x)' = TypeOf(r, x) /\ TypeOf(r, above)' = TypeOf(r, above)
        BY <1>8, <3>2
      <3> QED BY <1>3, <1>5, <3>1, <3>3 DEF Shallow, TypeOf
    <2> QED BY <1>3, <2>1 DEF Shallow, TypeOf
  <1> QED BY <1>4, <1>7, <1>9, <1>10, OtherRows DEF RowOK

-----------------------------------------------------------------------------
(* Copying *)

\* The first of the calls to be made, and the state it finds.
LEMMA CopyCall ==
  ASSUME RefcountInv, RowsOK, CopyTargets, call.pc = "copying", call.work # <<>>,
         next_object_id < MaxObject
  PROVE  \E dst, src \in Rev, ob, copy \in Object, to \in Node :
           /\ dst = call.dst /\ src = call.src /\ copy = next_object_id + 1
           /\ ob = Head(call.work)[1] /\ to = Head(call.work)[2]
           /\ CanCopy(src, dst, ob, to)
           /\ obstates[src][ob] \in Addr
           /\ obstates[dst][copy] = None /\ parent[dst][copy] = Absent
           /\ to # copy
  <1>1. /\ call.dst \in Rev /\ call.src \in Rev
        /\ Head(call.work)[1] \in Object /\ Head(call.work)[2] \in Node
    BY WorkTypes DEF RefcountInv
  <1>2. next_object_id + 1 \in Object /\ next_object_id + 1 > next_object_id
    BY NextId, HandedOut DEF RefcountInv
  <1>3. CanCopy(call.src, call.dst, Head(call.work)[1], Head(call.work)[2])
    <2>1. call.work \in Seq(Object \X Node)
      BY DEF RefcountInv, TypeOK
    <2>2. 1 \in DOMAIN call.work /\ Head(call.work) = call.work[1]
      BY <2>1, EmptySeq, LenProperties
    <2> QED BY <2>2 DEF CopyTargets
  <1>4. PICK dst \in Rev, src \in Rev, ob \in Object, copy \in Object, to \in Node :
          /\ dst = call.dst /\ src = call.src /\ copy = next_object_id + 1
          /\ ob = Head(call.work)[1] /\ to = Head(call.work)[2]
    BY <1>1, <1>2
  <1>5. obstates[src][ob] \in Addr
    BY <1>3, <1>4 DEF CanCopy, Exists, RefcountInv, TypeOK
  <1>6. obstates[dst][copy] = None
    BY <1>2, <1>4 DEF RefcountInv, ObstatesFresh
  <1>7. parent[dst][copy] = Absent
    BY <1>6 DEF RowsOK, RowOK, Forest
  <1>8. to # copy
    <2>1. to # NULL => obstates[dst][to] # None
      BY <1>3, <1>4 DEF CanCopy, Exists
    <2> QED BY <1>6, <2>1, NodeObject
  <1> QED BY <1>3, <1>4, <1>5, <1>6, <1>7, <1>8

LEMMA CopyStepTree ==
  ASSUME RefcountInv, RefcountInv', RowsOK, CopyTargets, copy_object
  PROVE  RowsOK' /\ CopyTargets'
  <1>1. call.pc = "copying" /\ call.work # <<>> /\ next_object_id < MaxObject
    BY DEF copy_object
  <1>2. PICK dst \in Rev, src \in Rev, ob \in Object, copy \in Object, to \in Node :
           /\ dst = call.dst /\ src = call.src /\ copy = next_object_id + 1
           /\ ob = Head(call.work)[1] /\ to = Head(call.work)[2]
           /\ CanCopy(src, dst, ob, to)
           /\ obstates[src][ob] \in Addr
           /\ obstates[dst][copy] = None /\ parent[dst][copy] = Absent
           /\ to # copy
    BY <1>1, CopyCall
  <1>3. PICK state \in Addr : state = obstates[src][ob]
    BY SMTT(30), <1>2
  <1>4. /\ children' = [children EXCEPT ![dst][to] = Append(@, copy)]
        /\ parent' = [parent EXCEPT ![dst][copy] = to]
        /\ obstates' = [obstates EXCEPT ![dst][copy] = state]
        /\ call' = [call EXCEPT !.work = Attached(src, ob, copy) \o Tail(@),
                                !.list = Append(@, copy)]
        /\ cell' = cell
    BY <1>2, <1>3 DEF copy_object
  <1>5. MemoryKept
    BY <1>4 DEF MemoryKept
  <1>6. /\ obstates'[dst][copy] = state /\ parent'[dst][copy] = to
        /\ \A r \in Rev, x \in Object : obstates[r][x] # None =>
             obstates'[r][x] = obstates[r][x] /\ parent'[r][x] = parent[r][x]
    <2>1. /\ obstates \in [Rev -> [Object -> Addr \cup {None}]]
          /\ parent \in [Rev -> [Object -> Node \cup {Absent}]]
      BY DEF RefcountInv, TypeOK
    <2>2. obstates[dst][copy] = None
      BY <1>2
    <2>3. /\ obstates' = [obstates EXCEPT ![dst][copy] = state]
          /\ parent' = [parent EXCEPT ![dst][copy] = to]
      BY <1>4
    <2> QED BY <2>1, <2>2, <2>3
  <1>7. TypeOf(dst, copy)' = TypeOf(src, ob)
    BY <1>3, <1>4, <1>6 DEF TypeOf
  <1>8. \A r \in Rev, x \in Object :
          obstates[r][x] # None => TypeOf(r, x)' = TypeOf(r, x)
    BY <1>4, <1>6 DEF TypeOf
  <1>9. RowsOK'
    <2>1. to # NULL => /\ to # copy /\ obstates[dst][to] # None
                       /\ TypeOf(dst, copy)' = Text
                       /\ TypeOf(dst, to) \in Holders /\ parent[dst][to] = NULL
      BY <1>2, <1>7 DEF CanCopy, Exists
    <2>2. dst \in Rev /\ copy \in Object /\ state \in Addr /\ to \in Node
          /\ parent[dst][copy] = Absent
      BY <1>2
    <2> QED BY <1>4, <1>5, <2>1, <2>2, AddTree
  \* What was still to be done can still be done.
  <1>10. ASSUME NEW x \in Object, NEW n \in Node, CanCopy(src, dst, x, n)
         PROVE  CanCopy(src, dst, x, n)'
    <2>1. n # NULL => n \in Object
      BY DEF Node, Object, NULL
    <2>2. obstates[src][x] # None /\ (n # NULL => obstates[dst][n] # None)
      BY <1>10 DEF CanCopy, Exists
    <2> QED BY <1>6, <1>8, <1>10, <2>1, <2>2 DEF CanCopy, Exists
  \* What is attached to the object that has been copied goes to the copy.
  <1>11. ASSUME NEW x \in Object, x \in ToSet(children[src][ob])
         PROVE  CanCopy(src, dst, x, copy)'
    <2>1. Forest(obstates[src], parent[src], children[src]) /\ Shallow(src)
      BY DEF RowsOK, RowOK
    <2>2. parent[src][x] = ob
      BY <1>11, <2>1, NodeObject DEF Forest, Lists, Below
    <2>3. /\ obstates[src][x] # None /\ TypeOf(src, x) = Text
          /\ TypeOf(src, ob) \in Holders
      BY <2>1, <2>2, AttachedExist, NodeObject, StorageAssumption DEF Shallow
    <2>4. to = NULL
      <3>1. to # NULL => TypeOf(src, ob) = Text
        BY <1>2 DEF CanCopy
      <3> QED BY <2>3, <3>1, StorageAssumption
    <2>5. state # None
      BY StorageAssumption
    <2> QED BY <1>6, <1>7, <1>8, <2>3, <2>4, <2>5 DEF CanCopy, Exists
  <1>12. CopyTargets'
    <2> DEFINE attached == Attached(src, ob, copy)
               rest == Tail(call.work)
               list == children[src][ob]
    <2>1. call.work \in Seq(Object \X Node) /\ call \in CallRecord
      BY DEF RefcountInv, TypeOK, CallRecord
    <2>2. /\ rest \in Seq(Object \X Node) /\ Len(rest) \in Nat
          /\ \A j \in 1..Len(rest) : rest[j] = call.work[j + 1] /\ j + 1 \in DOMAIN call.work
      <3>1. /\ rest \in Seq(Object \X Node) /\ Len(rest) = Len(call.work) - 1
            /\ \A j \in 1..Len(rest) : rest[j] = call.work[j + 1]
        BY <1>1, <2>1, HeadTailProperties
      <3>2. DOMAIN call.work = 1..Len(call.work) /\ Len(call.work) \in Nat /\ Len(rest) \in Nat
        BY <2>1, <3>1, LenProperties
      <3> HIDE DEF rest
      <3> QED BY <3>1, <3>2
    <2>3. list \in Seq(Object) /\ Len(list) \in Nat /\ DOMAIN list = 1..Len(list)
          /\ \A j \in 1..Len(list) : list[j] \in Object /\ list[j] \in ToSet(list)
      <3>1. list \in Seq(Object)
        BY NodeObject DEF RefcountInv, TypeOK
      <3>2. DOMAIN list = 1..Len(list) /\ Len(list) \in Nat
        BY <3>1, LenProperties
      <3> HIDE DEF list
      <3> QED BY <3>1, <3>2, ElementOfSeq DEF ToSet
    <2>4. attached = [j \in 1..Len(list) |-> <<list[j], copy>>]
      BY <2>3 DEF Attached
    <2>5. attached \in Seq(Object \X Node) /\ Len(attached) = Len(list)
      <3>1. copy \in Node
        BY NodeObject
      <3>2. attached \in [1..Len(list) -> Object \X Node]
        <4> HIDE DEF attached, list
        <4> QED BY <2>3, <2>4, <3>1
      <3> HIDE DEF attached, list
      <3>3. attached \in Seq(Object \X Node)
        BY <2>3, <3>2, SeqDef
      <3>4. DOMAIN attached = 1..Len(list) /\ DOMAIN attached = 1..Len(attached)
            /\ Len(attached) \in Nat
        BY <2>4, <3>3, LenProperties
      <3> QED BY <2>3, <3>3, <3>4
    <2> HIDE DEF attached, rest
    <2>6. /\ attached \o rest \in Seq(Object \X Node)
          /\ Len(attached \o rest) = Len(attached) + Len(rest)
          /\ \A i \in 1..(Len(attached) + Len(rest)) : (attached \o rest)[i] =
               IF i <= Len(attached) THEN attached[i] ELSE rest[i - Len(attached)]
      BY ZenonT(60), <2>2, <2>5, ConcatProperties
    <2>7. call'.work = attached \o rest /\ call'.src = src /\ call'.dst = dst
      BY <1>2, <1>4, <2>1 DEF CallRecord, attached, rest
    <2>8. ASSUME NEW i \in DOMAIN call'.work
          PROVE  CanCopy(src, dst, call.work[i][1], call.work[i][2])'
      <3>1. i \in 1..(Len(attached) + Len(rest))
        BY <2>6, <2>7, <2>8, LenProperties
      <3>2. CASE i <= Len(attached)
        <4>1. PICK j \in 1..Len(list) : j = i
          BY <2>3, <2>5, <3>1, <3>2
        <4>2. PICK x \in Object : x = list[j] /\ x \in ToSet(list)
          BY <2>3, <4>1
        <4>3. call'.work[i] = <<x, copy>>
          BY <2>4, <2>6, <2>7, <3>1, <3>2, <4>1, <4>2
        <4>4. CanCopy(src, dst, x, copy)'
          BY <1>11, <4>2
        <4> QED BY <4>3, <4>4 DEF CanCopy, Exists, TypeOf
      <3>3. CASE i > Len(attached)
        <4>1. PICK j \in 1..Len(rest) : j = i - Len(attached)
          BY <2>2, <2>3, <2>5, <3>1, <3>3
        <4>2. call'.work[i] = call.work[j + 1] /\ j + 1 \in DOMAIN call.work
          BY <2>2, <2>6, <2>7, <3>1, <3>3, <4>1
        <4>3. PICK x \in Object, n \in Node : call.work[j + 1] = <<x, n>>
          <5>1. call.work[j + 1] \in Object \X Node
            BY <2>1, <4>2, LenProperties, ElementOfSeq
          <5> QED BY <5>1
        <4>4. CanCopy(src, dst, x, n)
          BY <1>1, <1>2, <4>2, <4>3 DEF CopyTargets
        <4>5. CanCopy(src, dst, x, n)'
          BY <1>10, <4>4
        <4> QED BY <4>2, <4>3, <4>5 DEF CanCopy, Exists, TypeOf
      <3> QED BY <2>2, <2>3, <2>5, <3>1, <3>2, <3>3
    <2> QED BY <2>7, <2>8 DEF CopyTargets
  <1> QED BY SMTT(30), <1>9, <1>12

\* A copy which fails leaves the maps as they were.
\* Whatever has been grown is cut again.
LEMMA CopyObjectFailsKeeps ==
  ASSUME RefcountInv, RowsOK, CopyTargets, NEW stage \in 1..4, CopyObjectFails(stage)
  PROVE  UNCHANGED <<obstates, parent, children, cell>>
  <1>1. /\ call.pc = "copying" /\ call.work # <<>> /\ next_object_id < MaxObject
    BY DEF CopyObjectFails
  <1>2. PICK dst \in Rev, src \in Rev, ob \in Object, copy \in Object, to \in Node :
           /\ dst = call.dst /\ src = call.src /\ copy = next_object_id + 1
           /\ ob = Head(call.work)[1] /\ to = Head(call.work)[2]
           /\ CanCopy(src, dst, ob, to)
           /\ obstates[src][ob] \in Addr
           /\ obstates[dst][copy] = None /\ parent[dst][copy] = Absent
           /\ to # copy
    BY SMTT(30), <1>1, CopyCall
  <1> DEFINE old == children[dst][to]
             grown == Append(old, copy)
  <1>3. /\ children' = [children EXCEPT ![dst][to] =
                          CASE stage = 1 -> @
                            [] stage \in {2, 3} -> Front(grown)
                            [] stage = 4 -> RemoveAt(grown, Find(grown, copy))]
        /\ parent' = IF stage < 3 THEN parent ELSE [parent EXCEPT ![dst][copy] = Absent]
    BY <1>2 DEF CopyObjectFails
  <1>4. obstates' = obstates /\ cell' = cell
    BY CopyObjectFailsExact
  <1>5. parent' = parent
    BY <1>2, <1>3 DEF RefcountInv, TypeOK
  <1>6. /\ old \in Seq(Object) /\ Lists(old, Below(parent[dst], to))
        /\ copy \notin Below(parent[dst], to)
    <2>1. Absent # to
      BY NodeObject
    <2>2. Forest(obstates[dst], parent[dst], children[dst])
      BY <1>2 DEF RowsOK, RowOK
    <2>3. old \in Seq(Object) /\ Lists(old, Below(parent[dst], to))
      BY <1>2, <2>2 DEF Forest, RowTyped
    <2>4. copy \notin Below(parent[dst], to)
      BY <1>2, <2>1 DEF Below
    <2> QED BY <2>3, <2>4
  <1> HIDE DEF old
  <1>7. Front(grown) = old
    BY <1>6, FrontProperties
  <1>8. RemoveAt(grown, Find(grown, copy)) = old
    <2>1. /\ grown \in Seq(Object) /\ Len(grown) = Len(old) + 1 /\ Len(old) \in Nat
          /\ \A i \in 1..Len(old) : grown[i] = old[i]
          /\ grown[Len(old) + 1] = copy
      BY <1>6, AppendProperties, LenProperties
    <2>2. \A i \in 1..Len(old) : old[i] # copy
      BY <1>6, ListFacts
    <2> HIDE DEF grown
    <2>3. DOMAIN grown = 1..(Len(old) + 1)
      BY <2>1, LenProperties
    <2>4. copy \in ToSet(grown)
      BY <2>1, <2>3 DEF ToSet
    <2>5. Find(grown, copy) = Len(old) + 1
      <3>1. Find(grown, copy) \in 1..(Len(grown) + 1) /\ Find(grown, copy) <= Len(grown)
            /\ grown[Find(grown, copy)] = copy
        BY <2>1, <2>4, FindProperties
      <3> DEFINE k == Find(grown, copy)
      <3> HIDE DEF k
      <3>2. k \in 1..(Len(old) + 1) /\ grown[k] = copy
        BY <2>1, <3>1 DEF k
      <3>3. k = Len(old) + 1
        BY <2>1, <2>2, <3>2
      <3> QED BY <3>3 DEF k
    <2>6. /\ RemoveAt(grown, Len(old) + 1) \in Seq(Object)
          /\ Len(RemoveAt(grown, Len(old) + 1)) = Len(grown) - 1
          /\ \A j \in 1..(Len(grown) - 1) :
               RemoveAt(grown, Len(old) + 1)[j] =
                 IF j < Len(old) + 1 THEN grown[j] ELSE grown[j + 1]
      <3>1. Len(old) + 1 \in 1..(Len(grown) + 1) /\ Len(old) + 1 <= Len(grown)
        BY <2>1
      <3> QED BY <2>1, <3>1, RemoveAtProperties
    <2> DEFINE t == RemoveAt(grown, Len(old) + 1)
    <2> HIDE DEF t
    <2>7. t \in Seq(Object) /\ Len(t) = Len(old) /\ \A j \in 1..Len(t) : t[j] = old[j]
      BY <2>1, <2>6 DEF t
    <2>8. t = old
      BY <1>6, <2>7, SeqEqual
    <2> QED BY <2>5, <2>8 DEF t
  <1> HIDE DEF grown
  <1>9. children' = children
    <2>1. stage \in {1, 2, 3, 4}
      OBVIOUS
    <2> QED BY <1>3, <1>7, <1>8, <2>1 DEF RefcountInv, TypeOK, old
  <1> QED BY <1>4, <1>5, <1>9

LEMMA CopyObjectFailsTree ==
  ASSUME RefcountInv, RefcountInv', RowsOK, CopyTargets, NEW stage \in 1..4,
         CopyObjectFails(stage)
  PROVE  RowsOK'
  <1>1. UNCHANGED <<obstates, parent, children, cell>>
    BY CopyObjectFailsKeeps
  <1> QED BY SMTT(30), <1>1, SameRows

-----------------------------------------------------------------------------
(* The invariant *)

LEMMA RevisionCallTree ==
  ASSUME RefcountInv, RefcountInv', RowsOK, RevisionCall
  PROVE  RowsOK' /\ CopyTargets'
  <1>1. TypeOK /\ live \subseteq Rev
    BY DEF RefcountInv, TypeOK
  <1>2. PICK r \in Rev : \/ xorn_new_revision(r)
                        \/ \E from \in Rev : copy_revision(r, from)
                        \/ xorn_finalize_revision(r)
                        \/ xorn_free_revision(r)
    BY DEF RevisionCall
  <1>3. CopyTargets'
    <2>1. call' = Idle
      BY <1>2 DEF xorn_new_revision, copy_revision, xorn_finalize_revision,
                  xorn_free_revision
    <2> QED BY <2>1 DEF Idle, CopyTargets
  <1>4. CASE xorn_new_revision(r) \/ xorn_finalize_revision(r)
    <2>1. UNCHANGED <<obstates, parent, children, cell>>
      BY <1>4 DEF xorn_new_revision, xorn_finalize_revision, heapVars
    <2> QED BY <1>3, <2>1, SameRows
  <1>5. CASE \E from \in Rev : copy_revision(r, from)
    <2>1. PICK from \in Rev : copy_revision(r, from)
      BY <1>5
    <2>2. /\ obstates' = [obstates EXCEPT ![r] = obstates[from]]
          /\ parent' = [parent EXCEPT ![r] = parent[from]]
          /\ children' = [children EXCEPT ![r] = children[from]]
          /\ cell' = cell
      BY <2>1 DEF copy_revision
    <2>3. MemoryKept
      BY <2>2 DEF MemoryKept
    <2>4. /\ obstates'[r] = obstates[from] /\ parent'[r] = parent[from]
          /\ children'[r] = children[from]
          /\ \A s \in Rev : s # r => RowUntouched(s)
      BY <1>1, <2>2 DEF TypeOK, RowUntouched
    <2>5. RowOK(r)'
      BY <2>3, <2>4, RowCopied DEF RowsOK
    <2> QED BY <1>3, <2>3, <2>4, <2>5, OtherRows
  <1>6. CASE xorn_free_revision(r)
    <2>1. /\ obstates' = [obstates EXCEPT ![r] = NoObstates]
          /\ parent' = [parent EXCEPT ![r] = NoParents]
          /\ children' = [children EXCEPT ![r] = NoChildren]
          /\ cell' = Reclaim(refcnt', cell)
      BY <1>6 DEF xorn_free_revision
    <2>2. MemoryKept
      BY <2>1, ReclaimKept
    <2>3. /\ obstates'[r] = NoObstates /\ parent'[r] = NoParents
          /\ children'[r] = NoChildren /\ \A s \in Rev : s # r => RowUntouched(s)
      BY <1>1, <2>1 DEF TypeOK, RowUntouched
    <2>4. \A ob \in Object : parent'[r][ob] = Absent
      BY <2>3 DEF NoParents
    <2>5. Forest(NoObstates, NoParents, NoChildren)
      BY EmptyForest
    <2>6. RowOK(r)'
      <3>1. Forest(obstates'[r], parent'[r], children'[r])
        BY <2>3, <2>5
      <3>2. Shallow(r)'
        BY <2>4, NodeObject DEF Shallow
      <3> QED BY <3>1, <3>2 DEF RowOK, Forest, RowTyped, Below, Lists
    <2> QED BY <1>3, <2>2, <2>3, <2>6, OtherRows
  <1> QED BY <1>2, <1>3, <1>4, <1>5, <1>6

LEMMA ObjectCallTree ==
  ASSUME RefcountInv, RefcountInv', RowsOK, ObjectCall
  PROVE  RowsOK'
  <1>1. /\ TypeOK /\ next_object_id \in Int
        /\ \A ob \in handles : ob \in Object
        /\ \A sel \in SUBSET handles : sel \in SUBSET Object
    BY HandedOut DEF RefcountInv
  <1>2. PICK r \in Rev :
    \/ \E v \in Value : xorn_add_object(r, v)
    \/ \E stage \in 1..3 : AddObjectFails(r, stage)
    \/ \E ob \in handles, v \in Value : xorn_set_object_data(r, ob, v)
    \/ \E ob \in handles, stage \in 1..3 : SetObjectDataFails(r, ob, stage)
    \/ \E ob \in handles, to \in handles \cup {NULL}, before \in handles \cup {NULL} :
         xorn_relocate_object(r, ob, to, before)
    \/ \E ob \in handles : xorn_delete_object(r, ob)
    \/ \E sel \in SUBSET handles : xorn_delete_selected_objects(r, sel)
    \/ \E src \in Rev, ob \in handles : xorn_copy_object(r, src, ob)
    \/ \E src \in Rev, sel \in SUBSET handles : xorn_copy_objects(r, src, sel)
    \/ \E sel \in SUBSET handles, f \in Setters : set_attr(r, sel, f)
    \/ \E done \in SUBSET handles : SetAttrFails(r, done)
    BY DEF ObjectCall
  <1>3. CASE \E v \in Value : xorn_add_object(r, v)
    BY <1>3, AddObjectTree
  <1>4. CASE \E stage \in 1..3 : AddObjectFails(r, stage)
    <2>1. PICK stage \in 1..3 : AddObjectFails(r, stage)
      BY <1>4
    <2>2. PICK ob \in Object : ob = next_object_id + 1
      BY <1>1, <2>1, NextId DEF AddObjectFails
    <2>3. parent[r][ob] = Absent
      <3>1. ob > next_object_id
        BY <1>1, <2>2
      <3>2. obstates[r][ob] = None
        BY <3>1 DEF RefcountInv, ObstatesFresh
      <3> QED BY <3>2 DEF RowsOK, RowOK, Forest
    <2>4. Front(Append(children[r][NULL], ob)) = children[r][NULL]
      <3>1. children[r][NULL] \in Seq(Object)
        BY <1>1, NodeObject DEF TypeOK
      <3> QED BY <3>1, FrontProperties
    <2>5. UNCHANGED <<obstates, parent, children, cell>>
      BY <1>1, <2>1, <2>2, <2>3, <2>4 DEF AddObjectFails, heapVars, TypeOK
    <2> QED BY <2>5, SameRows
  <1>5. CASE \E ob \in handles, v \in Value : xorn_set_object_data(r, ob, v)
    BY <1>1, <1>5, SetObjectTree
  <1>6. CASE \E ob \in handles, stage \in 1..3 : SetObjectDataFails(r, ob, stage)
    <2>1. PICK ob \in handles, stage \in 1..3 : SetObjectDataFails(r, ob, stage)
      BY <1>6
    <2>2. Front(Append(children[r][NULL], ob)) = children[r][NULL]
      <3>1. children[r][NULL] \in Seq(Object)
        BY <1>1, NodeObject DEF TypeOK
      <3> QED BY <1>1, <3>1, FrontProperties
    <2>3. UNCHANGED <<obstates, parent, children, cell>>
      BY <1>1, <2>1, <2>2 DEF SetObjectDataFails, heapVars, TypeOK
    <2> QED BY <2>3, SameRows
  <1>7. CASE \E ob \in handles, to \in handles \cup {NULL}, before \in handles \cup {NULL} :
               xorn_relocate_object(r, ob, to, before)
    <2>1. PICK ob \in handles, to \in handles \cup {NULL}, before \in handles \cup {NULL} :
               xorn_relocate_object(r, ob, to, before)
      BY <1>7
    <2>2. ob \in Object /\ to \in Node /\ before \in Node
      BY <1>1, NodeObject
    <2> QED BY <2>1, <2>2, RelocateTree
  <1>8. CASE \E ob \in handles : xorn_delete_object(r, ob)
    BY <1>1, <1>8, DeleteFromTree DEF xorn_delete_object
  <1>9. CASE \E sel \in SUBSET handles : xorn_delete_selected_objects(r, sel)
    BY <1>9, SameRows DEF xorn_delete_selected_objects, Enter, revVars, heapVars
  <1>10. CASE \E src \in Rev, ob \in handles : xorn_copy_object(r, src, ob)
    BY <1>10, SameRows DEF xorn_copy_object, Enter, revVars, heapVars
  <1>11. CASE \E src \in Rev, sel \in SUBSET handles : xorn_copy_objects(r, src, sel)
    BY <1>11, SameRows DEF xorn_copy_objects, Enter, revVars, heapVars
  <1>12. CASE \E sel \in SUBSET handles, f \in Setters : set_attr(r, sel, f)
    BY <1>1, <1>12, SetAttrTree
  <1>13. CASE \E done \in SUBSET handles : SetAttrFails(r, done)
    BY SMTT(30), <1>1, <1>13, SetAttrFailsExact, SameRows DEF SetAttrFails, revVars
  <1> QED BY <1>2, <1>3, <1>4, <1>5, <1>6, <1>7, <1>8, <1>9, <1>10, <1>11, <1>12, <1>13

\* A call only starts to copy objects which are there, to the top level.
LEMMA ObjectCallTargets ==
  ASSUME RefcountInv, RefcountInv', ObjectCall
  PROVE  CopyTargets'
  <1>1. PICK r \in Rev :
    \/ \E v \in Value : xorn_add_object(r, v)
    \/ \E stage \in 1..3 : AddObjectFails(r, stage)
    \/ \E ob \in handles, v \in Value : xorn_set_object_data(r, ob, v)
    \/ \E ob \in handles, stage \in 1..3 : SetObjectDataFails(r, ob, stage)
    \/ \E ob \in handles, to \in handles \cup {NULL}, before \in handles \cup {NULL} :
         xorn_relocate_object(r, ob, to, before)
    \/ \E ob \in handles : xorn_delete_object(r, ob)
    \/ \E sel \in SUBSET handles : xorn_delete_selected_objects(r, sel)
    \/ \E src \in Rev, ob \in handles : xorn_copy_object(r, src, ob)
    \/ \E src \in Rev, sel \in SUBSET handles : xorn_copy_objects(r, src, sel)
    \/ \E sel \in SUBSET handles, f \in Setters : set_attr(r, sel, f)
    \/ \E done \in SUBSET handles : SetAttrFails(r, done)
    BY DEF ObjectCall
  <1>2. CASE \E src \in Rev, ob \in handles : xorn_copy_object(r, src, ob)
    <2>1. PICK src \in Rev, ob \in handles : xorn_copy_object(r, src, ob)
      BY <1>2
    <2>2. /\ call'.work = <<<<ob, NULL>>>> /\ call'.src = src /\ obstates' = obstates
          /\ Exists(src, ob)
      BY <2>1 DEF xorn_copy_object, Enter, revVars
    <2>3. \A i \in DOMAIN call'.work : call'.work[i] = <<ob, NULL>>
      BY <2>2
    <2> QED BY <2>2, <2>3 DEF CopyTargets, CanCopy, Exists
  <1>3. CASE \E src \in Rev, sel \in SUBSET handles : xorn_copy_objects(r, src, sel)
    <2>1. PICK src \in Rev, sel \in SUBSET handles : xorn_copy_objects(r, src, sel)
      BY <1>3
    <2> DEFINE found == {ob \in sel : Exists(src, ob)}
    <2>2. PICK s \in [1..Cardinality(found) -> found] :
            Enter("copying", r, src, TRUE, [i \in DOMAIN s |-> <<s[i], NULL>>], <<>>)
      BY <2>1 DEF xorn_copy_objects
    <2>3. /\ call'.work = [i \in DOMAIN s |-> <<s[i], NULL>>] /\ call'.src = src
          /\ obstates' = obstates
      BY <2>2 DEF Enter, revVars
    <2>4. \A i \in DOMAIN call'.work :
            Exists(src, s[i]) /\ call'.work[i] = <<s[i], NULL>>
      BY <2>3
    <2> HIDE DEF found
    <2> QED BY <2>3, <2>4 DEF CopyTargets, CanCopy, Exists
  <1>4. CASE \E sel \in SUBSET handles : xorn_delete_selected_objects(r, sel)
    BY <1>4 DEF xorn_delete_selected_objects, Enter, CopyTargets
  <1>5. ASSUME UNCHANGED call, call = Idle PROVE CopyTargets'
    BY <1>5 DEF Idle, CopyTargets
  <1> QED BY <1>1, <1>2, <1>3, <1>4, <1>5
       DEF xorn_add_object, AddObjectFails, xorn_set_object_data, SetObjectDataFails,
           xorn_relocate_object, xorn_delete_object, set_attr, SetAttrFails, Callable

LEMMA ProgressTree ==
  ASSUME RefcountInv, RefcountInv', RowsOK, CopyTargets, Progress
  PROVE  RowsOK' /\ CopyTargets'
  <1>1. TypeOK /\ call \in CallRecord
    BY DEF RefcountInv, TypeOK, CallRecord
  <1>2. CASE DeleteNext
    <2>1. PICK r \in Rev, ob \in Object : r = call.dst /\ ob = Head(call.list)
      <3>1. call.list \in Seq(Object) /\ call.list # <<>> /\ call.dst \in live
            /\ live \subseteq Rev
        BY <1>1, <1>2 DEF DeleteNext, TypeOK
      <3> QED BY <3>1, HeadTailProperties
    <2>2. CopyTargets'
      <3>1. call'.pc = "deleting"
        BY <1>1, <1>2 DEF DeleteNext, CallRecord
      <3> QED BY <3>1 DEF CopyTargets
    <2>3. RowsOK'
      <3>1. CASE parent[r][ob] # Absent
        BY <1>2, <2>1, <3>1, DeleteFromTree DEF DeleteNext
      <3>2. CASE parent[r][ob] = Absent
        BY <1>2, <2>1, <3>2, SameRows DEF DeleteNext, heapVars
      <3> QED BY <3>1, <3>2
    <2> QED BY <2>2, <2>3
  <1>3. CASE DeleteReturns \/ CopyReturns
    <2>1. UNCHANGED <<obstates, parent, children, cell>> /\ call' = Idle
      BY <1>3 DEF DeleteReturns, CopyReturns, Return, revVars, heapVars
    <2> QED BY <2>1, SameRows DEF CopyTargets, Idle
  <1>4. CASE copy_object
    BY <1>4, CopyStepTree
  <1>5. CASE \E stage \in 1..4 : CopyObjectFails(stage)
    <2>1. PICK stage \in 1..4 : CopyObjectFails(stage)
      BY <1>5
    <2>2. call'.pc = "deleting"
      BY <1>1, <2>1 DEF CopyObjectFails, Undo, CallRecord
    <2> QED BY <2>1, <2>2, CopyObjectFailsTree DEF CopyTargets
  <1>6. CASE CopyObjectsFails
    <2>1. UNCHANGED <<obstates, parent, children, cell>> /\ call'.pc = "deleting"
      BY <1>1, <1>6 DEF CopyObjectsFails, Undo, revVars, heapVars, CallRecord
    <2> QED BY <2>1, SameRows DEF CopyTargets
  <1> QED BY <1>2, <1>3, <1>4, <1>5, <1>6 DEF Progress

LEMMA InitTreeInv == Init => TreeInv
  <1> SUFFICES ASSUME Init PROVE TreeInv
    OBVIOUS
  <1>1. RefcountInv
    BY InitRefcountInv
  <1>2. RowsOK
    <2>1. \A r \in Rev : Forest(obstates[r], parent[r], children[r])
      BY EmptyForest DEF Init
    <2>2. \A r \in Rev : Shallow(r)
      BY NodeObject DEF Init, Shallow, NoParents
    <2> QED BY <2>1, <2>2 DEF RowsOK, RowOK
  <1>3. CopyTargets
    BY DEF Init, Idle, CopyTargets
  <1> QED BY <1>1, <1>2, <1>3, RowsOKMeans DEF TreeInv, RefcountInv

LEMMA NextTreeInv ==
  ASSUME TreeInv, [Next]_vars
  PROVE  TreeInv'
  <1>1. RefcountInv /\ RefcountInv'
    BY NextRefcountInv DEF TreeInv
  <1>2. RowsOK /\ CopyTargets
    BY RowsOKMeans DEF TreeInv, RefcountInv
  <1>3. RowsOK' /\ CopyTargets'
    <2>1. CASE RevisionCall
      BY <1>1, <1>2, <2>1, RevisionCallTree
    <2>2. CASE ObjectCall
      BY <1>1, <1>2, <2>2, ObjectCallTree, ObjectCallTargets
    <2>3. CASE Progress
      BY <1>1, <1>2, <2>3, ProgressTree
    <2>4. CASE UNCHANGED vars
      <3>1. UNCHANGED <<obstates, parent, children, cell, call>>
        BY SMTT(30), <2>4 DEF vars, revVars, heapVars
      <3>2. CopyTargets'
        BY <1>2, <3>1 DEF CopyTargets, CanCopy, Exists, TypeOf
      <3> QED BY <1>1, <1>2, <3>1, <3>2, SameRows
    <2> QED BY <2>1, <2>2, <2>3, <2>4 DEF Next
  <1> QED BY <1>1, <1>3, RowsOKMeans DEF TreeInv, RefcountInv

LEMMA TreeInvariant == Spec => []TreeInv
  <1>1. Init => TreeInv
    BY InitTreeInv
  <1>2. TreeInv /\ [Next]_vars => TreeInv'
    BY NextTreeInv
  <1> QED BY <1>1, <1>2, PTL DEF Spec

\* Object states, parents and lists of children describe one ordered forest in
\* every revision and every reachable state, half-done copies and deletions
\* included: no find() in manipulate.cc ever misses.
THEOREM TreeIsConsistent == Spec => []TreeConsistent
  <1>1. TreeInv => TreeConsistent
    BY DEF TreeInv
  <1> QED BY <1>1, TreeInvariant, PTL

\* Nothing but text is ever attached, and only to something unattached which can
\* hold it: the recursions over attached objects are one level deep.
THEOREM AttachmentsAreTyped == Spec => []AttachmentsTyped
  <1>1. TreeInv => AttachmentsTyped
    BY DEF TreeInv
  <1> QED BY <1>1, TreeInvariant, PTL

\* No id which hasn't been handed out is in use anywhere, not even after calls
\* which have used up ids and failed.
THEOREM IdsAreFresh == Spec => []IdsFresh
  <1>1. TreeInv => IdsFresh
    <2> SUFFICES ASSUME TreeInv, NEW r \in Rev, NEW ob \in Object, ob > next_object_id
                 PROVE  /\ obstates[r][ob] = None
                        /\ parent[r][ob] = Absent
                        /\ children[r][ob] = <<>>
      BY DEF IdsFresh
    <2>1. obstates[r][ob] = None
      BY DEF TreeInv, RefcountInv, ObstatesFresh
    <2> QED BY <2>1 DEF TreeInv, TreeConsistent, Exists
  <1> QED BY <1>1, TreeInvariant, PTL

=============================================================================
