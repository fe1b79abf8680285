----------------------- MODULE StorageRefcountProofs -----------------------
(* The types of all variables, for any number of revisions, addresses and  *)
(* objects; and reference counts are exact, so object states which         *)
(* somebody can see are never freed or overwritten.                        *)
EXTENDS Storage, FiniteSetTheorems, SequenceTheorems, WellFoundedInduction, TLAPS

-----------------------------------------------------------------------------
(* Finite sets *)

LEMMA ObjectFinite == IsFiniteSet(Object)
  <1>1. 1 \in Int /\ MaxObject \in Int
    BY StorageAssumption
  <1> QED BY <1>1, FS_Interval DEF Object

LEMMA SlotsFinite == IsFiniteSet(Rev \X Object)
  <1>1. IsFiniteSet(Rev)
    BY StorageAssumption
  <1> QED BY <1>1, ObjectFinite, FS_Product

\* The number of references a set of objects holds is a natural number.
LEMMA CountNat ==
  ASSUME NEW r \in Rev, NEW S \in SUBSET Object, NEW p
  PROVE  Count(r, S, p) \in Nat
  <1>1. IsFiniteSet({ob \in S : obstates[r][ob] = p})
    BY ObjectFinite, FS_Subset
  <1> QED BY <1>1, FS_CardinalityType DEF Count

-----------------------------------------------------------------------------
(* Lists of objects *)

LEMMA RemoveAtProperties ==
  ASSUME NEW S, NEW s \in Seq(S), NEW i \in 1..(Len(s) + 1)
  PROVE  /\ RemoveAt(s, i) \in Seq(S)
         /\ i <= Len(s) => Len(RemoveAt(s, i)) = Len(s) - 1
         /\ i <= Len(s) => \A j \in 1..(Len(s) - 1) :
              RemoveAt(s, i)[j] = IF j < i THEN s[j] ELSE s[j + 1]
  <1> DEFINE a == SubSeq(s, 1, i - 1)
             b == SubSeq(s, i + 1, Len(s))
  <1>1. /\ a \in Seq(S) /\ Len(a) = i - 1
        /\ \A j \in 1..(i - 1) : a[j] = s[j]
    BY SubSeqProperties, LenProperties
  <1>2. /\ b \in Seq(S) /\ Len(b) = IF i <= Len(s) THEN Len(s) - i ELSE 0
        /\ \A j \in 1..(Len(s) - i) : b[j] = s[i + j]
    BY SubSeqProperties, LenProperties
  <1>3. RemoveAt(s, i) = a \o b
    BY DEF RemoveAt
  <1> HIDE DEF a, b
  <1> QED BY SMTT(30), <1>1, <1>2, <1>3, ConcatProperties, LenProperties

LEMMA InsertAtProperties ==
  ASSUME NEW S, NEW s \in Seq(S), NEW i \in 1..Len(s), NEW e \in S
  PROVE  /\ InsertAt(s, i, e) \in Seq(S)
         /\ Len(InsertAt(s, i, e)) = Len(s) + 1
         /\ \A j \in 1..(Len(s) + 1) :
              InsertAt(s, i, e)[j] = IF j < i THEN s[j]
                                     ELSE IF j = i THEN e ELSE s[j - 1]
  <1> DEFINE a == SubSeq(s, 1, i - 1)
             b == SubSeq(s, i, Len(s))
  <1>1. /\ a \in Seq(S) /\ Len(a) = i - 1
        /\ \A j \in 1..(i - 1) : a[j] = s[j]
    BY SubSeqProperties, LenProperties
  <1>2. /\ b \in Seq(S) /\ Len(b) = Len(s) - i + 1
        /\ \A j \in 1..(Len(s) - i + 1) : b[j] = s[i + j - 1]
    BY SubSeqProperties, LenProperties
  <1>3. /\ <<e>> \in Seq(S) /\ Len(<<e>>) = 1 /\ <<e>>[1] = e
    OBVIOUS
  <1>4. InsertAt(s, i, e) = (a \o <<e>>) \o b
    BY DEF InsertAt
  <1> DEFINE c == a \o <<e>>
  <1>5. /\ c \in Seq(S) /\ Len(c) = i
        /\ \A j \in 1..(i - 1) : c[j] = s[j]
        /\ c[i] = e
    <2> HIDE DEF a
    <2> QED BY <1>1, <1>3, ConcatProperties, LenProperties
  <1> HIDE DEF b, c
  <1>6. /\ c \o b \in Seq(S) /\ Len(c \o b) = Len(s) + 1
        /\ \A j \in 1..(Len(s) + 1) :
             (c \o b)[j] = IF j <= i THEN c[j] ELSE b[j - i]
    <2>1. /\ c \o b \in Seq(S)
          /\ Len(c \o b) = Len(c) + Len(b)
          /\ \A j \in 1..(Len(c) + Len(b)) :
               (c \o b)[j] = IF j <= Len(c) THEN c[j] ELSE b[j - Len(c)]
      BY <1>2, <1>5, ConcatProperties
    <2>2. Len(c) = i /\ Len(c) + Len(b) = Len(s) + 1
      BY <1>2, <1>5, LenProperties
    <2> QED BY <2>1, <2>2
  <1> QED BY <1>2, <1>4, <1>5, <1>6, LenProperties DEF c

LEMMA FrontProperties ==
  ASSUME NEW S, NEW s \in Seq(S), NEW e \in S
  PROVE  Front(Append(s, e)) = s
  <1>1. Len(Append(s, e)) - 1 = Len(s)
    BY AppendProperties, LenProperties
  <1>2. /\ SubSeq(Append(s, e), 1, Len(s)) \in Seq(S)
        /\ Len(SubSeq(Append(s, e), 1, Len(s))) = Len(s)
        /\ \A i \in 1..Len(s) : SubSeq(Append(s, e), 1, Len(s))[i] = Append(s, e)[i]
    BY SubSeqProperties, AppendProperties, LenProperties
  <1> QED BY <1>1, <1>2, SeqEqual, AppendProperties DEF Front

\* Every non-empty set of natural numbers has a least element.
LEMMA LeastNumber ==
  ASSUME NEW T \in SUBSET Nat, T # {}
  PROVE  \E x \in T : \A y \in T : x <= y
  <1>1. PICK x \in T : \A y \in T : <<y, x>> \notin OpToRel(<, Nat)
    BY WFMin, NatLessThanWellFounded
  <1>2. \A y \in T : ~(y < x)
    BY <1>1 DEF OpToRel
  <1> QED BY <1>2

LEMMA FindProperties ==
  ASSUME NEW S, NEW s \in Seq(S), NEW x
  PROVE  /\ Find(s, x) \in 1..(Len(s) + 1)
         /\ x \in ToSet(s) => Find(s, x) <= Len(s) /\ s[Find(s, x)] = x
         /\ x \notin ToSet(s) => Find(s, x) = Len(s) + 1
  <1>1. DOMAIN s = 1..Len(s) /\ Len(s) \in Nat
    BY LenProperties
  <1>2. CASE x \in ToSet(s)
    <2> DEFINE T == {i \in DOMAIN s : s[i] = x}
    <2>1. T \in SUBSET Nat /\ T # {}
      BY <1>1, <1>2 DEF ToSet
    <2>2. PICK i \in T : \A j \in T : i <= j
      BY <2>1, LeastNumber
    <2>3. \E k \in DOMAIN s : s[k] = x /\ \A j \in 1..(k - 1) : s[j] # x
      BY <1>1, <2>2
    <2>4. /\ \E k \in DOMAIN s : s[k] = x
          /\ Find(s, x) = CHOOSE k \in DOMAIN s : s[k] = x /\ \A j \in 1..(k - 1) : s[j] # x
      BY <2>3 DEF Find
    <2>5. Find(s, x) \in DOMAIN s /\ s[Find(s, x)] = x
      BY <2>3, <2>4
    <2> QED BY <1>1, <1>2, <2>5
  <1>3. CASE x \notin ToSet(s)
    BY <1>1, <1>3 DEF Find, ToSet
  <1> QED BY <1>2, <1>3

-----------------------------------------------------------------------------
(* Types *)

\* The part of TypeOK about the contents of revisions and memory.
StateTyped ==
  /\ obstates \in [Rev -> [Object -> Addr \cup {None}]]
  /\ parent \in [Rev -> [Object -> Node \cup {Absent}]]
  /\ children \in [Rev -> [Node -> Seq(Object)]]
  /\ refcnt \in [Addr -> Int]
  /\ cell \in [Addr -> ValidData \cup {None}]

LEMMA NodeObject ==
  /\ Object \subseteq Node /\ NULL \in Node /\ NULL \notin Object
  /\ Absent \notin Node /\ Object \subseteq Nat
  /\ \A n \in Node : n < MaxObject => n + 1 \in Object /\ n + 1 \in Node
  BY StorageAssumption DEF Object, Node, NULL, Absent

LEMMA MaxObjectNat == MaxObject \in Nat
  BY StorageAssumption

\* Valid data stays valid when it is normalized.
LEMMA ObstateValid ==
  ASSUME NEW v \in ValidData
  PROVE  obstate(v) \in ValidData
  BY StorageAssumption DEF obstate

LEMMA ReclaimType ==
  ASSUME NEW cnt, NEW c \in [Addr -> ValidData \cup {None}]
  PROVE  Reclaim(cnt, c) \in [Addr -> ValidData \cup {None}]
  BY DEF Reclaim

LEMMA SetObjectDataTypes ==
  ASSUME TypeOK, NEW r \in Rev, NEW ob \in Object, NEW v \in ValidData,
         set_object_data(r, ob, v)
  PROVE  /\ obstates' \in [Rev -> [Object -> Addr \cup {None}]]
         /\ refcnt' \in [Addr -> Int]
         /\ cell' \in [Addr -> ValidData \cup {None}]
  <1>1. PICK p \in Addr :
          /\ obstates' = [obstates EXCEPT ![r][ob] = p]
          /\ refcnt' = [q \in Addr |-> IF q = p THEN 1
                                       ELSE IF q = obstates[r][ob] THEN refcnt[q] - 1
                                       ELSE refcnt[q]]
          /\ cell' = Reclaim(refcnt', [cell EXCEPT ![p] = obstate(v)])
    BY DEF set_object_data
  <1>2. obstates' \in [Rev -> [Object -> Addr \cup {None}]]
    BY <1>1 DEF TypeOK
  <1>3. refcnt' \in [Addr -> Int]
    BY <1>1 DEF TypeOK
  <1>4. [cell EXCEPT ![p] = obstate(v)] \in [Addr -> ValidData \cup {None}]
    BY <1>1, ObstateValid DEF TypeOK
  <1> QED BY <1>1, <1>2, <1>3, <1>4, ReclaimType

LEMMA DeleteFromTypes ==
  ASSUME TypeOK, NEW r \in Rev, NEW ob \in Object, parent[r][ob] # Absent,
         DeleteFrom(r, ob)
  PROVE  StateTyped'
  <1> DEFINE doomed == Doomed(children[r], ob)
             above == parent[r][ob]
             emptied == [n \in Node |-> IF n \in doomed THEN <<>> ELSE children[r][n]]
  <1>1. above \in Node
    BY DEF TypeOK
  <1>2. children[r] \in [Node -> Seq(Object)] /\ children[r][ob] \in Seq(Object)
    BY NodeObject DEF TypeOK
  <1>3. doomed \in SUBSET Object
    BY <1>2, LenProperties, ElementOfSeq DEF Doomed, ToSet
  <1>4. emptied \in [Node -> Seq(Object)] /\ emptied[above] \in Seq(Object)
    BY <1>1, <1>2
  <1>5. Find(emptied[above], ob) \in 1..(Len(emptied[above]) + 1)
    BY <1>4, FindProperties
  <1>6. RemoveAt(emptied[above], Find(emptied[above], ob)) \in Seq(Object)
    BY <1>4, <1>5, RemoveAtProperties
  <1> HIDE DEF doomed, above, emptied
  <1>7. /\ obstates' = [obstates EXCEPT ![r] =
                          [o \in Object |-> IF o \in doomed THEN None ELSE @[o]]]
        /\ refcnt' = [p \in Addr |-> refcnt[p] - Count(r, doomed, p)]
        /\ cell' = Reclaim(refcnt', cell)
        /\ parent' = [parent EXCEPT ![r] =
                        [o \in Object |-> IF o \in doomed THEN Absent ELSE @[o]]]
        /\ children' = [children EXCEPT ![r] =
                          [emptied EXCEPT ![above] = RemoveAt(@, Find(@, ob))]]
    BY DEF DeleteFrom, doomed, above, emptied
  <1>8. obstates' \in [Rev -> [Object -> Addr \cup {None}]]
    BY <1>7 DEF TypeOK
  <1>9. parent' \in [Rev -> [Object -> Node \cup {Absent}]]
    BY <1>7 DEF TypeOK
  <1>10. refcnt' \in [Addr -> Int]
    <2>1. \A p \in Addr : Count(r, doomed, p) \in Nat
      BY <1>3, CountNat
    <2> QED BY <1>7, <2>1 DEF TypeOK
  <1>11. cell' \in [Addr -> ValidData \cup {None}]
    BY <1>7, ReclaimType DEF TypeOK
  <1>12. [emptied EXCEPT ![above] = RemoveAt(@, Find(@, ob))] \in [Node -> Seq(Object)]
    BY <1>1, <1>4, <1>6
  <1>13. children' \in [Rev -> [Node -> Seq(Object)]]
    BY <1>7, <1>12 DEF TypeOK
  <1> QED BY <1>8, <1>9, <1>10, <1>11, <1>13 DEF StateTyped

LEMMA RelocatedType ==
  ASSUME NEW c \in [Node -> Seq(Object)], NEW old \in Node \cup {Absent},
         NEW new \in Node, NEW ob \in Object,
         NEW before \in Node, before # NULL => before \in ToSet(c[new])
  PROVE  Relocated(c, old, new, ob, before) \in [Node -> Seq(Object)]
  <1> DEFINE i == Find(c[old], ob)
             j == Find(c[new], before)
             pos == IF before # NULL /\ new = old /\ j <= i THEN i + 1 ELSE i
             entered == IF before = NULL THEN Append(c[new], ob)
                        ELSE InsertAt(c[new], j, ob)
             inserted == [c EXCEPT ![new] = IF before = NULL THEN Append(@, ob)
                                            ELSE InsertAt(@, j, ob)]
  <1>1. old # Absent => i \in 1..(Len(c[old]) + 1)
    BY FindProperties
  <1>2. /\ entered \in Seq(Object) /\ Len(entered) = Len(c[new]) + 1
        /\ before # NULL => j \in 1..Len(c[new])
    <2>1. CASE before = NULL
      BY <2>1, AppendProperties
    <2>2. CASE before # NULL
      <3>1. j \in 1..Len(c[new])
        BY <2>2, FindProperties, LenProperties
      <3> HIDE DEF j
      <3> QED BY <2>2, <3>1, InsertAtProperties
    <2> QED BY <2>1, <2>2
  <1> HIDE DEF i, j
  <1>3. inserted \in [Node -> Seq(Object)] /\ inserted[new] = entered
        /\ \A n \in Node : n # new => inserted[n] = c[n]
    BY <1>2
  <1> HIDE DEF inserted, entered
  <1>4. old # Absent => pos \in 1..(Len(inserted[old]) + 1)
    <2> SUFFICES ASSUME old \in Node
                 PROVE  pos \in 1..(Len(inserted[old]) + 1)
      OBVIOUS
    <2>1. Len(c[old]) \in Nat /\ Len(inserted[old]) \in Nat
      BY <1>3, LenProperties
    <2>2. i \in 1..(Len(c[old]) + 1)
      BY <1>1, NodeObject
    <2>3. CASE new = old
      BY <1>2, <1>3, <2>1, <2>2, <2>3
    <2>4. CASE new # old
      BY <1>3, <2>1, <2>2, <2>4
    <2> QED BY <2>3, <2>4
  <1> HIDE DEF pos
  <1>5. old # Absent => RemoveAt(inserted[old], pos) \in Seq(Object)
    BY <1>3, <1>4, RemoveAtProperties
  <1>6. Relocated(c, old, new, ob, before) = [inserted EXCEPT ![old] = RemoveAt(@, pos)]
    BY DEF Relocated, inserted, pos, i, j
  <1> QED BY <1>3, <1>5, <1>6, NodeObject

\* The part of TypeOK about the local variables of the function in progress.
CallTyped ==
  /\ call \in [pc : {"idle", "copying", "deleting"},
               dst : Rev \cup {None}, src : Rev \cup {None}, multi : BOOLEAN,
               work : Seq(Object \X Node), list : Seq(Object)]
  /\ ToSet(call.list) \subseteq 1..next_object_id
  /\ call.pc # "idle" => call.dst \in live /\ is_transient[call.dst]
  /\ call.pc = "copying" => call.src \in live

\* TypeOK in these parts; the second form is for the state after a step.
TypedParts ==
  /\ live \subseteq Rev
  /\ is_transient \in [Rev -> BOOLEAN]
  /\ StateTyped
  /\ next_object_id \in Node
  /\ handles \subseteq 1..next_object_id
  /\ CallTyped

LEMMA TypeOKParts == (TypeOK <=> TypedParts) /\ (TypeOK' <=> TypedParts')
  BY DEF TypeOK, TypedParts, StateTyped, CallTyped

LEMMA HandlesAreObjects ==
  ASSUME TypeOK
  PROVE  handles \subseteq Object /\ 1..next_object_id \subseteq Object
  BY StorageAssumption DEF TypeOK, Object, Node

LEMMA IdleTyped ==
  /\ Idle \in [pc : {"idle", "copying", "deleting"},
               dst : Rev \cup {None}, src : Rev \cup {None}, multi : BOOLEAN,
               work : Seq(Object \X Node), list : Seq(Object)]
  /\ Idle.pc = "idle"
  /\ ToSet(Idle.list) = {}
  BY EmptySeq DEF Idle, ToSet

LEMMA InitTypeOK == Init => TypeOK
  <1> SUFFICES ASSUME Init PROVE TypeOK
    OBVIOUS
  <1>1. StateTyped
    <2>1. <<>> \in Seq(Object)
      BY EmptySeq
    <2> QED BY <2>1 DEF Init, StateTyped, NoObstates, NoParents, NoChildren
  <1>2. CallTyped
    BY IdleTyped DEF Init, CallTyped
  <1>3. next_object_id \in Node
    BY StorageAssumption DEF Init, Node
  <1> QED BY <1>1, <1>2, <1>3, TypeOKParts DEF TypedParts, Init

\* Calls which make one step: all but the loops.
LEMMA RevisionCallTypes ==
  ASSUME TypeOK, RevisionCall
  PROVE  TypeOK'
  <1>1. PICK r \in Rev : \/ xorn_new_revision(r)
                        \/ \E from \in Rev : copy_revision(r, from)
                        \/ xorn_finalize_revision(r)
                        \/ xorn_free_revision(r)
    BY DEF RevisionCall
  <1>2. CASE xorn_new_revision(r)
    BY <1>2 DEF xorn_new_revision, TypeOK, heapVars, Idle
  <1>3. CASE \E from \in Rev : copy_revision(r, from)
    <2>1. PICK from \in Rev : copy_revision(r, from)
      BY <1>3
    <2>2. \A p \in Addr : Count(from, Object, p) \in Nat
      BY CountNat
    <2>3. refcnt' \in [Addr -> Int]
      BY <2>1, <2>2 DEF copy_revision, TypeOK
    <2>4. StateTyped'
      BY <2>1, <2>3 DEF copy_revision, TypeOK, StateTyped
    <2>5. CallTyped'
      BY <2>1 DEF copy_revision, TypeOK, CallTyped, Idle
    <2> QED BY <2>1, <2>4, <2>5, TypeOKParts DEF TypedParts, copy_revision, TypeOK
  <1>4. CASE xorn_finalize_revision(r)
    BY <1>4 DEF xorn_finalize_revision, TypeOK, heapVars, Idle
  <1>5. CASE xorn_free_revision(r)
    <2>1. \A p \in Addr : Count(r, Object, p) \in Nat
      BY CountNat
    <2>2. refcnt' \in [Addr -> Int]
      BY <1>5, <2>1 DEF xorn_free_revision, TypeOK
    <2>3. cell' \in [Addr -> ValidData \cup {None}]
      BY <1>5, ReclaimType DEF xorn_free_revision, TypeOK
    <2>4. <<>> \in Seq(Object)
      BY EmptySeq
    <2>5. StateTyped'
      BY <1>5, <2>2, <2>3, <2>4
         DEF xorn_free_revision, TypeOK, StateTyped, NoObstates, NoParents, NoChildren
    <2>6. CallTyped'
      BY <1>5 DEF xorn_free_revision, TypeOK, CallTyped, Idle
    <2> QED BY <1>5, <2>5, <2>6, TypeOKParts DEF TypedParts, xorn_free_revision, TypeOK
  <1> QED BY <1>1, <1>2, <1>3, <1>4, <1>5

\* Steps between two calls leave the local variables alone.
LEMMA CallTypedKept ==
  ASSUME TypeOK, NEW r \in Rev, Callable(r), next_object_id' \in Node,
         next_object_id <= next_object_id', UNCHANGED <<live, is_transient, call>>
  PROVE  CallTyped'
  BY IdleTyped DEF Callable, CallTyped, TypeOK

LEMMA CallTypedSame ==
  ASSUME TypeOK, NEW r \in Rev, Callable(r),
         UNCHANGED <<next_object_id, live, is_transient, call>>
  PROVE  CallTyped'
  <1>1. next_object_id' \in Node /\ next_object_id <= next_object_id'
    BY MaxObjectNat DEF TypeOK, Node
  <1> QED BY <1>1, CallTypedKept

LEMMA AddObjectTypes ==
  ASSUME TypeOK, NEW r \in Rev, NEW v \in Value, xorn_add_object(r, v)
  PROVE  TypeOK'
  <1> DEFINE ob == next_object_id + 1
  <1>1. ob \in Object /\ ob \in Node /\ next_object_id <= ob /\ ob \in 1..ob
    BY NodeObject, StorageAssumption DEF xorn_add_object, TypeOK, Node
  <1> HIDE DEF ob
  <1>2. /\ Callable(r) /\ v \in ValidData
        /\ next_object_id' = ob
        /\ children' = [children EXCEPT ![r][NULL] = Append(@, ob)]
        /\ parent' = [parent EXCEPT ![r][ob] = NULL]
        /\ set_object_data(r, ob, v)
        /\ handles' = handles \cup {ob}
        /\ UNCHANGED <<live, is_transient, call, entry>>
    BY DEF xorn_add_object, ob
  <1>3. /\ obstates' \in [Rev -> [Object -> Addr \cup {None}]]
        /\ refcnt' \in [Addr -> Int]
        /\ cell' \in [Addr -> ValidData \cup {None}]
    BY <1>1, <1>2, SetObjectDataTypes
  <1>4. children' \in [Rev -> [Node -> Seq(Object)]]
    <2>1. Append(children[r][NULL], ob) \in Seq(Object)
      BY <1>1, NodeObject, AppendProperties DEF TypeOK
    <2> QED BY <1>2, <2>1 DEF TypeOK
  <1>5. parent' \in [Rev -> [Object -> Node \cup {Absent}]]
    BY <1>2, NodeObject DEF TypeOK
  <1>6. StateTyped'
    BY <1>3, <1>4, <1>5 DEF StateTyped
  <1>7. CallTyped'
    BY <1>1, <1>2, CallTypedKept
  <1>8. handles' \subseteq 1..next_object_id'
    <2>1. handles \subseteq 1..next_object_id /\ next_object_id \in Int /\ ob \in Int
      BY <1>1, StorageAssumption DEF TypeOK, Node, Object
    <2> QED BY <1>1, <1>2, <2>1
  <1> QED BY <1>1, <1>2, <1>6, <1>7, <1>8, TypeOKParts DEF TypedParts

LEMMA AddObjectFailsTypes ==
  ASSUME TypeOK, NEW r \in Rev, NEW stage \in 1..3, AddObjectFails(r, stage)
  PROVE  TypeOK'
  <1> DEFINE ob == next_object_id + 1
  <1>1. ob \in Object /\ ob \in Node /\ next_object_id <= ob /\ ob \in 1..ob
    BY SMTT(30), NodeObject, StorageAssumption DEF AddObjectFails, TypeOK, Node
  <1>2. Front(Append(children[r][NULL], ob)) = children[r][NULL]
    BY <1>1, NodeObject, FrontProperties DEF TypeOK
  <1> HIDE DEF ob
  <1>3. /\ Callable(r)
        /\ next_object_id' = ob
        /\ children' = IF stage = 1 THEN children
                       ELSE [children EXCEPT ![r][NULL] = Front(Append(@, ob))]
        /\ parent' = IF stage < 3 THEN parent ELSE [parent EXCEPT ![r][ob] = Absent]
        /\ UNCHANGED <<live, is_transient, obstates, heapVars, handles, call, entry>>
    BY DEF AddObjectFails, ob
  <1>4. children' \in [Rev -> [Node -> Seq(Object)]]
    BY <1>2, <1>3, NodeObject DEF TypeOK
  <1>5. parent' \in [Rev -> [Object -> Node \cup {Absent}]]
    BY <1>3 DEF TypeOK
  <1>6. StateTyped'
    BY <1>3, <1>4, <1>5 DEF StateTyped, TypeOK, heapVars
  <1>7. CallTyped'
    BY <1>1, <1>3, CallTypedKept
  <1>8. handles' \subseteq 1..next_object_id'
    <2>1. handles \subseteq 1..next_object_id /\ next_object_id \in Int /\ ob \in Int
      BY <1>1, StorageAssumption DEF TypeOK, Node, Object
    <2> QED BY <1>1, <1>3, <2>1
  <1> QED BY <1>1, <1>3, <1>6, <1>7, <1>8, TypeOKParts DEF TypedParts

LEMMA SetObjectTypes ==
  ASSUME TypeOK, NEW r \in Rev, NEW ob \in Object, NEW v \in Value,
         xorn_set_object_data(r, ob, v)
  PROVE  TypeOK'
  <1>1. /\ Callable(r) /\ v \in ValidData
        /\ \/ /\ children' = [children EXCEPT ![r][NULL] = Append(@, ob)]
              /\ parent' = [parent EXCEPT ![r][ob] = NULL]
           \/ UNCHANGED <<children, parent>>
        /\ set_object_data(r, ob, v)
        /\ UNCHANGED <<live, is_transient, next_object_id, handles, call, entry>>
    BY DEF xorn_set_object_data
  <1>2. /\ obstates' \in [Rev -> [Object -> Addr \cup {None}]]
        /\ refcnt' \in [Addr -> Int]
        /\ cell' \in [Addr -> ValidData \cup {None}]
    BY <1>1, SetObjectDataTypes
  <1>3. Append(children[r][NULL], ob) \in Seq(Object)
    BY NodeObject, AppendProperties DEF TypeOK
  <1>4. /\ children' \in [Rev -> [Node -> Seq(Object)]]
        /\ parent' \in [Rev -> [Object -> Node \cup {Absent}]]
    <2>1. CASE UNCHANGED <<children, parent>>
      BY <2>1 DEF TypeOK
    <2>2. CASE /\ children' = [children EXCEPT ![r][NULL] = Append(@, ob)]
               /\ parent' = [parent EXCEPT ![r][ob] = NULL]
      BY <1>3, <2>2, NodeObject DEF TypeOK
    <2> QED BY <1>1, <2>1, <2>2
  <1>5. StateTyped'
    BY <1>2, <1>4 DEF StateTyped
  <1>6. CallTyped'
    <2>1. next_object_id' \in Node /\ next_object_id <= next_object_id'
      BY <1>1, StorageAssumption DEF TypeOK, Node
    <2> QED BY <1>1, <2>1, CallTypedKept
  <1> QED BY <1>1, <1>5, <1>6, TypeOKParts DEF TypedParts, TypeOK

LEMMA SetObjectDataFailsTypes ==
  ASSUME TypeOK, NEW r \in Rev, NEW ob \in Object, NEW stage \in 1..3,
         SetObjectDataFails(r, ob, stage)
  PROVE  TypeOK'
  <1>1. Front(Append(children[r][NULL], ob)) = children[r][NULL]
    BY NodeObject, FrontProperties DEF TypeOK
  <1>2. children' \in [Rev -> [Node -> Seq(Object)]]
    BY <1>1, NodeObject DEF SetObjectDataFails, TypeOK
  <1>3. parent' \in [Rev -> [Object -> Node \cup {Absent}]]
    BY DEF SetObjectDataFails, TypeOK
  <1>4. StateTyped'
    BY <1>2, <1>3 DEF StateTyped, SetObjectDataFails, TypeOK, heapVars
  <1>5. CallTyped'
    BY CallTypedSame DEF SetObjectDataFails
  <1> QED BY <1>4, <1>5, TypeOKParts DEF TypedParts, SetObjectDataFails, TypeOK

LEMMA RelocateTypes ==
  ASSUME TypeOK, NEW r \in Rev, NEW ob \in Object, NEW to \in Node, NEW before \in Node,
         xorn_relocate_object(r, ob, to, before)
  PROVE  TypeOK'
  <1> DEFINE moved == Relocated(children[r], parent[r][ob], to, ob, before)
  <1>1. moved \in [Node -> Seq(Object)]
    <2>1. /\ children[r] \in [Node -> Seq(Object)]
          /\ parent[r][ob] \in Node \cup {Absent}
      BY DEF TypeOK
    <2>2. before # NULL => before \in ToSet(children[r][to])
      BY DEF xorn_relocate_object, CanRelocate
    <2> QED BY <2>1, <2>2, RelocatedType
  <1>2. /\ Callable(r)
        /\ children' = [children EXCEPT ![r] = moved]
        /\ parent' = [parent EXCEPT ![r][ob] = to]
        /\ UNCHANGED <<live, is_transient, obstates, heapVars, next_object_id,
                       handles, call, entry>>
    BY DEF xorn_relocate_object, TypeOK
  <1> HIDE DEF moved
  <1>3. StateTyped'
    BY <1>1, <1>2 DEF StateTyped, TypeOK, heapVars
  <1>4. CallTyped'
    BY <1>2, CallTypedSame
  <1> QED BY <1>2, <1>3, <1>4, TypeOKParts DEF TypedParts, TypeOK

LEMMA DeleteObjectTypes ==
  ASSUME TypeOK, NEW r \in Rev, NEW ob \in Object, xorn_delete_object(r, ob)
  PROVE  TypeOK'
  <1>1. StateTyped'
    BY DeleteFromTypes DEF xorn_delete_object
  <1>2. CallTyped'
    BY CallTypedSame DEF xorn_delete_object
  <1> QED BY <1>1, <1>2, TypeOKParts DEF TypedParts, TypeOK, xorn_delete_object

LEMMA SetAttrTypes ==
  ASSUME TypeOK, NEW r \in Rev, NEW sel \in SUBSET Object, NEW f \in Setters,
         set_attr(r, sel, f)
  PROVE  TypeOK'
  <1> DEFINE affected == Affected(r, sel, f)
  <1>1. PICK new \in [affected -> Addr] :
       /\ obstates' = [obstates EXCEPT ![r] =
            [ob \in Object |-> IF ob \in affected THEN new[ob] ELSE @[ob]]]
       /\ refcnt' = [p \in Addr |->
            IF \E ob \in affected : p = new[ob] THEN 1
            ELSE (refcnt[p] + Count(r, Object, p))
                 - Count(r, affected, p) - Count(r, Object, p)]
       /\ cell' = Reclaim(refcnt', [p \in Addr |->
            IF \E ob \in affected : p = new[ob]
            THEN LET ob == CHOOSE o \in affected : p = new[o]
                 IN obstate(<<TypeOf(r, ob), f[ValueOf(r, ob)]>>)
            ELSE cell[p]])
    BY DEF set_attr
  <1>2. affected \subseteq Object
    BY DEF Affected
  <1>3. \A ob \in affected : <<TypeOf(r, ob), f[ValueOf(r, ob)]>> \in ValidData
    BY DEF Affected
  <1> HIDE DEF affected
  <1>4. obstates' \in [Rev -> [Object -> Addr \cup {None}]]
    BY <1>1, <1>2 DEF TypeOK
  <1>5. refcnt' \in [Addr -> Int]
    <2>1. \A p \in Addr : Count(r, affected, p) \in Nat /\ Count(r, Object, p) \in Nat
      BY <1>2, CountNat
    <2> QED BY <1>1, <2>1 DEF TypeOK
  <1>6. cell' \in [Addr -> ValidData \cup {None}]
    <2> DEFINE c == [p \in Addr |->
            IF \E ob \in affected : p = new[ob]
            THEN LET ob == CHOOSE o \in affected : p = new[o]
                 IN obstate(<<TypeOf(r, ob), f[ValueOf(r, ob)]>>)
            ELSE cell[p]]
    <2>1. \A ob \in affected : obstate(<<TypeOf(r, ob), f[ValueOf(r, ob)]>>) \in ValidData
      BY <1>3, ObstateValid
    <2>2. c \in [Addr -> ValidData \cup {None}]
      BY <2>1 DEF TypeOK
    <2> QED BY <1>1, <2>2, ReclaimType
  <1>7. StateTyped'
    BY <1>4, <1>5, <1>6 DEF StateTyped, set_attr, TypeOK
  <1>8. CallTyped'
    BY CallTypedSame DEF set_attr
  <1> QED BY <1>7, <1>8, TypeOKParts DEF TypedParts, TypeOK, set_attr

LEMMA SetAttrFailsTypes ==
  ASSUME TypeOK, NEW r \in Rev, NEW done \in SUBSET Object, SetAttrFails(r, done)
  PROVE  TypeOK'
  <1>1. \A p \in Addr : /\ Count(r, Object, p) \in Nat
                       /\ Count(r, done, p) \in Nat
                       /\ Count(r, Object \ done, p) \in Nat
    BY CountNat
  <1>2. refcnt' \in [Addr -> Int]
    <2>1. refcnt' = [p \in Addr |-> (refcnt[p] + Count(r, Object, p))
                                   - Count(r, done, p) - Count(r, Object \ done, p)]
      BY DEF SetAttrFails
    <2>2. \A p \in Addr : (refcnt[p] + Count(r, Object, p))
                        - Count(r, done, p) - Count(r, Object \ done, p) \in Int
      <3> TAKE p \in Addr
      <3> DEFINE all == Count(r, Object, p)
                 moved == Count(r, done, p)
                 others == Count(r, Object \ done, p)
      <3>1. refcnt[p] \in Int
        BY DEF TypeOK
      <3>2. all \in Nat /\ moved \in Nat /\ others \in Nat
        BY <1>1
      <3> HIDE DEF all, moved, others
      <3>3. (refcnt[p] + all) - moved - others \in Int
        BY <3>1, <3>2
      <3> QED BY <3>3 DEF all, moved, others
    <2> QED BY <2>1, <2>2
  <1>3. cell' \in [Addr -> ValidData \cup {None}]
    BY ReclaimType DEF SetAttrFails, TypeOK
  <1>4. StateTyped'
    BY <1>2, <1>3 DEF StateTyped, SetAttrFails, TypeOK, revVars
  <1>5. CallTyped'
    BY CallTypedSame DEF SetAttrFails, revVars
  <1> QED BY <1>4, <1>5, TypeOKParts DEF TypedParts, TypeOK, SetAttrFails, revVars

\* Functions which contain a loop: entering, the steps, and returning.
CallRecord == [pc : {"idle", "copying", "deleting"},
               dst : Rev \cup {None}, src : Rev \cup {None}, multi : BOOLEAN,
               work : Seq(Object \X Node), list : Seq(Object)]

LEMMA FunctionIsSeq ==
  ASSUME NEW S, NEW n \in Nat, NEW s \in [1..n -> S]
  PROVE  s \in Seq(S) /\ DOMAIN s = 1..n /\ ToSet(s) \subseteq S
  BY SeqDef DEF ToSet

LEMMA EnterTypes ==
  ASSUME TypeOK, NEW r \in Rev, Callable(r), NEW pc \in {"copying", "deleting"},
         NEW src \in Rev \cup {None}, pc = "copying" => src \in live,
         NEW multi \in BOOLEAN, NEW work \in Seq(Object \X Node),
         NEW list \in Seq(Object), ToSet(list) \subseteq 1..next_object_id,
         Enter(pc, r, src, multi, work, list)
  PROVE  TypeOK'
  <1>1. call' = [pc |-> pc, dst |-> r, src |-> src, multi |-> multi,
                 work |-> work, list |-> list]
    BY DEF Enter
  <1>2. call' \in CallRecord
    BY <1>1 DEF CallRecord
  <1>3. CallTyped'
    BY <1>1, <1>2 DEF CallTyped, CallRecord, Callable, Enter, revVars
  <1>4. StateTyped'
    BY DEF Enter, revVars, heapVars, StateTyped, TypeOK
  <1> QED BY <1>3, <1>4, TypeOKParts DEF TypedParts, TypeOK, Enter, revVars

LEMMA ReturnTypes ==
  ASSUME TypeOK, NEW known \in SUBSET (1..next_object_id), Return(known)
  PROVE  TypeOK'
  <1>1. CallTyped'
    BY IdleTyped DEF Return, CallTyped
  <1>2. StateTyped'
    BY DEF Return, revVars, heapVars, StateTyped, TypeOK
  <1> QED BY <1>1, <1>2, TypeOKParts DEF TypedParts, TypeOK, Return, revVars

LEMMA DeleteSelectedTypes ==
  ASSUME TypeOK, NEW r \in Rev, NEW sel \in SUBSET handles,
         xorn_delete_selected_objects(r, sel)
  PROVE  TypeOK'
  <1>1. Cardinality(sel) \in Nat
    <2>1. sel \in SUBSET Object
      BY HandlesAreObjects
    <2> QED BY <2>1, ObjectFinite, FS_Subset, FS_CardinalityType
  <1>2. PICK s \in [1..Cardinality(sel) -> sel] :
          Enter("deleting", r, None, FALSE, <<>>, s)
    BY DEF xorn_delete_selected_objects
  <1>3. s \in Seq(sel) /\ ToSet(s) \subseteq sel
    BY <1>1, FunctionIsSeq
  <1>4. s \in Seq(Object) /\ ToSet(s) \subseteq 1..next_object_id
    <2>1. sel \subseteq Object /\ sel \subseteq 1..next_object_id
      BY HandlesAreObjects DEF TypeOK
    <2> QED BY <1>3, <2>1, SeqMonotonic
  <1>5. <<>> \in Seq(Object \X Node)
    BY EmptySeq
  <1>6. Callable(r)
    BY DEF xorn_delete_selected_objects
  <1> QED BY <1>2, <1>4, <1>5, <1>6, EnterTypes

LEMMA CopyObjectTypes ==
  ASSUME TypeOK, NEW r \in Rev, NEW src \in Rev, NEW ob \in Object,
         xorn_copy_object(r, src, ob)
  PROVE  TypeOK'
  <1>1. <<<<ob, NULL>>>> \in Seq(Object \X Node)
    BY NodeObject
  <1>2. <<>> \in Seq(Object) /\ ToSet(<<>>) \subseteq 1..next_object_id
    BY EmptySeq DEF ToSet
  <1> QED BY <1>1, <1>2, EnterTypes DEF xorn_copy_object

LEMMA CopyObjectsTypes ==
  ASSUME TypeOK, NEW r \in Rev, NEW src \in Rev, NEW sel \in SUBSET Object,
         xorn_copy_objects(r, src, sel)
  PROVE  TypeOK'
  <1> DEFINE found == {ob \in sel : Exists(src, ob)}
  <1>1. Cardinality(found) \in Nat
    BY ObjectFinite, FS_Subset, FS_CardinalityType
  <1>2. /\ Callable(r) /\ src \in live
        /\ \E s \in [1..Cardinality(found) -> found] :
             Enter("copying", r, src, TRUE, [i \in DOMAIN s |-> <<s[i], NULL>>], <<>>)
    BY DEF xorn_copy_objects
  <1> HIDE DEF found
  <1>3. PICK s \in [1..Cardinality(found) -> found] :
          Enter("copying", r, src, TRUE, [i \in DOMAIN s |-> <<s[i], NULL>>], <<>>)
    BY <1>2
  <1>4. [i \in DOMAIN s |-> <<s[i], NULL>>] \in Seq(Object \X Node)
    <2>1. found \subseteq Object
      BY DEF found
    <2>2. [i \in DOMAIN s |-> <<s[i], NULL>>] \in [1..Cardinality(found) -> Object \X Node]
      BY <2>1, NodeObject
    <2> QED BY <1>1, <2>2, SeqDef
  <1>5. <<>> \in Seq(Object) /\ ToSet(<<>>) \subseteq 1..next_object_id
    BY EmptySeq DEF ToSet
  <1> QED BY <1>2, <1>3, <1>4, <1>5, EnterTypes

LEMMA DeleteNextTypes ==
  ASSUME TypeOK, DeleteNext
  PROVE  TypeOK'
  <1> DEFINE r == call.dst
             ob == Head(call.list)
  <1>1. /\ call \in CallRecord /\ call.list \in Seq(Object) /\ call.list # <<>>
        /\ r \in live /\ r \in Rev
    BY DEF DeleteNext, TypeOK, CallRecord
  <1>2. ob \in Object
    BY <1>1, HeadTailProperties
  <1>3. Tail(call.list) \in Seq(Object) /\ ToSet(Tail(call.list)) \subseteq ToSet(call.list)
    <2>1. /\ Tail(call.list) \in Seq(Object)
          /\ Len(Tail(call.list)) = Len(call.list) - 1
          /\ \A i \in 1..Len(Tail(call.list)) : Tail(call.list)[i] = call.list[i + 1]
      BY <1>1, HeadTailProperties
    <2>2. /\ DOMAIN call.list = 1..Len(call.list) /\ Len(call.list) \in Nat
          /\ DOMAIN Tail(call.list) = 1..Len(Tail(call.list))
      BY <1>1, <2>1, LenProperties
    <2> QED BY <2>1, <2>2 DEF ToSet
  <1>4. StateTyped'
    <2>1. CASE parent[r][ob] # Absent
      BY <1>1, <1>2, <2>1, DeleteFromTypes DEF DeleteNext
    <2>2. CASE parent[r][ob] = Absent
      BY <2>2 DEF DeleteNext, heapVars, StateTyped, TypeOK
    <2> QED BY <2>1, <2>2
  <1>5. call' = [call EXCEPT !.list = Tail(@)]
    BY DEF DeleteNext
  <1>6. CallTyped'
    BY <1>1, <1>3, <1>5 DEF CallTyped, CallRecord, TypeOK, DeleteNext
  <1> QED BY <1>4, <1>6, TypeOKParts DEF TypedParts, TypeOK, DeleteNext

\* The first of the calls to be made is about an object and where to attach it.
LEMMA WorkTypes ==
  ASSUME TypeOK, call.pc = "copying", call.work # <<>>
  PROVE  /\ call \in CallRecord /\ call.dst \in Rev /\ call.src \in Rev
         /\ Head(call.work)[1] \in Object /\ Head(call.work)[2] \in Node
         /\ Tail(call.work) \in Seq(Object \X Node)
  <1>1. /\ call \in CallRecord /\ call.work \in Seq(Object \X Node)
        /\ call.dst \in Rev /\ call.src \in Rev
    BY DEF TypeOK, CallRecord
  <1>2. Head(call.work) \in Object \X Node /\ Tail(call.work) \in Seq(Object \X Node)
    BY <1>1, HeadTailProperties
  <1> QED BY <1>1, <1>2

LEMMA NextId ==
  ASSUME TypeOK, next_object_id < MaxObject
  PROVE  /\ next_object_id + 1 \in Object /\ next_object_id + 1 \in Node
         /\ 1..next_object_id \subseteq 1..(next_object_id + 1)
         /\ next_object_id + 1 \in 1..(next_object_id + 1)
  BY NodeObject, StorageAssumption DEF TypeOK, Node

LEMMA AppendSet ==
  ASSUME NEW S, NEW s \in Seq(S), NEW e \in S
  PROVE  ToSet(Append(s, e)) = ToSet(s) \cup {e}
  <1>1. /\ Append(s, e) \in Seq(S) /\ Len(Append(s, e)) = Len(s) + 1
        /\ \A i \in 1..Len(s) : Append(s, e)[i] = s[i]
        /\ Append(s, e)[Len(s) + 1] = e
    BY AppendProperties
  <1>2. /\ DOMAIN s = 1..Len(s) /\ Len(s) \in Nat
        /\ DOMAIN Append(s, e) = 1..(Len(s) + 1)
    BY <1>1, LenProperties
  <1> QED BY <1>1, <1>2 DEF ToSet

LEMMA CopyStepTypes ==
  ASSUME TypeOK, copy_object
  PROVE  TypeOK'
  <1> DEFINE dst == call.dst
             ob == Head(call.work)[1]
             attach_to == Head(call.work)[2]
             copy == next_object_id + 1
             state == obstates[call.src][ob]
             attached == Attached(call.src, ob, copy)
  <1>1. /\ call.pc = "copying" /\ call.work # <<>> /\ next_object_id < MaxObject
        /\ next_object_id' = copy
        /\ children' = [children EXCEPT ![dst][attach_to] = Append(@, copy)]
        /\ parent' = [parent EXCEPT ![dst][copy] = attach_to]
        /\ obstates' = [obstates EXCEPT ![dst][copy] = state]
        /\ refcnt' = [refcnt EXCEPT ![state] = @ + 1]
        /\ call' = [call EXCEPT !.work = attached \o Tail(@), !.list = Append(@, copy)]
        /\ UNCHANGED <<live, is_transient, cell, handles, entry>>
    BY SMTT(60) DEF copy_object
  <1>2. /\ call \in CallRecord /\ dst \in Rev /\ call.src \in Rev
        /\ ob \in Object /\ attach_to \in Node
        /\ Tail(call.work) \in Seq(Object \X Node)
    BY <1>1, WorkTypes, SMTT(60)
  <1>3. copy \in Object /\ copy \in Node /\ 1..next_object_id \subseteq 1..copy
        /\ copy \in 1..copy
    BY <1>1, NextId
  <1>4. attached \in Seq(Object \X Node)
    <2> DEFINE s == children[call.src][ob]
    <2>1. s \in Seq(Object)
      <3>1. children \in [Rev -> [Node -> Seq(Object)]]
        BY DEF TypeOK
      <3>2. call.src \in Rev /\ ob \in Node
        BY <1>2, NodeObject
      <3> HIDE DEF ob
      <3> QED BY <3>1, <3>2
    <2>2. /\ Len(s) \in Nat /\ DOMAIN s = 1..Len(s)
          /\ \A i \in 1..Len(s) : s[i] \in Object
      BY <2>1, LenProperties, ElementOfSeq
    <2> HIDE DEF s
    <2>3. [i \in DOMAIN s |-> <<s[i], copy>>] \in [1..Len(s) -> Object \X Node]
      BY <1>3, <2>2
    <2>4. attached = [i \in DOMAIN s |-> <<s[i], copy>>]
      BY DEF Attached, s
    <2> HIDE DEF attached
    <2> QED BY <2>2, <2>3, <2>4, SeqDef
  <1>5. state \in Addr \cup {None}
    BY <1>2 DEF TypeOK
  <1> HIDE DEF dst, ob, attach_to, copy, state, attached
  <1>6. StateTyped'
    <2>1. Append(children[dst][attach_to], copy) \in Seq(Object)
      BY <1>2, <1>3, AppendProperties DEF TypeOK
    <2>2. children' \in [Rev -> [Node -> Seq(Object)]]
      BY <1>1, <1>2, <2>1 DEF TypeOK
    <2>3. parent' \in [Rev -> [Object -> Node \cup {Absent}]]
      BY <1>1, <1>2, <1>3 DEF TypeOK
    <2>4. obstates' \in [Rev -> [Object -> Addr \cup {None}]]
      BY <1>1, <1>2, <1>3, <1>5 DEF TypeOK
    <2>5. refcnt' \in [Addr -> Int]
      <3>1. refcnt \in [Addr -> Int]
        BY DEF TypeOK
      <3>2. CASE state \in Addr
        BY <1>1, <3>1, <3>2
      <3>3. CASE state \notin Addr
        BY <1>1, <3>1, <3>3
      <3> QED BY <3>2, <3>3
    <2> QED BY <1>1, <2>2, <2>3, <2>4, <2>5 DEF StateTyped, TypeOK
  <1>7. CallTyped'
    <2>1. attached \o Tail(call.work) \in Seq(Object \X Node)
      BY <1>2, <1>4, ConcatProperties
    <2>2. call.list \in Seq(Object) /\ ToSet(call.list) \subseteq 1..next_object_id
      BY DEF TypeOK
    <2>3. Append(call.list, copy) \in Seq(Object)
          /\ ToSet(Append(call.list, copy)) \subseteq 1..copy
      BY <1>3, <2>2, AppendProperties, AppendSet
    <2>4. call' \in CallRecord /\ call'.pc = call.pc /\ call'.dst = dst
          /\ call'.src = call.src /\ call'.list = Append(call.list, copy)
      BY <1>1, <1>2, <2>1, <2>3 DEF CallRecord, dst
    <2>5. call.pc = "copying" => dst \in live /\ is_transient[dst] /\ call.src \in live
      BY DEF TypeOK, dst
    <2> QED BY <1>1, <2>3, <2>4, <2>5 DEF CallTyped, CallRecord
  <1>8. handles' \subseteq 1..next_object_id'
    BY <1>1, <1>3 DEF TypeOK
  <1> QED BY <1>1, <1>3, <1>6, <1>7, <1>8, TypeOKParts DEF TypedParts, TypeOK

LEMMA UndoTypes ==
  ASSUME TypeOK, call.pc = "copying", next_object_id' \in Node,
         next_object_id <= next_object_id', Undo, UNCHANGED <<live, is_transient>>
  PROVE  CallTyped'
  <1>1. call \in CallRecord /\ ToSet(call.list) \subseteq 1..next_object_id
    BY DEF TypeOK, CallRecord
  <1>2. <<>> \in Seq(Object \X Node)
    BY EmptySeq
  <1>3. call' \in CallRecord /\ call'.pc = "deleting" /\ call'.dst = call.dst
        /\ call'.list = call.list
    BY <1>1, <1>2 DEF Undo, CallRecord
  <1>4. 1..next_object_id \subseteq 1..next_object_id'
    BY DEF TypeOK, Node
  <1> QED BY <1>1, <1>3, <1>4 DEF CallTyped, CallRecord, TypeOK

LEMMA CopyObjectFailsTypes ==
  ASSUME TypeOK, NEW stage \in 1..4, CopyObjectFails(stage)
  PROVE  TypeOK'
  <1> DEFINE dst == call.dst
             attach_to == Head(call.work)[2]
             copy == next_object_id + 1
             state == obstates[call.src][Head(call.work)[1]]
             old == children[dst][attach_to]
             grown == Append(old, copy)
             left == CASE stage = 1 -> old
                       [] stage \in {2, 3} -> Front(grown)
                       [] stage = 4 -> RemoveAt(grown, Find(grown, copy))
  <1>1. /\ call.pc = "copying" /\ call.work # <<>> /\ next_object_id < MaxObject
        /\ next_object_id' = copy
        /\ children' = [children EXCEPT ![dst][attach_to] =
                          CASE stage = 1 -> @
                            [] stage \in {2, 3} -> Front(grown)
                            [] stage = 4 -> RemoveAt(grown, Find(grown, copy))]
        /\ parent' = IF stage < 3 THEN parent ELSE [parent EXCEPT ![dst][copy] = Absent]
        /\ obstates' = IF stage < 4 THEN obstates
                       ELSE [obstates EXCEPT ![dst][copy] = None]
        /\ refcnt' = IF stage < 4 THEN refcnt ELSE [refcnt EXCEPT ![state] = (@ + 1) - 1]
        /\ Undo
        /\ UNCHANGED <<live, is_transient, cell, handles, entry>>
    BY DEF CopyObjectFails
  <1>2. dst \in Rev /\ attach_to \in Node
    BY SMTT(30), <1>1, WorkTypes
  <1>3. /\ copy \in Object /\ copy \in Node /\ 1..next_object_id \subseteq 1..copy
        /\ next_object_id <= copy
    <2>1. next_object_id \in Int
      BY StorageAssumption DEF TypeOK, Node
    <2> QED BY <1>1, <2>1, NextId
  <1>4. old \in Seq(Object)
    BY <1>2 DEF TypeOK
  <1> HIDE DEF dst, attach_to, copy, state, old
  <1>5. left \in Seq(Object)
    <2>1. grown \in Seq(Object) /\ Front(grown) = old
      BY <1>3, <1>4, AppendProperties, FrontProperties
    <2> HIDE DEF grown
    <2>2. RemoveAt(grown, Find(grown, copy)) \in Seq(Object)
      <3>1. Find(grown, copy) \in 1..(Len(grown) + 1)
        BY <2>1, FindProperties
      <3> QED BY <2>1, <3>1, RemoveAtProperties
    <2>3. stage \in {1, 2, 3, 4}
      OBVIOUS
    <2> QED BY <1>4, <2>1, <2>2, <2>3
  <1>6. children' = [children EXCEPT ![dst][attach_to] = left]
    BY <1>1, <1>2 DEF TypeOK, old
  <1> HIDE DEF left
  <1>7. StateTyped'
    <2>1. children' \in [Rev -> [Node -> Seq(Object)]]
      BY <1>5, <1>6 DEF TypeOK
    <2>2. parent' \in [Rev -> [Object -> Node \cup {Absent}]]
      BY <1>1 DEF TypeOK
    <2>3. obstates' \in [Rev -> [Object -> Addr \cup {None}]]
      BY <1>1 DEF TypeOK
    <2>4. refcnt' \in [Addr -> Int]
      <3>1. refcnt \in [Addr -> Int]
        BY DEF TypeOK
      <3>2. CASE state \in Addr
        BY <1>1, <3>1, <3>2
      <3>3. CASE state \notin Addr
        BY <1>1, <3>1, <3>3
      <3> QED BY <3>2, <3>3
    <2> QED BY <1>1, <2>1, <2>2, <2>3, <2>4 DEF StateTyped, TypeOK
  <1>8. CallTyped'
    BY <1>1, <1>3, UndoTypes
  <1>9. handles' \subseteq 1..next_object_id'
    BY <1>1, <1>3 DEF TypeOK
  <1> QED BY <1>1, <1>3, <1>7, <1>8, <1>9, TypeOKParts DEF TypedParts, TypeOK

LEMMA CopyObjectsFailsTypes ==
  ASSUME TypeOK, CopyObjectsFails
  PROVE  TypeOK'
  <1>1. /\ call.pc = "copying" /\ Undo
        /\ UNCHANGED <<revVars, heapVars, next_object_id, handles, entry>>
    BY DEF CopyObjectsFails
  <1>2. CallTyped'
    <2>1. next_object_id' \in Node /\ next_object_id <= next_object_id'
      BY <1>1, StorageAssumption DEF TypeOK, Node
    <2> QED BY <1>1, <2>1, UndoTypes DEF revVars
  <1>3. StateTyped'
    BY <1>1 DEF StateTyped, TypeOK, revVars, heapVars
  <1> QED BY <1>1, <1>2, <1>3, TypeOKParts DEF TypedParts, TypeOK, revVars

LEMMA ProgressTypes ==
  ASSUME TypeOK, Progress
  PROVE  TypeOK'
  <1>1. CASE DeleteNext
    BY <1>1, DeleteNextTypes
  <1>2. CASE DeleteReturns
    BY <1>2, ReturnTypes DEF DeleteReturns
  <1>3. CASE copy_object
    BY <1>3, CopyStepTypes
  <1>4. CASE \E stage \in 1..4 : CopyObjectFails(stage)
    BY <1>4, CopyObjectFailsTypes
  <1>5. CASE CopyObjectsFails
    BY <1>5, CopyObjectsFailsTypes
  <1>6. CASE CopyReturns
    <2>1. ToSet(call.list) \in SUBSET (1..next_object_id)
      BY DEF TypeOK
    <2> QED BY <1>6, <2>1, ReturnTypes DEF CopyReturns
  <1> QED BY <1>1, <1>2, <1>3, <1>4, <1>5, <1>6 DEF Progress

LEMMA ObjectCallTypes ==
  ASSUME TypeOK, ObjectCall
  PROVE  TypeOK'
  <1>1. /\ handles \subseteq Object /\ handles \cup {NULL} \subseteq Node
        /\ \A sel \in SUBSET handles : sel \in SUBSET Object
    BY HandlesAreObjects, NodeObject
  <1>2. PICK r \in Rev :
    \/ \E v \in Value : xorn_add_object(r, v)
    \/ \E stage \in 1..3 : AddObjectFails(r, stage)
    \/ \E ob \in handles, v \in Value : xorn_set_object_data(r, ob, v)
    \/ \E ob \in handles, stage \in 1..3 : SetObjectDataFails(r, ob, stage)
    \/ \E ob \in handles, to \in handles \cup {NULL}, before \in handles \cup {NULL} :
         xorn_relocate_object(r, ob, to, before)
    \/ \E ob \in handles : xorn_delete_object(r, ob)
    \/ \E sel \in SUBSET handles : xorn_delete_selected_objects(r, sel)
    \/ \E src \in Rev, ob \in handles : xorn_copy_object(r, src, ob)
    \/ \E src \in Rev, sel \in SUBSET handles : xorn_copy_objects(r, src, sel)
    \/ \E sel \in SUBSET handles, f \in Setters : set_attr(r, sel, f)
    \/ \E done \in SUBSET handles : SetAttrFails(r, done)
    BY DEF ObjectCall
  <1>3. CASE \E v \in Value : xorn_add_object(r, v)
    BY <1>3, AddObjectTypes
  <1>4. CASE \E stage \in 1..3 : AddObjectFails(r, stage)
    BY <1>4, AddObjectFailsTypes
  <1>5. CASE \E ob \in handles, v \in Value : xorn_set_object_data(r, ob, v)
    BY <1>1, <1>5, SetObjectTypes
  <1>6. CASE \E ob \in handles, stage \in 1..3 : SetObjectDataFails(r, ob, stage)
    BY <1>1, <1>6, SetObjectDataFailsTypes
  <1>7. CASE \E ob \in handles, to \in handles \cup {NULL}, before \in handles \cup {NULL} :
               xorn_relocate_object(r, ob, to, before)
    BY <1>1, <1>7, RelocateTypes
  <1>8. CASE \E ob \in handles : xorn_delete_object(r, ob)
    BY <1>1, <1>8, DeleteObjectTypes
  <1>9. CASE \E sel \in SUBSET handles : xorn_delete_selected_objects(r, sel)
    BY <1>9, DeleteSelectedTypes
  <1>10. CASE \E src \in Rev, ob \in handles : xorn_copy_object(r, src, ob)
    BY <1>1, <1>10, CopyObjectTypes
  <1>11. CASE \E src \in Rev, sel \in SUBSET handles : xorn_copy_objects(r, src, sel)
    BY <1>1, <1>11, CopyObjectsTypes
  <1>12. CASE \E sel \in SUBSET handles, f \in Setters : set_attr(r, sel, f)
    BY <1>1, <1>12, SetAttrTypes
  <1>13. CASE \E done \in SUBSET handles : SetAttrFails(r, done)
    BY <1>1, <1>13, SetAttrFailsTypes
  <1> QED BY <1>2, <1>3, <1>4, <1>5, <1>6, <1>7, <1>8, <1>9, <1>10, <1>11, <1>12, <1>13

LEMMA NextTypeOK ==
  ASSUME TypeOK, [Next]_vars
  PROVE  TypeOK'
  <1>1. CASE RevisionCall
    BY <1>1, RevisionCallTypes
  <1>2. CASE ObjectCall
    BY <1>2, ObjectCallTypes
  <1>3. CASE Progress
    BY <1>3, ProgressTypes
  <1>4. CASE UNCHANGED vars
    BY <1>4 DEF vars, revVars, heapVars, TypeOK
  <1> QED BY <1>1, <1>2, <1>3, <1>4 DEF Next

\* The variables keep their types, whatever functions are called and wherever
\* memory runs out: no list is cut short by an index past its end.
THEOREM TypeCorrect == Spec => []TypeOK
  <1>1. Init => TypeOK
    BY InitTypeOK
  <1>2. TypeOK /\ [Next]_vars => TypeOK'
    BY NextTypeOK
  <1> QED BY <1>1, <1>2, PTL DEF Spec

-----------------------------------------------------------------------------
(* Reference counts *)

\* The places which refer to an address.
Uses(p) == {x \in Rev \X Object : obstates[x[1]][x[2]] = p}

\* The inductive invariant.  Counts are only right if an id which has not been
\* handed out is not in use (or copy_object would overwrite a reference it
\* doesn't know of), and copy_revision fills a revision which has none.
ObstatesFresh ==
  \A r \in Rev, ob \in Object : ob > next_object_id => obstates[r][ob] = None

DeadEmpty == \A r \in Rev \ live : obstates[r] = NoObstates

RefcountInv == TypeOK /\ RefcountsExact /\ ObstatesFresh /\ DeadEmpty

-----------------------------------------------------------------------------
(* Counting *)

LEMMA UsesFinite ==
  ASSUME NEW p
  PROVE  IsFiniteSet(Uses(p)) /\ Cardinality(Uses(p)) \in Nat
  <1>1. Uses(p) \in SUBSET (Rev \X Object)
    BY DEF Uses
  <1> QED BY <1>1, SlotsFinite, FS_Subset, FS_CardinalityType

\* What a row holds is counted on top of what all the other rows hold.
LEMMA RowCount ==
  ASSUME NEW r \in Rev, NEW others \in SUBSET (Rev \X Object),
         NEW A \in SUBSET Object, \A x \in others : x[1] # r
  PROVE  /\ Cardinality(others \cup ({r} \X A)) = Cardinality(others) + Cardinality(A)
         /\ Cardinality(others) \in Nat /\ Cardinality(A) \in Nat
  <1>1. IsFiniteSet(others) /\ Cardinality(others) \in Nat
    BY SlotsFinite, FS_Subset, FS_CardinalityType
  <1>2. IsFiniteSet(A) /\ Cardinality(A) \in Nat
    BY ObjectFinite, FS_Subset, FS_CardinalityType
  <1>3. IsFiniteSet({r}) /\ Cardinality({r}) = 1
    BY FS_Singleton
  <1>4. /\ IsFiniteSet({r} \X A)
        /\ Cardinality({r} \X A) = Cardinality({r}) * Cardinality(A)
    BY <1>2, <1>3, FS_Product
  <1>5. Cardinality({r} \X A) = Cardinality(A)
    BY <1>2, <1>3, <1>4
  <1>6. others \cap ({r} \X A) = {}
    OBVIOUS
  <1>7. Cardinality(others \cup ({r} \X A)) =
          Cardinality(others) + Cardinality({r} \X A)
            - Cardinality(others \cap ({r} \X A))
    BY <1>1, <1>4, FS_Union
  <1>8. Cardinality(others \cap ({r} \X A)) = 0
    BY <1>6, FS_EmptySet
  <1> QED BY <1>1, <1>2, <1>5, <1>7, <1>8

\* A step which replaces what one revision refers to changes the number of uses
\* of an address by what it changes in that revision.
LEMMA RowChange ==
  ASSUME TypeOK, NEW r \in Rev, NEW f \in [Object -> Addr \cup {None}],
         obstates' = [obstates EXCEPT ![r] = f], NEW p \in Addr
  PROVE  Cardinality(Uses(p)') =
           Cardinality(Uses(p)) - Count(r, Object, p)
             + Cardinality({ob \in Object : f[ob] = p})
  <1> DEFINE others == {x \in Rev \X Object : x[1] # r /\ obstates[x[1]][x[2]] = p}
             A == {ob \in Object : obstates[r][ob] = p}
             B == {ob \in Object : f[ob] = p}
  <1>1. obstates' \in [Rev -> [Object -> Addr \cup {None}]]
        /\ obstates'[r] = f /\ \A s \in Rev : s # r => obstates'[s] = obstates[s]
    BY DEF TypeOK
  <1>2. Uses(p) = others \cup ({r} \X A)
    BY DEF Uses
  <1>3. Uses(p)' = others \cup ({r} \X B)
    BY <1>1 DEF Uses
  <1>4. /\ others \in SUBSET (Rev \X Object) /\ \A x \in others : x[1] # r
        /\ A \in SUBSET Object /\ B \in SUBSET Object
    OBVIOUS
  <1> HIDE DEF others, A, B
  <1>5. /\ Cardinality(others \cup ({r} \X A)) = Cardinality(others) + Cardinality(A)
        /\ Cardinality(others \cup ({r} \X B)) = Cardinality(others) + Cardinality(B)
        /\ Cardinality(others) \in Nat /\ Cardinality(A) \in Nat /\ Cardinality(B) \in Nat
    BY <1>4, RowCount
  <1>6. Count(r, Object, p) = Cardinality(A)
    BY DEF Count, A
  <1> QED BY <1>2, <1>3, <1>5, <1>6 DEF B

\* So it is enough that a step does the same to the reference counts, and that
\* it frees just the memory of those which have become zero.
LEMMA RowExact ==
  ASSUME RefcountInv, NEW r \in Rev, NEW f \in [Object -> Addr \cup {None}],
         obstates' = [obstates EXCEPT ![r] = f],
         \A p \in Addr :
           /\ refcnt'[p] = refcnt[p] - Count(r, Object, p)
                            + Cardinality({ob \in Object : f[ob] = p})
           /\ cell'[p] = None <=> refcnt'[p] = 0
  PROVE  RefcountsExact'
  <1>1. \A p \in Addr : refcnt[p] = Cardinality(Uses(p))
    BY DEF RefcountInv, RefcountsExact, Uses
  <1>2. \A p \in Addr : Cardinality(Uses(p)') =
                         Cardinality(Uses(p)) - Count(r, Object, p)
                           + Cardinality({ob \in Object : f[ob] = p})
    BY RowChange DEF RefcountInv
  <1>3. \A p \in Addr : refcnt'[p] = Cardinality(Uses(p)')
    BY <1>1, <1>2
  <1> QED BY <1>3 DEF RefcountsExact, Uses

LEMMA SameExact ==
  ASSUME RefcountInv, obstates' = obstates, refcnt' = refcnt, cell' = cell
  PROVE  RefcountsExact'
  BY DEF RefcountInv, RefcountsExact

\* Nothing refers to a free address.
LEMMA FreeUnused ==
  ASSUME RefcountInv, NEW p \in Addr, IsFree(p)
  PROVE  /\ \A r \in Rev, ob \in Object : obstates[r][ob] # p
         /\ \A r \in Rev, S \in SUBSET Object : Count(r, S, p) = 0
  <1>1. Cardinality(Uses(p)) = 0
    BY DEF RefcountInv, RefcountsExact, IsFree, Uses
  <1>2. Uses(p) = {}
    BY <1>1, UsesFinite, FS_EmptySet
  <1>3. \A r \in Rev, ob \in Object : obstates[r][ob] # p
    <2> TAKE r \in Rev, ob \in Object
    <2>1. <<r, ob>> \notin Uses(p)
      BY <1>2
    <2> QED BY <2>1 DEF Uses
  <1>4. ASSUME NEW r \in Rev, NEW S \in SUBSET Object
        PROVE  Count(r, S, p) = 0
    <2>1. {ob \in S : obstates[r][ob] = p} = {}
      BY <1>3
    <2> QED BY <2>1, FS_EmptySet DEF Count
  <1> QED BY <1>3, <1>4

LEMMA ReclaimExact ==
  ASSUME NEW cnt, NEW c, NEW p \in Addr, cnt[p] # 0 => c[p] # None
  PROVE  Reclaim(cnt, c)[p] = None <=> cnt[p] = 0
  BY DEF Reclaim

\* Changing what a single object refers to.
LEMMA CountExcept ==
  ASSUME NEW f \in [Object -> Addr \cup {None}], NEW ob \in Object,
         NEW new \in Addr \cup {None}, new # f[ob], NEW p \in Addr
  PROVE  Cardinality({o \in Object : [f EXCEPT ![ob] = new][o] = p}) =
           Cardinality({o \in Object : f[o] = p})
             + (IF p = new THEN 1 ELSE 0) - (IF p = f[ob] THEN 1 ELSE 0)
  <1> DEFINE A == {o \in Object : f[o] = p}
             B == {o \in Object : [f EXCEPT ![ob] = new][o] = p}
  <1>1. IsFiniteSet(A) /\ Cardinality(A) \in Nat
    BY ObjectFinite, FS_Subset, FS_CardinalityType
  <1>2. CASE p = new
    <2>1. B = A \cup {ob} /\ ob \notin A
      BY <1>2
    <2> HIDE DEF A, B
    <2>2. Cardinality(B) = Cardinality(A) + 1
      BY <1>1, <2>1, FS_AddElement
    <2> QED BY <1>1, <1>2, <2>2 DEF A, B
  <1>3. CASE p = f[ob]
    <2>1. B = A \ {ob} /\ ob \in A
      BY <1>3
    <2> HIDE DEF A, B
    <2>2. Cardinality(B) = Cardinality(A) - 1
      BY <1>1, <2>1, FS_RemoveElement
    <2> QED BY <1>1, <1>3, <2>2 DEF A, B
  <1>4. CASE p # new /\ p # f[ob]
    <2>1. B = A
      BY <1>4
    <2> QED BY <1>1, <1>4, <2>1
  <1> QED BY <1>2, <1>3, <1>4

\* Dropping what the objects in a set refer to.
LEMMA CountDrop ==
  ASSUME TypeOK, NEW r \in Rev, NEW D \in SUBSET Object, NEW p \in Addr
  PROVE  /\ Cardinality({ob \in Object : obstates[r][ob] = p /\ ob \notin D}) =
              Count(r, Object, p) - Count(r, D, p)
         /\ Count(r, Object, p) \in Nat /\ Count(r, D, p) \in Nat
         /\ Count(r, Object \ D, p) = Count(r, Object, p) - Count(r, D, p)
  <1> DEFINE A == {ob \in Object : obstates[r][ob] = p}
  <1>1. IsFiniteSet(A) /\ Cardinality(A) \in Nat
    BY ObjectFinite, FS_Subset, FS_CardinalityType
  <1>2. /\ {ob \in Object : obstates[r][ob] = p /\ ob \notin D} = A \ D
        /\ {ob \in D : obstates[r][ob] = p} = A \cap D
        /\ {ob \in Object \ D : obstates[r][ob] = p} = A \ D
    OBVIOUS
  <1> HIDE DEF A
  <1>3. Cardinality(A \ D) = Cardinality(A) - Cardinality(A \cap D)
    BY <1>1, FS_Difference
  <1>4. Count(r, Object, p) = Cardinality(A)
    BY DEF Count, A
  <1>5. Count(r, D, p) = Cardinality(A \cap D) /\ Count(r, Object \ D, p) = Cardinality(A \ D)
    BY <1>2 DEF Count
  <1>6. Count(r, D, p) \in Nat
    BY CountNat
  <1> QED BY <1>1, <1>2, <1>3, <1>4, <1>5, <1>6

-----------------------------------------------------------------------------
(* The steps *)

LEMMA SetObjectDataExact ==
  ASSUME RefcountInv, NEW r \in Rev, NEW ob \in Object, NEW v \in ValidData,
         set_object_data(r, ob, v)
  PROVE  RefcountsExact' /\ (\A s \in Rev, o \in Object :
           obstates'[s][o] # obstates[s][o] => s = r /\ o = ob)
  <1> DEFINE old == obstates[r][ob]
  <1>1. PICK p \in Addr :
          /\ IsFree(p)
          /\ obstates' = [obstates EXCEPT ![r][ob] = p]
          /\ refcnt' = [q \in Addr |-> IF q = p THEN 1
                                       ELSE IF q = old THEN refcnt[q] - 1
                                       ELSE refcnt[q]]
          /\ cell' = Reclaim(refcnt', [cell EXCEPT ![p] = obstate(v)])
    BY DEF set_object_data
  <1>2. TypeOK /\ obstates \in [Rev -> [Object -> Addr \cup {None}]]
        /\ refcnt \in [Addr -> Int] /\ cell \in [Addr -> ValidData \cup {None}]
    BY DEF RefcountInv, TypeOK
  <1> DEFINE f == [obstates[r] EXCEPT ![ob] = p]
  <1>3. f \in [Object -> Addr \cup {None}] /\ obstates' = [obstates EXCEPT ![r] = f]
    BY <1>1, <1>2
  <1>4. old # p /\ Count(r, Object, p) = 0 /\ refcnt[p] = 0
    BY <1>1, FreeUnused DEF IsFree
  <1>5. obstates[r] \in [Object -> Addr \cup {None}] /\ p # obstates[r][ob]
    BY <1>2, <1>4
  <1>6. ASSUME NEW q \in Addr
        PROVE  /\ refcnt'[q] = refcnt[q] - Count(r, Object, q)
                                + Cardinality({o \in Object : f[o] = q})
               /\ cell'[q] = None <=> refcnt'[q] = 0
    <2>1. Cardinality({o \in Object : f[o] = q}) =
            Count(r, Object, q) + (IF q = p THEN 1 ELSE 0) - (IF q = old THEN 1 ELSE 0)
      BY <1>5, CountExcept DEF Count
    <2>2. Count(r, Object, q) \in Nat /\ refcnt[q] \in Int
      BY <1>2, CountNat
    <2>3. refcnt'[q] = IF q = p THEN 1 ELSE IF q = old THEN refcnt[q] - 1 ELSE refcnt[q]
      BY <1>1
    <2> HIDE DEF f
    <2>4. refcnt'[q] = refcnt[q] - Count(r, Object, q)
                                + Cardinality({o \in Object : f[o] = q})
      <3>1. CASE q = p
        BY <1>4, <2>1, <2>2, <2>3, <3>1
      <3>2. CASE q # p /\ q = old
        BY <2>1, <2>2, <2>3, <3>2
      <3>3. CASE q # p /\ q # old
        BY <2>1, <2>2, <2>3, <3>3
      <3> QED BY <3>1, <3>2, <3>3
    <2>5. refcnt'[q] # 0 => [cell EXCEPT ![p] = obstate(v)][q] # None
      <3>1. CASE q = p
        <4>1. obstate(v) # None
          BY StorageAssumption, ObstateValid
        <4> QED BY <1>2, <3>1, <4>1
      <3>2. CASE q # p
        <4>1. ASSUME refcnt'[q] # 0 PROVE refcnt[q] # 0
          <5>1. CASE q = old
            <6>1. refcnt[q] = Cardinality(Uses(q))
              BY DEF RefcountInv, RefcountsExact, Uses
            <6>2. <<r, ob>> \in Uses(q)
              BY <5>1 DEF Uses
            <6> QED BY <6>1, <6>2, UsesFinite, FS_EmptySet
          <5>2. CASE q # old
            BY <2>3, <3>2, <4>1, <5>2
          <5> QED BY <5>1, <5>2
        <4>2. cell[q] = None <=> refcnt[q] = 0
          BY DEF RefcountInv, RefcountsExact
        <4> QED BY <1>2, <3>2, <4>1, <4>2
      <3> QED BY <3>1, <3>2
    <2>6. Reclaim(refcnt', [cell EXCEPT ![p] = obstate(v)])[q] = None <=> refcnt'[q] = 0
      BY <2>5, ReclaimExact
    <2> QED BY <1>1, <2>4, <2>6
  <1>7. RefcountsExact'
    BY <1>3, <1>6, RowExact
  <1>8. \A s \in Rev, o \in Object : obstates'[s][o] # obstates[s][o] => s = r /\ o = ob
    BY <1>1, <1>2
  <1> QED BY <1>7, <1>8

\* Dropping the references of a set of objects, in one revision.
LEMMA DropExact ==
  ASSUME RefcountInv, NEW r \in Rev, NEW D \in SUBSET Object,
         obstates' = [obstates EXCEPT ![r] =
                       [o \in Object |-> IF o \in D THEN None ELSE @[o]]],
         refcnt' = [p \in Addr |-> refcnt[p] - Count(r, D, p)],
         cell' = Reclaim(refcnt', cell)
  PROVE  RefcountsExact'
  <1> DEFINE f == [o \in Object |-> IF o \in D THEN None ELSE obstates[r][o]]
  <1>1. TypeOK /\ obstates \in [Rev -> [Object -> Addr \cup {None}]]
        /\ refcnt \in [Addr -> Int]
    BY DEF RefcountInv, TypeOK
  <1>2. f \in [Object -> Addr \cup {None}] /\ obstates' = [obstates EXCEPT ![r] = f]
    BY <1>1
  <1>3. ASSUME NEW p \in Addr
        PROVE  /\ refcnt'[p] = refcnt[p] - Count(r, Object, p)
                                + Cardinality({o \in Object : f[o] = p})
               /\ cell'[p] = None <=> refcnt'[p] = 0
    <2>1. p # None
      BY StorageAssumption
    <2>2. {o \in Object : f[o] = p} = {o \in Object : obstates[r][o] = p /\ o \notin D}
      BY <2>1
    <2>3. /\ Cardinality({o \in Object : f[o] = p}) = Count(r, Object, p) - Count(r, D, p)
          /\ Count(r, Object, p) \in Nat /\ Count(r, D, p) \in Nat
      BY <1>1, <2>2, CountDrop
    <2>4. refcnt'[p] = refcnt[p] - Count(r, D, p) /\ refcnt[p] \in Int
      BY <1>1
    <2> HIDE DEF f
    <2>5. refcnt'[p] = refcnt[p] - Count(r, Object, p)
                                + Cardinality({o \in Object : f[o] = p})
      BY <2>3, <2>4
    <2>6. cell[p] = None => refcnt'[p] = 0
      <3>1. ASSUME cell[p] = None PROVE refcnt'[p] = 0
        <4>1. IsFree(p)
          BY <3>1 DEF RefcountInv, RefcountsExact, IsFree
        <4>2. Count(r, D, p) = 0
          BY <4>1, FreeUnused
        <4> QED BY <2>4, <4>1, <4>2 DEF IsFree
      <3> QED BY <3>1
    <2>7. Reclaim(refcnt', cell)[p] = None <=> refcnt'[p] = 0
      BY <2>6, ReclaimExact
    <2> QED BY <2>5, <2>7
  <1> QED BY <1>2, <1>3, RowExact

LEMMA FreeRevisionExact ==
  ASSUME RefcountInv, NEW r \in Rev, xorn_free_revision(r)
  PROVE  RefcountsExact'
  <1>1. obstates' = [obstates EXCEPT ![r] =
                      [o \in Object |-> IF o \in Object THEN None ELSE @[o]]]
    BY DEF xorn_free_revision, NoObstates
  <1>2. /\ refcnt' = [p \in Addr |-> refcnt[p] - Count(r, Object, p)]
        /\ cell' = Reclaim(refcnt', cell)
    BY DEF xorn_free_revision
  <1>3. Object \in SUBSET Object
    OBVIOUS
  <1> QED BY <1>1, <1>2, <1>3, DropExact

LEMMA DeleteFromExact ==
  ASSUME RefcountInv, NEW r \in Rev, NEW ob \in Object, DeleteFrom(r, ob)
  PROVE  RefcountsExact' /\ (\A s \in Rev, o \in Object :
           obstates'[s][o] # obstates[s][o] => s = r /\ obstates'[s][o] = None)
  <1> DEFINE D == Doomed(children[r], ob)
  <1>1. /\ obstates' = [obstates EXCEPT ![r] =
                          [o \in Object |-> IF o \in D THEN None ELSE @[o]]]
        /\ refcnt' = [p \in Addr |-> refcnt[p] - Count(r, D, p)]
        /\ cell' = Reclaim(refcnt', cell)
    BY DEF DeleteFrom
  <1>2. D \in SUBSET Object
    <2>1. children[r][ob] \in Seq(Object)
      BY NodeObject DEF RefcountInv, TypeOK
    <2>2. ToSet(children[r][ob]) \subseteq Object
      BY <2>1, LenProperties, ElementOfSeq DEF ToSet
    <2> QED BY <2>2 DEF Doomed
  <1>3. obstates \in [Rev -> [Object -> Addr \cup {None}]]
    BY DEF RefcountInv, TypeOK
  <1> HIDE DEF D
  <1>4. RefcountsExact'
    BY <1>1, <1>2, DropExact
  <1> QED BY <1>1, <1>3, <1>4

LEMMA CopyRevisionExact ==
  ASSUME RefcountInv, NEW r \in Rev, NEW from \in Rev, copy_revision(r, from)
  PROVE  RefcountsExact'
  <1> DEFINE f == obstates[from]
  <1>1. /\ r \notin live
        /\ obstates' = [obstates EXCEPT ![r] = f]
        /\ refcnt' = [p \in Addr |-> refcnt[p] + Count(from, Object, p)]
        /\ cell' = cell
    BY DEF copy_revision
  <1>2. TypeOK /\ f \in [Object -> Addr \cup {None}] /\ refcnt \in [Addr -> Int]
    BY DEF RefcountInv, TypeOK
  <1>3. ASSUME NEW p \in Addr
        PROVE  /\ refcnt'[p] = refcnt[p] - Count(r, Object, p)
                                + Cardinality({o \in Object : f[o] = p})
               /\ cell'[p] = None <=> refcnt'[p] = 0
    <2>1. Count(from, Object, p) = Cardinality({o \in Object : f[o] = p})
          /\ Count(from, Object, p) \in Nat
      BY CountNat DEF Count
    <2>2. Count(r, Object, p) = 0
      <3>1. p # None /\ obstates[r] = NoObstates
        BY <1>1, StorageAssumption DEF RefcountInv, DeadEmpty
      <3>2. {o \in Object : obstates[r][o] = p} = {}
        BY <3>1 DEF NoObstates
      <3> QED BY <3>2, FS_EmptySet DEF Count
    <2>3. refcnt'[p] = refcnt[p] + Count(from, Object, p) /\ refcnt[p] \in Int
      BY <1>1, <1>2
    <2>4. cell'[p] = None <=> refcnt'[p] = 0
      <3>1. cell[p] = None <=> refcnt[p] = 0
        BY DEF RefcountInv, RefcountsExact
      <3>2. refcnt[p] \in Nat
        BY UsesFinite DEF RefcountInv, RefcountsExact, Uses
      <3>3. refcnt[p] = 0 => Count(from, Object, p) = 0
        BY FreeUnused DEF IsFree
      <3> QED BY <1>1, <2>1, <2>3, <3>1, <3>2, <3>3
    <2> HIDE DEF f
    <2> QED BY <2>1, <2>2, <2>3, <2>4
  <1> QED BY <1>1, <1>2, <1>3, RowExact

LEMMA SetAttrExact ==
  ASSUME RefcountInv, NEW r \in Rev, NEW sel \in SUBSET Object, NEW f \in Setters,
         set_attr(r, sel, f)
  PROVE  RefcountsExact' /\ (\A s \in Rev, o \in Object :
           obstates'[s][o] # obstates[s][o] => s = r /\ obstates[s][o] # None)
  <1> DEFINE affected == Affected(r, sel, f)
             value(ob) == obstate(<<TypeOf(r, ob), f[ValueOf(r, ob)]>>)
  <1>1. PICK new \in [affected -> Addr] :
       /\ \A ob \in affected : IsFree(new[ob])
       /\ \A o1, o2 \in affected : new[o1] = new[o2] => o1 = o2
       /\ obstates' = [obstates EXCEPT ![r] =
            [ob \in Object |-> IF ob \in affected THEN new[ob] ELSE @[ob]]]
       /\ refcnt' = [p \in Addr |->
            IF \E ob \in affected : p = new[ob] THEN 1
            ELSE (refcnt[p] + Count(r, Object, p))
                 - Count(r, affected, p) - Count(r, Object, p)]
       /\ cell' = Reclaim(refcnt', [p \in Addr |->
            IF \E ob \in affected : p = new[ob]
            THEN LET ob == CHOOSE o \in affected : p = new[o] IN value(ob)
            ELSE cell[p]])
    BY DEF set_attr
  <1>2. /\ affected \in SUBSET Object
        /\ \A ob \in affected : value(ob) \in ValidData /\ obstates[r][ob] # None
    BY ObstateValid DEF Affected, Exists
  <1> HIDE DEF affected, value
  <1> DEFINE g == [ob \in Object |-> IF ob \in affected THEN new[ob] ELSE obstates[r][ob]]
             c == [p \in Addr |->
                    IF \E ob \in affected : p = new[ob]
                    THEN LET ob == CHOOSE o \in affected : p = new[o] IN value(ob)
                    ELSE cell[p]]
  <1>3. TypeOK /\ obstates \in [Rev -> [Object -> Addr \cup {None}]]
        /\ refcnt \in [Addr -> Int]
    BY DEF RefcountInv, TypeOK
  <1>4. g \in [Object -> Addr \cup {None}] /\ obstates' = [obstates EXCEPT ![r] = g]
    BY <1>1, <1>2, <1>3
  <1>5. ASSUME NEW p \in Addr
        PROVE  /\ refcnt'[p] = refcnt[p] - Count(r, Object, p)
                                + Cardinality({o \in Object : g[o] = p})
               /\ cell'[p] = None <=> refcnt'[p] = 0
    <2>1. /\ Count(r, Object, p) \in Nat /\ Count(r, affected, p) \in Nat
          /\ refcnt[p] \in Int
      BY <1>2, <1>3, CountNat
    <2>2. CASE \E ob \in affected : p = new[ob]
      <3>1. PICK o0 \in affected : p = new[o0]
        BY <2>2
      <3>2. IsFree(p)
        BY <1>1, <3>1
      <3>3. \A o \in Object : obstates[r][o] # p
        BY <3>2, FreeUnused
      <3>4. {o \in Object : g[o] = p} = {o0}
        BY <1>1, <1>2, <3>1, <3>3
      <3>5. Cardinality({o \in Object : g[o] = p}) = 1
        BY <3>4, FS_Singleton
      <3>6. Count(r, Object, p) = 0 /\ refcnt[p] = 0
        BY <3>2, FreeUnused DEF IsFree
      <3>7. refcnt'[p] = 1
        BY <1>1, <2>2
      <3>8. c[p] # None
        <4>1. c[p] \in ValidData
          BY <1>2, <2>2
        <4> QED BY <4>1, StorageAssumption
      <3>9. Reclaim(refcnt', c)[p] = None <=> refcnt'[p] = 0
        BY <3>8, ReclaimExact
      <3> HIDE DEF g
      <3> QED BY <1>1, <3>5, <3>6, <3>7, <3>9
    <2>3. CASE ~\E ob \in affected : p = new[ob]
      <3>1. refcnt'[p] = (refcnt[p] + Count(r, Object, p))
                          - Count(r, affected, p) - Count(r, Object, p)
        BY <1>1, <2>3
      <3>2. {o \in Object : g[o] = p} =
              {o \in Object : obstates[r][o] = p /\ o \notin affected}
        BY <2>3
      <3> HIDE DEF g
      <3>3. Cardinality({o \in Object : g[o] = p}) =
              Count(r, Object, p) - Count(r, affected, p)
        <4>1. Cardinality({o \in Object : obstates[r][o] = p /\ o \notin affected}) =
                Count(r, Object, p) - Count(r, affected, p)
          <5> HIDE DEF c
          <5> QED BY <1>2, <1>3, CountDrop
        <4> QED BY <3>2, <4>1, Zenon
      <3>4. refcnt'[p] = refcnt[p] - Count(r, Object, p)
                           + Cardinality({o \in Object : g[o] = p})
        BY <2>1, <3>1, <3>3
      <3>5. c[p] = None => refcnt'[p] = 0
        <4>1. ASSUME c[p] = None PROVE refcnt'[p] = 0
          <5>1. cell[p] = None
            BY <2>3, <4>1
          <5>2. IsFree(p) /\ refcnt[p] = 0
            BY <5>1 DEF RefcountInv, RefcountsExact, IsFree
          <5>3. Count(r, Object, p) = 0 /\ Count(r, affected, p) = 0
            BY <1>2, <5>2, FreeUnused
          <5> QED BY <3>1, <5>2, <5>3
        <4> QED BY <4>1
      <3>6. Reclaim(refcnt', c)[p] = None <=> refcnt'[p] = 0
        BY <3>5, ReclaimExact
      <3> HIDE DEF c
      <3> QED BY <1>1, <3>4, <3>6 DEF c
    <2> QED BY <2>2, <2>3
  <1>6. RefcountsExact'
    BY <1>4, <1>5, RowExact
  <1> QED BY <1>1, <1>2, <1>3, <1>6

LEMMA SetAttrFailsExact ==
  ASSUME RefcountInv, NEW r \in Rev, NEW done \in SUBSET Object, SetAttrFails(r, done)
  PROVE  /\ RefcountsExact' /\ obstates' = obstates
         /\ refcnt' = refcnt /\ cell' = cell
  <1>1. /\ refcnt' = [p \in Addr |-> (refcnt[p] + Count(r, Object, p))
                                     - Count(r, done, p) - Count(r, Object \ done, p)]
        /\ cell' = Reclaim(refcnt', cell) /\ obstates' = obstates
    BY DEF SetAttrFails, revVars
  <1>2. TypeOK /\ refcnt \in [Addr -> Int] /\ cell \in [Addr -> ValidData \cup {None}]
    BY DEF RefcountInv, TypeOK
  <1>3. \A p \in Addr : refcnt'[p] = refcnt[p]
    <2> TAKE p \in Addr
    <2>1. /\ Count(r, Object, p) \in Nat /\ Count(r, done, p) \in Nat
          /\ Count(r, Object \ done, p) = Count(r, Object, p) - Count(r, done, p)
      BY <1>2, CountDrop
    <2>2. refcnt'[p] = (refcnt[p] + Count(r, Object, p))
                         - Count(r, done, p) - Count(r, Object \ done, p)
      BY <1>1
    <2>3. refcnt[p] \in Int
      BY <1>2
    <2> QED BY <2>1, <2>2, <2>3
  <1>4. refcnt' = refcnt
    BY <1>1, <1>2, <1>3
  <1>5. cell' = cell
    BY <1>1, <1>2, <1>4 DEF RefcountInv, RefcountsExact, Reclaim
  <1> QED BY <1>1, <1>4, <1>5, SameExact

LEMMA CopyStepExact ==
  ASSUME RefcountInv, copy_object
  PROVE  RefcountsExact' /\ (\A s \in Rev, o \in Object :
           obstates'[s][o] # obstates[s][o] => s = call.dst /\ o = next_object_id')
  <1> DEFINE dst == call.dst
             copy == next_object_id + 1
             state == obstates[call.src][Head(call.work)[1]]
             f == [obstates[dst] EXCEPT ![copy] = state]
  <1>1. /\ call.pc = "copying" /\ call.work # <<>> /\ next_object_id < MaxObject
        /\ next_object_id' = copy
        /\ obstates' = [obstates EXCEPT ![dst][copy] = state]
        /\ refcnt' = [refcnt EXCEPT ![state] = @ + 1]
        /\ cell' = cell
    BY DEF copy_object
  <1>2. /\ TypeOK /\ obstates \in [Rev -> [Object -> Addr \cup {None}]]
        /\ refcnt \in [Addr -> Int]
    BY DEF RefcountInv, TypeOK
  <1>3. /\ dst \in Rev /\ call.src \in Rev /\ Head(call.work)[1] \in Object
        /\ copy \in Object /\ copy > next_object_id
    <2>1. next_object_id \in Int
      BY <1>2, StorageAssumption DEF TypeOK, Node
    <2> QED BY <1>1, <1>2, <2>1, WorkTypes, NextId
  <1>4. state \in Addr \cup {None} /\ obstates[dst][copy] = None
    BY <1>2, <1>3 DEF RefcountInv, ObstatesFresh
  <1>5. \A s \in Rev, o \in Object : obstates'[s][o] # obstates[s][o] => s = dst /\ o = copy
    BY <1>1, <1>2, <1>3
  <1>6. RefcountsExact'
    <2>1. CASE state = None
      <3>1. None \notin Addr
        BY StorageAssumption
      <3>2. refcnt' = refcnt
        BY <1>1, <1>2, <2>1, <3>1
      <3>3. obstates' = obstates
        BY <1>1, <1>2, <1>3, <1>4, <2>1
      <3> QED BY <1>1, <3>2, <3>3, SameExact
    <2>2. CASE state \in Addr /\ state # None
      <3>1. f \in [Object -> Addr \cup {None}] /\ obstates' = [obstates EXCEPT ![dst] = f]
        BY <1>1, <1>2, <1>3, <1>4
      <3>2. obstates[dst] \in [Object -> Addr \cup {None}] /\ state # obstates[dst][copy]
        BY <1>2, <1>3, <1>4, <2>2
      <3>3. ~IsFree(state)
        BY <1>3, <2>2, FreeUnused
      <3> HIDE DEF state
      <3>4. ASSUME NEW p \in Addr
            PROVE  /\ refcnt'[p] = refcnt[p] - Count(dst, Object, p)
                                    + Cardinality({o \in Object : f[o] = p})
                   /\ cell'[p] = None <=> refcnt'[p] = 0
        <4>1. p # None
          BY StorageAssumption
        <4>2. Cardinality({o \in Object : f[o] = p}) =
                Count(dst, Object, p) + (IF p = state THEN 1 ELSE 0)
                                      - (IF p = obstates[dst][copy] THEN 1 ELSE 0)
          BY <1>3, <1>4, <3>2, CountExcept DEF Count
        <4>3. Count(dst, Object, p) \in Nat /\ refcnt[p] \in Int
          BY <1>2, <1>3, CountNat
        <4>4. refcnt'[p] = IF p = state THEN refcnt[p] + 1 ELSE refcnt[p]
          BY <1>1, <1>2
        <4> HIDE DEF f, copy, dst
        <4>5. refcnt'[p] = refcnt[p] - Count(dst, Object, p)
                             + Cardinality({o \in Object : f[o] = p})
          <5>1. p # obstates[dst][copy]
            BY <1>4, <4>1
          <5>2. CASE p = state
            BY <4>2, <4>3, <4>4, <5>1, <5>2
          <5>3. CASE p # state
            BY <4>2, <4>3, <4>4, <5>1, <5>3
          <5> QED BY <5>2, <5>3
        <4>6. cell'[p] = None <=> refcnt'[p] = 0
          <5>1. (cell[p] = None <=> refcnt[p] = 0) /\ refcnt[p] \in Nat
            BY UsesFinite DEF RefcountInv, RefcountsExact, Uses
          <5>2. p = state => refcnt[p] # 0
            BY <3>3 DEF IsFree
          <5> QED BY <1>1, <4>4, <5>1, <5>2
        <4> QED BY <4>5, <4>6
      <3> QED BY <1>3, <3>1, <3>4, RowExact
    <2> QED BY <1>4, <2>1, <2>2
  <1> QED BY <1>1, <1>5, <1>6

LEMMA CopyObjectFailsExact ==
  ASSUME RefcountInv, NEW stage \in 1..4, CopyObjectFails(stage)
  PROVE  /\ RefcountsExact' /\ obstates' = obstates
         /\ refcnt' = refcnt /\ cell' = cell
  <1> DEFINE dst == call.dst
             copy == next_object_id + 1
             state == obstates[call.src][Head(call.work)[1]]
  <1>1. /\ call.pc = "copying" /\ call.work # <<>> /\ next_object_id < MaxObject
        /\ obstates' = IF stage < 4 THEN obstates
                       ELSE [obstates EXCEPT ![dst][copy] = None]
        /\ refcnt' = IF stage < 4 THEN refcnt ELSE [refcnt EXCEPT ![state] = (@ + 1) - 1]
        /\ cell' = cell
    BY DEF CopyObjectFails
  <1>2. /\ TypeOK /\ obstates \in [Rev -> [Object -> Addr \cup {None}]]
        /\ refcnt \in [Addr -> Int]
    BY DEF RefcountInv, TypeOK
  <1>3. dst \in Rev /\ copy \in Object /\ copy > next_object_id
    <2>1. next_object_id \in Int
      BY <1>2, StorageAssumption DEF TypeOK, Node
    <2> QED BY <1>1, <1>2, <2>1, WorkTypes, NextId
  <1>4. obstates[dst][copy] = None
    BY <1>3 DEF RefcountInv, ObstatesFresh
  <1>5. obstates' = obstates
    BY <1>1, <1>2, <1>3, <1>4
  <1>6. refcnt' = refcnt
    <2> HIDE DEF state
    <2>1. CASE state \in Addr
      BY <1>1, <1>2, <2>1
    <2>2. CASE state \notin Addr
      BY <1>1, <1>2, <2>2
    <2> QED BY <2>1, <2>2
  <1> QED BY <1>1, <1>5, <1>6, SameExact

-----------------------------------------------------------------------------
(* The invariant *)

\* A step which touches only objects that have been handed out, in a revision
\* which is live, keeps the rest of the invariant.
LEMMA RowsKept ==
  ASSUME RefcountInv, TypeOK', live' = live, NEW r \in live,
         next_object_id <= next_object_id',
         \A s \in Rev, o \in Object :
           obstates'[s][o] # obstates[s][o] =>
             s = r /\ (o <= next_object_id' \/ obstates'[s][o] = None)
  PROVE  ObstatesFresh' /\ DeadEmpty'
  <1>1. next_object_id \in Int /\ next_object_id' \in Int /\ Object \subseteq Int
    BY StorageAssumption DEF RefcountInv, TypeOK, Node, Object
  <1>2. ObstatesFresh'
    BY <1>1 DEF RefcountInv, ObstatesFresh
  <1>3. DeadEmpty'
    <2> SUFFICES ASSUME NEW s \in Rev, s \notin live
                 PROVE  obstates'[s] = NoObstates
      BY DEF DeadEmpty
    <2>1. obstates'[s] \in [Object -> Addr \cup {None}]
      BY DEF TypeOK
    <2>2. \A o \in Object : obstates'[s][o] = obstates[s][o]
      OBVIOUS
    <2>3. obstates[s] = NoObstates
      BY DEF RefcountInv, DeadEmpty
    <2> QED BY <2>1, <2>2, <2>3 DEF NoObstates
  <1> QED BY <1>2, <1>3

LEMMA HandedOut ==
  ASSUME TypeOK
  PROVE  /\ \A ob \in handles : ob \in Object /\ ob <= next_object_id
         /\ \A sel \in SUBSET handles : sel \in SUBSET Object
         /\ next_object_id \in Int
  BY HandlesAreObjects, StorageAssumption DEF TypeOK, Node

LEMMA RevisionCallExact ==
  ASSUME RefcountInv, TypeOK', RevisionCall
  PROVE  RefcountsExact' /\ ObstatesFresh' /\ DeadEmpty'
  <1>1. PICK r \in Rev : \/ xorn_new_revision(r)
                        \/ \E from \in Rev : copy_revision(r, from)
                        \/ xorn_finalize_revision(r)
                        \/ xorn_free_revision(r)
    BY DEF RevisionCall
  <1>2. CASE xorn_new_revision(r) \/ xorn_finalize_revision(r)
    <2>1. obstates' = obstates /\ refcnt' = refcnt /\ cell' = cell
          /\ live \subseteq live' /\ next_object_id' = next_object_id
      BY <1>2 DEF xorn_new_revision, xorn_finalize_revision, heapVars
    <2> QED BY <2>1, SameExact DEF RefcountInv, ObstatesFresh, DeadEmpty
  <1>3. CASE \E from \in Rev : copy_revision(r, from)
    <2>1. PICK from \in Rev : copy_revision(r, from)
      BY <1>3
    <2>2. RefcountsExact'
      BY <2>1, CopyRevisionExact
    <2>3. /\ obstates' = [obstates EXCEPT ![r] = obstates[from]]
          /\ live' = live \cup {r} /\ next_object_id' = next_object_id
          /\ obstates \in [Rev -> [Object -> Addr \cup {None}]]
      BY <2>1 DEF copy_revision, RefcountInv, TypeOK
    <2>4. ObstatesFresh' /\ DeadEmpty'
      BY <2>3 DEF RefcountInv, ObstatesFresh, DeadEmpty
    <2> QED BY <2>2, <2>4
  <1>4. CASE xorn_free_revision(r)
    <2>1. RefcountsExact'
      BY <1>4, FreeRevisionExact
    <2>2. /\ obstates' = [obstates EXCEPT ![r] = NoObstates]
          /\ live' = live \ {r} /\ next_object_id' = next_object_id
          /\ obstates \in [Rev -> [Object -> Addr \cup {None}]]
      BY <1>4 DEF xorn_free_revision, RefcountInv, TypeOK
    <2>3. ObstatesFresh' /\ DeadEmpty'
      BY <2>2 DEF RefcountInv, ObstatesFresh, DeadEmpty, NoObstates
    <2> QED BY <2>1, <2>3
  <1> QED BY <1>1, <1>2, <1>3, <1>4

\* Steps which leave revisions, memory and live alone.
LEMMA UntouchedExact ==
  ASSUME RefcountInv, TypeOK', UNCHANGED <<live, obstates, heapVars>>,
         next_object_id <= next_object_id'
  PROVE  RefcountsExact' /\ ObstatesFresh' /\ DeadEmpty'
  <1>1. RefcountsExact'
    BY SameExact DEF heapVars
  <1>2. next_object_id \in Int /\ next_object_id' \in Int /\ Object \subseteq Int
    BY StorageAssumption DEF RefcountInv, TypeOK, Node, Object
  <1> QED BY <1>1, <1>2 DEF RefcountInv, ObstatesFresh, DeadEmpty

LEMMA ObjectCallExact ==
  ASSUME RefcountInv, TypeOK', ObjectCall
  PROVE  RefcountsExact' /\ ObstatesFresh' /\ DeadEmpty'
  <1>1. TypeOK /\ next_object_id \in Int
        /\ \A ob \in handles : ob \in Object /\ ob <= next_object_id
        /\ \A sel \in SUBSET handles : sel \in SUBSET Object
    BY HandedOut DEF RefcountInv
  <1>2. PICK r \in Rev :
    \/ \E v \in Value : xorn_add_object(r, v)
    \/ \E stage \in 1..3 : AddObjectFails(r, stage)
    \/ \E ob \in handles, v \in Value : xorn_set_object_data(r, ob, v)
    \/ \E ob \in handles, stage \in 1..3 : SetObjectDataFails(r, ob, stage)
    \/ \E ob \in handles, to \in handles \cup {NULL}, before \in handles \cup {NULL} :
         xorn_relocate_object(r, ob, to, before)
    \/ \E ob \in handles : xorn_delete_object(r, ob)
    \/ \E sel \in SUBSET handles : xorn_delete_selected_objects(r, sel)
    \/ \E src \in Rev, ob \in handles : xorn_copy_object(r, src, ob)
    \/ \E src \in Rev, sel \in SUBSET handles : xorn_copy_objects(r, src, sel)
    \/ \E sel \in SUBSET handles, f \in Setters : set_attr(r, sel, f)
    \/ \E done \in SUBSET handles : SetAttrFails(r, done)
    BY DEF ObjectCall
  <1>3. CASE \E v \in Value : xorn_add_object(r, v)
    <2>1. PICK v \in Value : xorn_add_object(r, v)
      BY <1>3
    <2>2. /\ r \in live /\ live' = live /\ v \in ValidData
          /\ next_object_id' = next_object_id + 1 /\ next_object_id + 1 \in Object
          /\ set_object_data(r, next_object_id + 1, v)
      BY <1>1, <2>1, NextId DEF xorn_add_object, Callable
    <2> DEFINE ob == next_object_id + 1
    <2> HIDE DEF ob
    <2>3. ob \in Object /\ set_object_data(r, ob, v) /\ next_object_id' = ob
          /\ next_object_id <= ob /\ ob \in Int
      BY <1>1, <2>2 DEF ob
    <2>4. RefcountsExact' /\ (\A s \in Rev, o \in Object :
            obstates'[s][o] # obstates[s][o] => s = r /\ o = ob)
      BY <2>2, <2>3, SetObjectDataExact
    <2> QED BY <2>2, <2>3, <2>4, RowsKept
  <1>4. CASE \E stage \in 1..3 : AddObjectFails(r, stage)
    <2>1. UNCHANGED <<live, obstates, heapVars>> /\ next_object_id' = next_object_id + 1
      BY <1>4 DEF AddObjectFails
    <2> QED BY <1>1, <2>1, UntouchedExact
  <1>5. CASE \E ob \in handles, v \in Value : xorn_set_object_data(r, ob, v)
    <2>1. PICK ob \in handles, v \in Value : xorn_set_object_data(r, ob, v)
      BY <1>5
    <2>2. /\ r \in live /\ live' = live /\ next_object_id' = next_object_id
          /\ v \in ValidData /\ set_object_data(r, ob, v)
      BY <2>1 DEF xorn_set_object_data, Callable
    <2>3. RefcountsExact' /\ (\A s \in Rev, o \in Object :
            obstates'[s][o] # obstates[s][o] => s = r /\ o = ob)
      BY <1>1, <2>2, SetObjectDataExact
    <2> QED BY <1>1, <2>2, <2>3, RowsKept
  <1>6. CASE \E ob \in handles, stage \in 1..3 : SetObjectDataFails(r, ob, stage)
    BY <1>1, <1>6, UntouchedExact DEF SetObjectDataFails
  <1>7. CASE \E ob \in handles, to \in handles \cup {NULL}, before \in handles \cup {NULL} :
               xorn_relocate_object(r, ob, to, before)
    BY <1>1, <1>7, UntouchedExact DEF xorn_relocate_object
  <1>8. CASE \E ob \in handles : xorn_delete_object(r, ob)
    <2>1. PICK ob \in handles : xorn_delete_object(r, ob)
      BY <1>8
    <2>2. /\ r \in live /\ live' = live /\ next_object_id' = next_object_id
          /\ DeleteFrom(r, ob)
      BY <2>1 DEF xorn_delete_object, Callable
    <2>3. RefcountsExact' /\ (\A s \in Rev, o \in Object :
            obstates'[s][o] # obstates[s][o] => s = r /\ obstates'[s][o] = None)
      BY <1>1, <2>2, DeleteFromExact
    <2> QED BY <1>1, <2>2, <2>3, RowsKept
  <1>9. CASE \E sel \in SUBSET handles : xorn_delete_selected_objects(r, sel)
    <2>1. UNCHANGED <<live, obstates, heapVars>> /\ next_object_id' = next_object_id
      BY <1>9 DEF xorn_delete_selected_objects, Enter, revVars
    <2> QED BY <1>1, <2>1, UntouchedExact
  <1>10. CASE \E src \in Rev, ob \in handles : xorn_copy_object(r, src, ob)
    <2>1. UNCHANGED <<live, obstates, heapVars>> /\ next_object_id' = next_object_id
      BY <1>10 DEF xorn_copy_object, Enter, revVars
    <2> QED BY <1>1, <2>1, UntouchedExact
  <1>11. CASE \E src \in Rev, sel \in SUBSET handles : xorn_copy_objects(r, src, sel)
    <2>1. UNCHANGED <<live, obstates, heapVars>> /\ next_object_id' = next_object_id
      BY <1>11 DEF xorn_copy_objects, Enter, revVars
    <2> QED BY <1>1, <2>1, UntouchedExact
  <1>12. CASE \E sel \in SUBSET handles, f \in Setters : set_attr(r, sel, f)
    <2>1. PICK sel \in SUBSET handles, f \in Setters : set_attr(r, sel, f)
      BY <1>12
    <2>2. r \in live /\ live' = live /\ next_object_id' = next_object_id
      BY <2>1 DEF set_attr, Callable
    <2>3. RefcountsExact' /\ (\A s \in Rev, o \in Object :
            obstates'[s][o] # obstates[s][o] => s = r /\ obstates[s][o] # None)
      BY <1>1, <2>1, SetAttrExact
    <2>4. \A s \in Rev, o \in Object : obstates[s][o] # None => o <= next_object_id
      <3>1. Object \subseteq Int
        BY StorageAssumption DEF Object
      <3>2. \A o \in Object : o > next_object_id \/ o <= next_object_id
        BY <1>1, <3>1
      <3>3. \A s \in Rev, o \in Object : o > next_object_id => obstates[s][o] = None
        BY DEF RefcountInv, ObstatesFresh
      <3> QED BY <3>2, <3>3
    <2> QED BY <1>1, <2>2, <2>3, <2>4, RowsKept
  <1>13. CASE \E done \in SUBSET handles : SetAttrFails(r, done)
    <2>1. PICK done \in SUBSET handles : SetAttrFails(r, done)
      BY <1>13
    <2>2. UNCHANGED <<live, obstates, heapVars>> /\ next_object_id' = next_object_id
      BY <1>1, <2>1, SetAttrFailsExact DEF SetAttrFails, revVars, heapVars
    <2> QED BY <1>1, <2>2, UntouchedExact
  <1> QED BY <1>2, <1>3, <1>4, <1>5, <1>6, <1>7, <1>8, <1>9, <1>10, <1>11, <1>12, <1>13

LEMMA ProgressExact ==
  ASSUME RefcountInv, TypeOK', Progress
  PROVE  RefcountsExact' /\ ObstatesFresh' /\ DeadEmpty'
  <1>1. TypeOK /\ next_object_id \in Int
    BY HandedOut DEF RefcountInv
  <1>2. CASE DeleteNext
    <2> DEFINE r == call.dst
               ob == Head(call.list)
    <2>1. /\ r \in live /\ r \in Rev /\ ob \in Object
          /\ live' = live /\ next_object_id' = next_object_id
      <3>1. call.list \in Seq(Object) /\ call.list # <<>> /\ call.dst \in live
            /\ live \subseteq Rev
        BY <1>1, <1>2 DEF DeleteNext, TypeOK
      <3> QED BY <1>2, <3>1, HeadTailProperties DEF DeleteNext
    <2>2. CASE parent[r][ob] # Absent
      <3>1. DeleteFrom(r, ob)
        BY <1>2, <2>2 DEF DeleteNext
      <3>2. RefcountsExact' /\ (\A s \in Rev, o \in Object :
              obstates'[s][o] # obstates[s][o] => s = r /\ obstates'[s][o] = None)
        BY <2>1, <3>1, DeleteFromExact
      <3> QED BY <1>1, <2>1, <3>2, RowsKept
    <2>3. CASE parent[r][ob] = Absent
      BY <1>1, <1>2, <2>1, <2>3, UntouchedExact DEF DeleteNext
    <2> QED BY <2>2, <2>3
  <1>3. CASE DeleteReturns
    BY <1>1, <1>3, UntouchedExact DEF DeleteReturns, Return, revVars
  <1>4. CASE copy_object
    <2>1. /\ call.dst \in live /\ live' = live /\ next_object_id' = next_object_id + 1
      BY <1>1, <1>4 DEF copy_object, TypeOK
    <2>2. RefcountsExact' /\ (\A s \in Rev, o \in Object :
            obstates'[s][o] # obstates[s][o] => s = call.dst /\ o = next_object_id')
      BY <1>4, CopyStepExact
    <2>3. next_object_id <= next_object_id' /\ next_object_id' \in Int
      BY <1>1, <2>1
    <2> QED BY SMTT(30), <2>1, <2>2, <2>3, RowsKept
  <1>5. CASE \E stage \in 1..4 : CopyObjectFails(stage)
    <2>1. PICK stage \in 1..4 : CopyObjectFails(stage)
      BY Zenon, <1>5
    <2>2. UNCHANGED <<live, obstates, heapVars>> /\ next_object_id' = next_object_id + 1
      BY ZenonT(60), <2>1, CopyObjectFailsExact DEF CopyObjectFails, heapVars
    <2> QED BY <1>1, <2>2, UntouchedExact
  <1>6. CASE CopyObjectsFails
    BY <1>1, <1>6, UntouchedExact DEF CopyObjectsFails, revVars
  <1>7. CASE CopyReturns
    BY <1>1, <1>7, UntouchedExact DEF CopyReturns, Return, revVars
  <1> QED BY <1>2, <1>3, <1>4, <1>5, <1>6, <1>7 DEF Progress

LEMMA InitRefcountInv == Init => RefcountInv
  <1> SUFFICES ASSUME Init PROVE RefcountInv
    OBVIOUS
  <1>1. TypeOK
    BY InitTypeOK
  <1>2. RefcountsExact
    <2>1. \A p \in Addr : Uses(p) = {}
      BY StorageAssumption DEF Init, NoObstates, Uses
    <2>2. \A p \in Addr : Cardinality(Uses(p)) = 0
      BY <2>1, FS_EmptySet
    <2> QED BY <2>2 DEF Init, RefcountsExact, Uses
  <1>3. ObstatesFresh /\ DeadEmpty
    BY DEF Init, ObstatesFresh, DeadEmpty, NoObstates
  <1> QED BY <1>1, <1>2, <1>3 DEF RefcountInv

LEMMA NextRefcountInv ==
  ASSUME RefcountInv, [Next]_vars
  PROVE  RefcountInv'
  <1>1. TypeOK'
    BY NextTypeOK DEF RefcountInv
  <1>2. CASE RevisionCall
    BY <1>1, <1>2, RevisionCallExact DEF RefcountInv
  <1>3. CASE ObjectCall
    BY <1>1, <1>3, ObjectCallExact DEF RefcountInv
  <1>4. CASE Progress
    BY <1>1, <1>4, ProgressExact DEF RefcountInv
  <1>5. CASE UNCHANGED vars
    <2>1. UNCHANGED <<live, obstates, heapVars>> /\ next_object_id' = next_object_id
      BY <1>5 DEF vars, revVars
    <2>2. next_object_id <= next_object_id'
      BY <2>1, HandedOut DEF RefcountInv
    <2> QED BY <1>1, <2>1, <2>2, UntouchedExact DEF RefcountInv
  <1> QED BY <1>2, <1>3, <1>4, <1>5 DEF Next

\* Reference counts are exact in every reachable state, whatever functions are
\* called, whichever objects share an object state, wherever memory runs out.
THEOREM RefcountsCorrect == Spec => []RefcountsExact
  <1>1. Init => RefcountInv
    BY InitRefcountInv
  <1>2. RefcountInv /\ [Next]_vars => RefcountInv'
    BY NextRefcountInv
  <1>3. RefcountInv => RefcountsExact
    BY DEF RefcountInv
  <1> QED BY <1>1, <1>2, <1>3, PTL DEF Spec

-----------------------------------------------------------------------------
(* What can be seen of a finalized revision never changes. *)

\* Memory which is in use before a step and after it has not been written to.
MemoryKept == \A p \in Addr : ~IsFree(p) /\ refcnt'[p] # 0 => cell'[p] = cell[p]

\* The maps of a finalized revision are not touched.
RowKept(r) ==
  /\ obstates'[r] = obstates[r]
  /\ children'[r] = children[r]
  /\ is_transient'[r] = is_transient[r]

LEMMA ReclaimKept ==
  ASSUME NEW c, \A p \in Addr : ~IsFree(p) => c[p] = cell[p],
         cell' = Reclaim(refcnt', c)
  PROVE  MemoryKept
  BY DEF MemoryKept, Reclaim

LEMMA SetObjectDataMemory ==
  ASSUME TypeOK, NEW r \in Rev, NEW ob \in Object, NEW v, set_object_data(r, ob, v)
  PROVE  MemoryKept /\ \A s \in Rev : s # r => obstates'[s] = obstates[s]
  <1>1. PICK p \in Addr :
          /\ IsFree(p)
          /\ obstates' = [obstates EXCEPT ![r][ob] = p]
          /\ cell' = Reclaim(refcnt', [cell EXCEPT ![p] = obstate(v)])
    BY DEF set_object_data
  <1>2. \A q \in Addr : ~IsFree(q) => [cell EXCEPT ![p] = obstate(v)][q] = cell[q]
    BY <1>1 DEF TypeOK
  <1> QED BY <1>1, <1>2, ReclaimKept DEF TypeOK

LEMMA DeleteFromMemory ==
  ASSUME TypeOK, NEW r \in Rev, NEW ob, DeleteFrom(r, ob)
  PROVE  MemoryKept /\ \A s \in Rev : s # r =>
           obstates'[s] = obstates[s] /\ children'[s] = children[s]
  <1>1. /\ cell' = Reclaim(refcnt', cell)
        /\ \E f : obstates' = [obstates EXCEPT ![r] = f]
        /\ \E f : children' = [children EXCEPT ![r] = f]
    BY DEF DeleteFrom
  <1>2. MemoryKept
    BY <1>1, ReclaimKept
  <1> QED BY <1>1, <1>2 DEF TypeOK

LEMMA SetAttrMemory ==
  ASSUME TypeOK, NEW r \in Rev, NEW sel, NEW f, set_attr(r, sel, f)
  PROVE  MemoryKept /\ \A s \in Rev : s # r => obstates'[s] = obstates[s]
  <1> DEFINE affected == Affected(r, sel, f)
             value(ob) == obstate(<<TypeOf(r, ob), f[ValueOf(r, ob)]>>)
  <1>1. PICK new \in [affected -> Addr] :
       /\ \A ob \in affected : IsFree(new[ob])
       /\ obstates' = [obstates EXCEPT ![r] =
            [ob \in Object |-> IF ob \in affected THEN new[ob] ELSE @[ob]]]
       /\ cell' = Reclaim(refcnt', [p \in Addr |->
            IF \E ob \in affected : p = new[ob]
            THEN LET ob == CHOOSE o \in affected : p = new[o] IN value(ob)
            ELSE cell[p]])
    BY DEF set_attr
  <1> HIDE DEF affected, value
  <1> DEFINE c == [p \in Addr |->
                    IF \E ob \in affected : p = new[ob]
                    THEN LET ob == CHOOSE o \in affected : p = new[o] IN value(ob)
                    ELSE cell[p]]
  <1>2. \A p \in Addr : ~IsFree(p) => c[p] = cell[p]
    BY <1>1
  <1>3. cell' = Reclaim(refcnt', c)
    BY <1>1
  <1> HIDE DEF c
  <1>4. MemoryKept
    BY <1>2, <1>3, ReclaimKept
  <1> QED BY <1>1, <1>4 DEF TypeOK

LEMMA SameMemory ==
  ASSUME UNCHANGED <<obstates, children, is_transient, cell>>
  PROVE  MemoryKept /\ \A r \in Rev : RowKept(r)
  BY DEF MemoryKept, RowKept

-----------------------------------------------------------------------------

LEMMA RevisionCallFrozen ==
  ASSUME RefcountInv, RevisionCall, NEW r \in live, ~is_transient[r], r \in live'
  PROVE  MemoryKept /\ RowKept(r)
  <1>1. TypeOK
    BY DEF RefcountInv
  <1>2. PICK s \in Rev : \/ xorn_new_revision(s)
                        \/ \E from \in Rev : copy_revision(s, from)
                        \/ xorn_finalize_revision(s)
                        \/ xorn_free_revision(s)
    BY DEF RevisionCall
  <1>3. CASE xorn_new_revision(s)
    BY <1>1, <1>3 DEF xorn_new_revision, MemoryKept, RowKept, TypeOK, heapVars
  <1>4. CASE \E from \in Rev : copy_revision(s, from)
    BY <1>1, <1>4 DEF copy_revision, MemoryKept, RowKept, TypeOK
  <1>5. CASE xorn_finalize_revision(s)
    BY <1>1, <1>5 DEF xorn_finalize_revision, MemoryKept, RowKept, TypeOK, heapVars
  <1>6. CASE xorn_free_revision(s)
    <2>1. r # s
      BY <1>6 DEF xorn_free_revision
    <2>2. MemoryKept
      BY <1>6, ReclaimKept DEF xorn_free_revision
    <2>3. RowKept(r)
      BY <1>1, <1>6, <2>1 DEF xorn_free_revision, RowKept, TypeOK
    <2> QED BY <2>2, <2>3
  <1> QED BY <1>2, <1>3, <1>4, <1>5, <1>6

LEMMA ObjectCallFrozen ==
  ASSUME RefcountInv, ObjectCall, NEW r \in live, ~is_transient[r], r \in live'
  PROVE  MemoryKept /\ RowKept(r)
  <1>1. /\ TypeOK /\ r \in Rev
        /\ \A ob \in handles : ob \in Object
        /\ \A sel \in SUBSET handles : sel \in SUBSET Object
    BY HandedOut DEF RefcountInv, TypeOK
  <1>2. PICK s \in Rev :
    \/ \E v \in Value : xorn_add_object(s, v)
    \/ \E stage \in 1..3 : AddObjectFails(s, stage)
    \/ \E ob \in handles, v \in Value : xorn_set_object_data(s, ob, v)
    \/ \E ob \in handles, stage \in 1..3 : SetObjectDataFails(s, ob, stage)
    \/ \E ob \in handles, to \in handles \cup {NULL}, before \in handles \cup {NULL} :
         xorn_relocate_object(s, ob, to, before)
    \/ \E ob \in handles : xorn_delete_object(s, ob)
    \/ \E sel \in SUBSET handles : xorn_delete_selected_objects(s, sel)
    \/ \E src \in Rev, ob \in handles : xorn_copy_object(s, src, ob)
    \/ \E src \in Rev, sel \in SUBSET handles : xorn_copy_objects(s, src, sel)
    \/ \E sel \in SUBSET handles, f \in Setters : set_attr(s, sel, f)
    \/ \E done \in SUBSET handles : SetAttrFails(s, done)
    BY DEF ObjectCall
  <1>3. r # s
    <2>1. Callable(s)
      BY <1>2 DEF xorn_add_object, AddObjectFails, xorn_set_object_data,
                  SetObjectDataFails, xorn_relocate_object, xorn_delete_object,
                  xorn_delete_selected_objects, xorn_copy_object,
                  xorn_copy_objects, set_attr, SetAttrFails
    <2> QED BY <2>1 DEF Callable
  <1>4. CASE \E v \in Value : xorn_add_object(s, v)
    <2>1. PICK v \in Value : xorn_add_object(s, v)
      BY <1>4
    <2>2. next_object_id + 1 \in Object /\ set_object_data(s, next_object_id + 1, v)
      BY <1>1, <2>1, NextId DEF xorn_add_object
    <2>3. MemoryKept /\ obstates'[r] = obstates[r]
      BY <1>1, <1>3, <2>2, SetObjectDataMemory
    <2> QED BY <1>1, <1>3, <2>1, <2>3 DEF xorn_add_object, RowKept, TypeOK
  <1>5. CASE \E stage \in 1..3 : AddObjectFails(s, stage)
    BY <1>1, <1>3, <1>5 DEF AddObjectFails, MemoryKept, RowKept, TypeOK, heapVars
  <1>6. CASE \E ob \in handles, v \in Value : xorn_set_object_data(s, ob, v)
    <2>1. PICK ob \in handles, v \in Value : xorn_set_object_data(s, ob, v)
      BY <1>6
    <2>2. MemoryKept /\ obstates'[r] = obstates[r]
      BY <1>1, <1>3, <2>1, SetObjectDataMemory DEF xorn_set_object_data
    <2>3. children'[r] = children[r] /\ is_transient' = is_transient
      BY <1>1, <1>3, <2>1 DEF xorn_set_object_data, TypeOK
    <2> QED BY <2>2, <2>3 DEF RowKept
  <1>7. CASE \E ob \in handles, stage \in 1..3 : SetObjectDataFails(s, ob, stage)
    BY <1>1, <1>3, <1>7 DEF SetObjectDataFails, MemoryKept, RowKept, TypeOK, heapVars
  <1>8. CASE \E ob \in handles, to \in handles \cup {NULL}, before \in handles \cup {NULL} :
               xorn_relocate_object(s, ob, to, before)
    BY <1>1, <1>3, <1>8 DEF xorn_relocate_object, MemoryKept, RowKept, TypeOK, heapVars
  <1>9. CASE \E ob \in handles : xorn_delete_object(s, ob)
    BY <1>1, <1>3, <1>9, DeleteFromMemory DEF xorn_delete_object, RowKept
  <1>10. CASE \E sel \in SUBSET handles : xorn_delete_selected_objects(s, sel)
    BY <1>1, <1>10, SameMemory DEF xorn_delete_selected_objects, Enter, revVars, heapVars
  <1>11. CASE \E src \in Rev, ob \in handles : xorn_copy_object(s, src, ob)
    BY <1>1, <1>11, SameMemory DEF xorn_copy_object, Enter, revVars, heapVars
  <1>12. CASE \E src \in Rev, sel \in SUBSET handles : xorn_copy_objects(s, src, sel)
    BY <1>1, <1>12, SameMemory DEF xorn_copy_objects, Enter, revVars, heapVars
  <1>13. CASE \E sel \in SUBSET handles, f \in Setters : set_attr(s, sel, f)
    <2>1. PICK sel \in SUBSET handles, f \in Setters : set_attr(s, sel, f)
      BY <1>13
    <2>2. MemoryKept /\ obstates'[r] = obstates[r]
      BY <1>1, <1>3, <2>1, SetAttrMemory
    <2> QED BY <2>1, <2>2 DEF set_attr, RowKept
  <1>14. CASE \E done \in SUBSET handles : SetAttrFails(s, done)
    BY <1>1, <1>14, SameMemory, SetAttrFailsExact DEF SetAttrFails, revVars
  <1> QED BY <1>2, <1>4, <1>5, <1>6, <1>7, <1>8, <1>9, <1>10, <1>11, <1>12, <1>13, <1>14

LEMMA ProgressFrozen ==
  ASSUME RefcountInv, Progress, NEW r \in live, ~is_transient[r], r \in live'
  PROVE  MemoryKept /\ RowKept(r)
  <1>1. TypeOK /\ r \in Rev
    BY DEF RefcountInv, TypeOK
  <1>2. call.pc # "idle" => call.dst \in Rev /\ r # call.dst
    BY <1>1 DEF TypeOK
  <1>3. CASE DeleteNext
    <2>1. call.dst \in Rev /\ r # call.dst /\ is_transient' = is_transient
      BY <1>2, <1>3 DEF DeleteNext
    <2>2. CASE parent[call.dst][Head(call.list)] # Absent
      BY <1>1, <1>3, <2>1, <2>2, DeleteFromMemory DEF DeleteNext, RowKept
    <2>3. CASE parent[call.dst][Head(call.list)] = Absent
      BY <1>1, <1>3, <2>1, <2>3, SameMemory DEF DeleteNext, heapVars
    <2> QED BY <2>2, <2>3
  <1>4. CASE DeleteReturns \/ CopyReturns
    BY <1>1, <1>4, SameMemory DEF DeleteReturns, CopyReturns, Return, revVars, heapVars
  <1>5. CASE copy_object
    BY <1>1, <1>2, <1>5 DEF copy_object, MemoryKept, RowKept, TypeOK
  <1>6. CASE \E stage \in 1..4 : CopyObjectFails(stage)
    <2>1. PICK stage \in 1..4 : CopyObjectFails(stage)
      BY Zenon, <1>6
    <2>2. obstates' = obstates /\ cell' = cell /\ is_transient' = is_transient
      BY ZenonT(60), <2>1, CopyObjectFailsExact DEF CopyObjectFails
    <2>3. children'[r] = children[r]
      BY <1>1, <1>2, <2>1 DEF CopyObjectFails, TypeOK
    <2> QED BY <2>2, <2>3 DEF MemoryKept, RowKept
  <1>7. CASE CopyObjectsFails
    BY <1>1, <1>7, SameMemory DEF CopyObjectsFails, revVars, heapVars
  <1> QED BY <1>3, <1>4, <1>5, <1>6, <1>7 DEF Progress

\* A revision's contents are determined by its maps and the memory they refer to.
LEMMA ContentsKept ==
  ASSUME RefcountInv, RefcountInv', NEW r \in Rev, MemoryKept,
         obstates'[r] = obstates[r], children'[r] = children[r]
  PROVE  Contents(r)' = Contents(r)
  <1>1. ASSUME NEW ob \in Object, NEW p \in Addr, obstates[r][ob] = p
        PROVE  cell'[p] = cell[p]
    <2>1. obstates'[r][ob] = p
      BY <1>1
    <2>2. ~IsFree(p)
      BY <1>1, FreeUnused
    <2>3. refcnt'[p] = Cardinality(Uses(p)')
      <3>1. RefcountsExact'
        BY DEF RefcountInv
      <3> QED BY <1>1, <3>1 DEF RefcountsExact, Uses
    <2>4. <<r, ob>> \in Uses(p)'
      BY <1>1, <2>1 DEF Uses
    <2>5. IsFiniteSet(Uses(p)')
      <3>1. Uses(p)' \in SUBSET (Rev \X Object)
        BY DEF Uses
      <3> QED BY <3>1, SlotsFinite, FS_Subset
    <2>6. refcnt'[p] # 0
      BY <2>3, <2>4, <2>5, FS_EmptySet
    <2> QED BY <1>1, <2>2, <2>6 DEF MemoryKept
  <1>2. ASSUME NEW ob \in Object
        PROVE  ValueOf(r, ob)' = ValueOf(r, ob)
    <2>1. obstates'[r][ob] = obstates[r][ob]
      OBVIOUS
    <2>2. obstates[r][ob] # None => obstates[r][ob] \in Addr
      BY DEF RefcountInv, TypeOK
    <2> QED BY <1>1, <2>1, <2>2 DEF ValueOf, Exists
  <1>3. [ob \in Object |-> ValueOf(r, ob)]' = [ob \in Object |-> ValueOf(r, ob)]
    BY <1>2
  <1> QED BY <1>3 DEF Contents

\* What is seen through a finalized revision never changes: not while revisions
\* it shares object states with are changed, not when they are freed, and not
\* when memory runs out in the middle of it.
THEOREM FinalizedIsFrozen == Spec => FinalizedFrozen
  <1> DEFINE Frozen == \A r \in live : (~is_transient[r] /\ r \in live') =>
                         Contents(r)' = Contents(r) /\ ~is_transient'[r]
  <1>1. Init => RefcountInv
    BY InitRefcountInv
  <1>2. RefcountInv /\ [Next]_vars => RefcountInv'
    BY NextRefcountInv
  <1>3. RefcountInv /\ RefcountInv' /\ [Next]_vars => [Frozen]_vars
    <2> SUFFICES ASSUME RefcountInv, RefcountInv', Next,
                        NEW r \in live, ~is_transient[r], r \in live'
                 PROVE  Contents(r)' = Contents(r) /\ ~is_transient'[r]
      OBVIOUS
    <2>1. MemoryKept /\ RowKept(r)
      BY RevisionCallFrozen, ObjectCallFrozen, ProgressFrozen DEF Next
    <2>2. r \in Rev
      BY DEF RefcountInv, TypeOK
    <2> QED BY <2>1, <2>2, ContentsKept DEF RowKept
  <1> QED BY <1>1, <1>2, <1>3, PTL DEF Spec, FinalizedFrozen

=============================================================================
