--------------------------- MODULE NetGroupingProofs ---------------------------
(***************************************************************************)
(* Proofs about NetGrouping, for any number of sheets, local nets, labels  *)
(* and pins: local nets are grouped exactly as their names connect them,   *)
(* the assertions in net.py hold, and the names of nets are distinct.      *)
(***************************************************************************)
EXTENDS NetGrouping, Integers, FiniteSetTheorems, WellFoundedInduction, TLAPS

Less == {x \in Nat \X Nat : x[1] < x[2]}

(* A set of natural numbers which isn't empty has a least element.         *)
LEMMA LeastNumber ==
  ASSUME NEW S, S \subseteq Nat, S # {}
  PROVE  \E x \in S : \A y \in S : x <= y
<1>1. IsWellFoundedOn(Less, Nat)
  BY NatLessThanWellFounded DEF OpToRel, Less
<1>2. \A x, y \in Nat : y < x => <<y, x>> \in Less
  BY DEF Less
<1>3. PICK x \in S : \A y \in S : ~(<<y, x>> \in Less)
  BY <1>1, WFMin
<1>4. ASSUME NEW y \in S PROVE x <= y
  <2>1. x \in Nat /\ y \in Nat
    OBVIOUS
  <2>2. ~(y < x)
    BY <1>2, <1>3, <2>1
  <2> QED BY <2>1, <2>2
<1> QED
  BY <1>4

(* Induction, for a set in place of a predicate.                           *)
LEMMA InductiveSet ==
  ASSUME NEW S, 0 \in S, \A n \in Nat : n \in S => n + 1 \in S
  PROVE  Nat \subseteq S
<1> SUFFICES ASSUME Nat \ S # {} PROVE FALSE
  OBVIOUS
<1>1. PICK x \in Nat \ S : \A y \in Nat \ S : x <= y
  BY LeastNumber
<1>2. x # 0
  OBVIOUS
<1>3. x - 1 \in Nat /\ x - 1 + 1 = x
  BY <1>2
<1>4. x - 1 \in S
  BY <1>1, <1>3
<1> QED
  BY <1>3, <1>4

(* The lesser and the greater of two numbers.                              *)
LEMMA MinMax ==
  ASSUME NEW a \in Nat, NEW b \in Nat, a # b
  PROVE  /\ Min({a, b}) \in {a, b} /\ Max({a, b}) \in {a, b}
         /\ Min({a, b}) # Max({a, b})
<1>1. \E x \in {a, b} : \A y \in {a, b} : x <= y
  OBVIOUS
<1>2. \E x \in {a, b} : \A y \in {a, b} : x >= y
  OBVIOUS
<1>3. Min({a, b}) \in {a, b} /\ \A y \in {a, b} : Min({a, b}) <= y
  BY <1>1 DEF Min
<1>4. Max({a, b}) \in {a, b} /\ \A y \in {a, b} : Max({a, b}) >= y
  BY <1>2 DEF Max
<1> QED
  BY <1>3, <1>4

(* Which elements a list has after one has been appended.                  *)
LEMMA AppendSet ==
  ASSUME NEW T, NEW s \in Seq(T), NEW x \in T
  PROVE  ToSet(Append(s, x)) = ToSet(s) \cup {x}
<1> DEFINE t == Append(s, x)
<1>1. DOMAIN t = 1..Len(s) + 1 /\ DOMAIN s = 1..Len(s) /\ Len(s) \in Nat
  OBVIOUS
<1>2. \A i \in 1..Len(s) : t[i] = s[i]
  OBVIOUS
<1>3. t[Len(s) + 1] = x
  OBVIOUS
<1> HIDE DEF t
<1>4. \A i \in 1..Len(s) + 1 : i \in 1..Len(s) \/ i = Len(s) + 1
  BY <1>1
<1>5. 1..Len(s) \subseteq 1..Len(s) + 1 /\ Len(s) + 1 \in 1..Len(s) + 1
  BY <1>1
<1>6. ToSet(t) \subseteq ToSet(s) \cup {x}
  BY <1>1, <1>2, <1>3, <1>4 DEF ToSet
<1>7. ToSet(s) \cup {x} \subseteq ToSet(t)
  BY <1>1, <1>2, <1>3, <1>5 DEF ToSet
<1> QED
  BY <1>6, <1>7 DEF t

(* Which elements a list has after others have been appended to it.        *)
LEMMA AppendNewSet ==
  ASSUME NEW T, NEW s \in Seq(T), NEW t \in Seq(T)
  PROVE  AppendNew(s, t) \in Seq(T) /\ ToSet(AppendNew(s, t)) = ToSet(s) \cup ToSet(t)
<1>1. Len(t) \in Nat
  OBVIOUS
<1> DEFINE Step(f, i) ==
             IF i = 0 THEN s
             ELSE IF Contains(f[i - 1], t[i]) THEN f[i - 1] ELSE Append(f[i - 1], t[i])
           Fun(n) == \E f : f = [i \in 0..n |-> Step(f, i)]
           F == CHOOSE f : f = [i \in 0..Len(t) |-> Step(f, i)]
<1>2. AppendNew(s, t) = F[Len(t)]
  BY DEF AppendNew
<1>3. F = [i \in 0..Len(t) |-> Step(F, i)]
  <2>1. 0 \in {n \in Nat : Fun(n)}
    <3> DEFINE f == [i \in 0..0 |-> s]
    <3>1. f = [i \in 0..0 |-> Step(f, i)]
      OBVIOUS
    <3> QED
      BY <3>1
  <2>2. ASSUME NEW n \in Nat, Fun(n)
        PROVE  Fun(n + 1)
    <3>1. PICK f : f = [i \in 0..n |-> Step(f, i)]
      BY <2>2
    <3> DEFINE g == [i \in 0..n + 1 |-> IF i = n + 1 THEN Step(f, n + 1) ELSE f[i]]
    <3>2. ASSUME NEW i \in 0..n + 1 PROVE g[i] = Step(g, i)
      <4>1. CASE i = 0
        <5>1. g[0] = f[0] /\ f[0] = s
          BY <3>1
        <5> QED
          BY <4>1, <5>1
      <4>2. CASE i \in 1..n
        <5>1. i \in 0..n /\ i - 1 \in 0..n /\ i # n + 1 /\ i - 1 # n + 1
          BY <4>2
        <5>2. f[i] = Step(f, i)
          BY <3>1, <5>1
        <5>3. g[i] = f[i] /\ g[i - 1] = f[i - 1]
          BY <5>1
        <5> QED
          BY <4>2, <5>2, <5>3
      <4>3. CASE i = n + 1
        <5>1. g[n + 1] = Step(f, n + 1) /\ g[n + 1 - 1] = f[n + 1 - 1]
          OBVIOUS
        <5> QED
          BY <4>3, <5>1
      <4> QED
        BY <4>1, <4>2, <4>3
    <3>3. g = [i \in 0..n + 1 |-> Step(g, i)]
      BY <3>2
    <3> QED
      BY <3>3
  <2> HIDE DEF Fun
  <2> DEFINE S == {n \in Nat : Fun(n)}
  <2>3. \A n \in Nat : n \in S => n + 1 \in S
    BY <2>2
  <2>4. \A n \in S : Fun(n)
    OBVIOUS
  <2> HIDE DEF S
  <2>5. Nat \subseteq S
    BY <2>1, <2>3, InductiveSet DEF S
  <2>6. Fun(Len(t))
    BY <1>1, <2>4, <2>5
  <2> QED
    BY <2>6, Zenon DEF Fun
<1> HIDE DEF F
<1> DEFINE Right(n) ==
             n <= Len(t) => F[n] \in Seq(T) /\ ToSet(F[n]) = ToSet(s) \cup {t[i] : i \in 1..n}
<1>4. 0 \in {n \in Nat : Right(n)}
  <2>1. F[0] = s
    BY <1>1, <1>3
  <2> QED
    BY <2>1
<1>5. ASSUME NEW n \in Nat, Right(n)
      PROVE  Right(n + 1)
  <2> SUFFICES ASSUME n + 1 <= Len(t)
               PROVE  /\ F[n + 1] \in Seq(T)
                      /\ ToSet(F[n + 1]) = ToSet(s) \cup {t[i] : i \in 1..n + 1}
    OBVIOUS
  <2>1. F[n + 1] = IF Contains(F[n], t[n + 1]) THEN F[n] ELSE Append(F[n], t[n + 1])
    <3>1. n + 1 \in 0..Len(t) /\ n + 1 # 0 /\ n + 1 - 1 = n
      BY <1>1
    <3>2. F[n + 1] = Step(F, n + 1)
      BY <1>3, <3>1
    <3> QED
      BY <3>1, <3>2
  <2>2. F[n] \in Seq(T) /\ ToSet(F[n]) = ToSet(s) \cup {t[i] : i \in 1..n}
    BY <1>5
  <2>3. t[n + 1] \in T
    OBVIOUS
  <2>4. {t[i] : i \in 1..n + 1} = {t[i] : i \in 1..n} \cup {t[n + 1]}
    OBVIOUS
  <2>5. CASE Contains(F[n], t[n + 1])
    <3>1. t[n + 1] \in ToSet(F[n])
      BY <2>2, <2>5 DEF Contains, ToSet
    <3> QED
      BY <2>1, <2>2, <2>4, <2>5, <3>1
  <2>6. CASE ~Contains(F[n], t[n + 1])
    <3>1. ToSet(Append(F[n], t[n + 1])) = ToSet(F[n]) \cup {t[n + 1]}
      BY <2>2, <2>3, AppendSet
    <3>2. F[n + 1] = Append(F[n], t[n + 1])
      BY <2>1, <2>6
    <3>3. F[n + 1] \in Seq(T)
      BY <2>2, <2>3, <3>2
    <3>4. ToSet(F[n + 1]) = ToSet(s) \cup {t[i] : i \in 1..n + 1}
      BY <2>2, <2>4, <3>1, <3>2
    <3> QED
      BY <3>3, <3>4
  <2> QED
    BY <2>5, <2>6
<1>6. Right(Len(t))
  <2> DEFINE S == {n \in Nat : Right(n)}
  <2> HIDE DEF Right
  <2>1. 0 \in S /\ \A n \in Nat : n \in S => n + 1 \in S
    BY <1>4, <1>5
  <2>2. \A n \in S : Right(n)
    OBVIOUS
  <2> HIDE DEF S
  <2>3. Nat \subseteq S
    BY <2>1, InductiveSet
  <2> QED
    BY <1>1, <2>2, <2>3
<1>7. ToSet(t) = {t[i] : i \in 1..Len(t)}
  BY DEF ToSet
<1> QED
  BY <1>1, <1>2, <1>6, <1>7

(* Of different names, one is free if more are tried than are in use.      *)
LEMMA FirstFree ==
  ASSUME NEW D, IsFiniteSet(D), NEW c \in Nat, NEW f,
         \A x, y \in Nat : f[x] = f[y] => x = y
  PROVE  \E k \in c..c + Cardinality(D) : f[k] \notin D /\ \A j \in c..k - 1 : f[j] \in D
<1>1. PICK n \in Nat : n = Cardinality(D)
  BY FS_CardinalityType
<1> DEFINE K == c..c + n
           Free == {k \in K : f[k] \notin D}
<1>2. IsFiniteSet(K) /\ Cardinality(K) = n + 1
  <2>1. c \in Int /\ c + n \in Int /\ ~(c > c + n) /\ c + n - c + 1 = n + 1
    OBVIOUS
  <2> QED
    BY <2>1, FS_Interval
<1>3. K \subseteq Nat
  OBVIOUS
<1>4. Free # {}
  <2> SUFFICES ASSUME \A k \in K : f[k] \in D PROVE FALSE
    OBVIOUS
  <2> DEFINE g == [k \in K |-> f[k]]
  <2>1. g \in [K -> D] /\ \A k \in K : g[k] = f[k]
    OBVIOUS
  <2>2. Cardinality(D) < Cardinality(K)
    BY <1>1, <1>2
  <2> HIDE DEF g, K
  <2>3. PICK x, y \in K : x # y /\ g[x] = g[y]
    BY <1>2, <2>1, <2>2, FS_PigeonHole
  <2> QED
    BY <1>3, <2>1, <2>3
<1>5. Free \subseteq Nat
  BY <1>3
<1>6. PICK k \in Free : \A j \in Free : k <= j
  <2> HIDE DEF Free
  <2> QED
    BY <1>4, <1>5, LeastNumber
<1>7. ASSUME NEW j \in c..k - 1 PROVE f[j] \in D
  <2>1. j \in K /\ j < k /\ ~(k <= j)
    BY <1>3
  <2> QED
    BY <1>6, <2>1
<1> QED
  BY <1>1, <1>7

(* The name which is generated is a new one.                               *)
LEMMA FreeNumberIsFree ==
  ASSUME IsFiniteSet(DOMAIN net_dict), NEW l, NEW t, counter[t] \in Nat
  PROVE  /\ FreeNumber(l, t) \in Nat
         /\ Mangled(l, FALSE, <<t, FreeNumber(l, t)>>) \notin DOMAIN net_dict
<1> DEFINE D == DOMAIN net_dict
           c == counter[t]
           f == [k \in Nat |-> Mangled(l, FALSE, <<t, k>>)]
<1>1. \A x, y \in Nat : f[x] = f[y] => x = y
  BY DEF Mangled
<1>2. Cardinality(D) \in Nat /\ c \in Nat
  BY FS_CardinalityType
<1>3. \E k \in c..c + Cardinality(D) : f[k] \notin D /\ \A j \in c..k - 1 : f[j] \in D
  <2> HIDE DEF D, c, f
  <2> QED
    BY <1>1, <1>2, FirstFree DEF D
<1>4. \A k \in Nat : f[k] = Mangled(l, FALSE, <<t, k>>)
  OBVIOUS
<1> HIDE DEF D, c, f
<1>5. PICK k \in c..c + Cardinality(D) : f[k] \notin D /\ \A j \in c..k - 1 : f[j] \in D
  BY <1>3
<1>6. k \in Nat /\ \A j \in c..k - 1 : j \in Nat
  BY <1>2
<1>7. /\ k \in c..c + Cardinality(D)
      /\ Mangled(l, FALSE, <<t, k>>) \notin D
      /\ \A j \in c..k - 1 : Mangled(l, FALSE, <<t, j>>) \in D
  BY <1>4, <1>5, <1>6
<1>8. /\ FreeNumber(l, t) \in c..c + Cardinality(D)
      /\ Mangled(l, FALSE, <<t, FreeNumber(l, t)>>) \notin D
  BY <1>7 DEF FreeNumber, D, c
<1>9. \A n \in Nat : \A m \in c..c + n : m \in Nat
  BY <1>2
<1>10. FreeNumber(l, t) \in Nat
  BY <1>2, <1>8, <1>9
<1> QED
  BY <1>8, <1>10 DEF D

-----------------------------------------------------------------------------
(* What depends on nothing but the input: the name a label gives a local   *)
(* net, and sets of local nets from which no name leads out.               *)
NameIn(i, l, label) ==
  <<IF i.flat[label.from_netattrib] THEN Flat ELSE i.namespace[l], label.name>>

ClosedIn(i, S) ==
  \A l \in S, m \in LocalNet :
    (\E x \in ToSet(i.labels[l]), y \in ToSet(i.labels[m]) : NameIn(i, l, x) = NameIn(i, m, y))
      => m \in S

LEMMA NameInInput == \A l, label : LabelName(l, label) = NameIn(input, l, label)
BY DEF LabelName, Mangled, NameIn

LEMMA ClosedInInput == \A S : Closed(S) <=> ClosedIn(input, S)
<1>1. \A l, m : NamesOf(l) \cap NamesOf(m) # {} <=>
        \E x \in ToSet(input.labels[l]), y \in ToSet(input.labels[m]) :
          NameIn(input, l, x) = NameIn(input, m, y)
  BY NameInInput DEF NamesOf
<1> QED
  BY <1>1 DEF Closed, ClosedIn

(* Whether names come from net= attributes.                                *)
Kind == BOOLEAN

MangledName == (Namespace \cup {Flat}) \X Name

(* The types of an input.                                                  *)
LEMMA InputTyped ==
  ASSUME NEW i \in Input
  PROVE  /\ i.labels \in [LocalNet -> Seq(Label)]
         /\ i.pin_net \in [Pin -> LocalNet]
         /\ i.prefer \in BOOLEAN
         /\ \A l \in LocalNet : \A label \in ToSet(i.labels[l]) :
              label.from_netattrib \in Kind /\ NameIn(i, l, label) \in MangledName
<1>1. i \in InputType
  BY NetGroupingAssumption
<1>2. /\ i.labels \in [LocalNet -> Seq(Label)] /\ i.pin_net \in [Pin -> LocalNet]
      /\ i.prefer \in BOOLEAN /\ i.flat \in [BOOLEAN -> BOOLEAN]
      /\ i.namespace \in [LocalNet -> Namespace]
  BY <1>1 DEF InputType
<1>3. ASSUME NEW l \in LocalNet, NEW label \in ToSet(i.labels[l])
      PROVE  label.from_netattrib \in Kind /\ NameIn(i, l, label) \in MangledName
  <2>1. label \in Label
    BY <1>2 DEF ToSet
  <2>2. label.from_netattrib \in Kind /\ label.name \in Name
    BY <2>1 DEF Label, Kind
  <2> QED
    BY <1>2, <2>2 DEF NameIn, MangledName
<1> QED
  BY <1>2, <1>3

-----------------------------------------------------------------------------
(* The labels which have been handled, and the nets before they have been  *)
(* reordered.                                                              *)
Handled(l, i) ==
  /\ l \in LocalNet /\ i \in DOMAIN input.labels[l]
  /\ l < next_net \/ (l = next_net /\ i < next_label)

Prior == IF pc = "done" THEN DOMAIN chosen ELSE nets

Types ==
  /\ input \in Input
  /\ next_net \in 1..Cardinality(LocalNet) + 1 /\ next_label \in Nat \ {0}
  /\ made \in Nat /\ Prior \subseteq 1..made
  /\ net_of \in [LocalNet -> Prior \cup {None}]
  /\ local_nets \in [1..made -> SUBSET LocalNet]
  /\ names \in [1..made -> [Kind -> Seq(MangledName)]]
  /\ counter \in [{"unnamed_net", "unconnected_pin"} -> Nat]
  /\ next_pin \in 1..Cardinality(Pin) + 1 /\ (pc = "group" => next_pin = 1)
  /\ pc \in {"group", "name", "done"}

Members == \A n \in 1..made : local_nets[n] = {l \in LocalNet : net_of[l] = n}

(* Names lead to the nets which have them, and nets have names at first.   *)
Dictionary ==
  /\ IsFiniteSet(DOMAIN net_dict)
  /\ \A x \in DOMAIN net_dict : net_dict[x] \in Prior
  /\ \A n \in 1..made, b \in Kind : \A x \in ToSet(names[n][b]) :
       x \in DOMAIN net_dict /\ net_dict[x] = n
  /\ pc = "group" =>
       /\ \A x \in DOMAIN net_dict : \E b \in Kind : x \in ToSet(names[net_dict[x]][b])
       /\ \A n \in nets : \E b \in Kind : names[n][b] # <<>>

(* The names of a net are those which handled labels give its members.     *)
NamesGiven ==
  /\ \A l \in LocalNet : \A i \in DOMAIN input.labels[l] : Handled(l, i) =>
       LET label == input.labels[l][i]
       IN /\ net_of[l] # None
          /\ NameIn(input, l, label) \in ToSet(names[net_of[l]][label.from_netattrib])
  /\ \A n \in 1..made, b \in Kind : \A x \in ToSet(names[n][b]) :
       \E l \in LocalNet : /\ net_of[l] = n
                           /\ \E label \in ToSet(input.labels[l]) :
                                label.from_netattrib = b /\ NameIn(input, l, label) = x

(* Local nets which names don't connect are on different nets.             *)
Connected ==
  \A S \in SUBSET LocalNet : ClosedIn(input, S) =>
    \A l \in S, m \in LocalNet : net_of[l] # None /\ net_of[m] = net_of[l] => m \in S

(* Once nets get names, each has one which leads to it, and one of its own *)
(* if labels gave it any of the preferred kind.                            *)
Named ==
  pc # "group" =>
    /\ next_net \notin LocalNet
    /\ DOMAIN chosen = Prior
    /\ \A n \in Prior : /\ chosen[n] \in DOMAIN net_dict /\ net_dict[chosen[n]] = n
                        /\ names[n][~input.prefer] # <<>> =>
                             chosen[n] \in ToSet(names[n][~input.prefer])
    /\ \A p \in Pin : p < next_pin => net_of[input.pin_net[p]] # None

Kept == pc = "done" => next_pin \notin Pin /\ nets = {net_of[input.pin_net[p]] : p \in Pin}

GroupInv == Types /\ Members /\ Dictionary /\ NamesGiven /\ Connected /\ Named /\ Kept

(* The last element of a list is one of its elements.                      *)
LEMMA LastIn ==
  ASSUME NEW T, NEW s \in Seq(T), s # <<>>
  PROVE  Last(s) \in ToSet(s)
<1>1. Len(s) \in DOMAIN s
  OBVIOUS
<1> QED
  BY <1>1 DEF Last, ToSet

LEMMA Counts ==
  /\ Cardinality(LocalNet) \in Nat /\ LocalNet = 1..Cardinality(LocalNet)
  /\ Cardinality(Pin) \in Nat /\ Pin = 1..Cardinality(Pin)
  /\ None \notin Nat
BY NetGroupingAssumption, FS_CardinalityType

LEMMA BooleanCases ==
  ASSUME NEW b \in BOOLEAN
  PROVE  /\ (~b) \in Kind /\ (~~b) \in Kind
         /\ \A c \in Kind : c = (~b) \/ c = (~~b)
<1>1. CASE b = TRUE
  BY <1>1 DEF Kind
<1>2. CASE b = FALSE
  BY <1>2 DEF Kind
<1> QED
  BY <1>1, <1>2

(* In the beginning there are no nets.                                     *)
LEMMA InvInit == Init => GroupInv
<1> SUFFICES ASSUME Init PROVE GroupInv
  OBVIOUS
<1> USE DEF Init, Prior
<1>1. Types
  BY Counts DEF Types
<1>2. Members
  BY Counts DEF Members
<1>3. Dictionary
  BY FS_EmptySet DEF Dictionary
<1>4. NamesGiven
  <2>1. ASSUME NEW l \in LocalNet, NEW i \in DOMAIN input.labels[l] PROVE ~Handled(l, i)
    <3>1. input.labels[l] \in Seq(Label)
      BY InputTyped
    <3>2. l \in Nat /\ l >= 1 /\ i \in Nat /\ i >= 1
      BY <3>1, Counts
    <3> QED
      BY <3>2 DEF Handled
  <2> QED
    BY <2>1 DEF NamesGiven
<1>5. Connected
  BY DEF Connected
<1>6. Named /\ Kept
  BY DEF Named, Kept
<1> QED
  BY <1>1, <1>2, <1>3, <1>4, <1>5, <1>6 DEF GroupInv

(* All labels of the local net have been handled.                          *)
LEMMA InvNextLocalNet == GroupInv /\ NextLocalNet => GroupInv'
<1> SUFFICES ASSUME GroupInv, NextLocalNet PROVE GroupInv'
  OBVIOUS
<1> USE DEF GroupInv, NextLocalNet, group, naming, Prior
<1>1. Types'
  BY Counts DEF Types
<1>2. Members' /\ Dictionary' /\ Connected'
  BY DEF Members, Dictionary, Connected
<1>3. ASSUME NEW l \in LocalNet, NEW i \in DOMAIN input.labels[l], Handled(l, i)'
      PROVE  Handled(l, i)
  <2>1. input.labels[l] \in Seq(Label) /\ input.labels[next_net] \in Seq(Label)
    BY InputTyped DEF Types
  <2>2. /\ l \in Nat /\ next_net \in Nat /\ i \in Nat /\ i >= 1
        /\ next_label \in Nat /\ next_label >= 1
    <3>1. l \in Nat /\ next_net \in Nat
      BY Counts
    <3>2. i \in Nat /\ i >= 1
      BY <2>1
    <3> QED
      BY <3>1, <3>2 DEF Types
  <2>3. l <= next_net
    BY <1>3, <2>2 DEF Handled
  <2>4. CASE l = next_net
    BY <2>1, <2>2, <2>4 DEF Handled
  <2> QED
    BY <2>2, <2>3, <2>4 DEF Handled
<1>4. NamesGiven'
  BY <1>3 DEF NamesGiven
<1>5. Named' /\ Kept'
  BY DEF Named, Kept
<1> QED
  BY <1>1, <1>2, <1>4, <1>5

(* Each net gets one of its names.                                         *)
LEMMA InvPrioritize == GroupInv /\ Prioritize => GroupInv'
<1> SUFFICES ASSUME GroupInv, Prioritize PROVE GroupInv'
  OBVIOUS
<1> USE DEF GroupInv, Prioritize, group, position, Prior
<1>1. Types'
  BY DEF Types
<1>2. Members' /\ Dictionary' /\ Connected'
  BY DEF Members, Dictionary, Connected
<1>3. NamesGiven'
  BY DEF NamesGiven, Handled
<1>4. ASSUME NEW n \in nets
      PROVE  /\ chosen'[n] \in DOMAIN net_dict /\ net_dict[chosen'[n]] = n
             /\ names[n][~input.prefer] # <<>> => chosen'[n] \in ToSet(names[n][~input.prefer])
  <2> DEFINE prio == ~input.prefer
  <2>1. chosen'[n] = IF names[n][prio] = <<>> THEN Last(names[n][~prio]) ELSE Last(names[n][prio])
    BY DEF PreferredName
  <2>2. prio \in Kind /\ (~prio) \in Kind /\ \A b \in Kind : b = prio \/ b = (~prio)
    <3>1. input.prefer \in BOOLEAN
      BY InputTyped DEF Types
    <3> QED
      BY <3>1, BooleanCases
  <2>3. n \in 1..made /\ \A b \in Kind : names[n][b] \in Seq(MangledName)
    BY DEF Types
  <2> HIDE DEF prio
  <2>4. CASE names[n][prio] # <<>>
    <3>1. chosen'[n] \in ToSet(names[n][prio])
      BY <2>1, <2>2, <2>3, <2>4, LastIn
    <3> QED
      BY <2>2, <2>3, <3>1 DEF Dictionary, prio
  <2>5. CASE names[n][prio] = <<>>
    <3>1. names[n][~prio] # <<>>
      BY <2>2, <2>5 DEF Dictionary
    <3>2. chosen'[n] \in ToSet(names[n][~prio])
      BY <2>1, <2>2, <2>3, <2>5, <3>1, LastIn
    <3> QED
      BY <2>2, <2>3, <2>5, <3>2 DEF Dictionary, prio
  <2> QED
    BY <2>4, <2>5
<1>5. Named'
  <2>1. \A p \in Pin : ~(p < next_pin)
    BY Counts DEF Types
  <2> QED
    BY <1>4, <2>1 DEF Named
<1>6. Kept'
  BY DEF Kept
<1> QED
  BY <1>1, <1>2, <1>3, <1>5, <1>6

(* Only nets with pins are kept.                                           *)
LEMMA InvReorder == GroupInv /\ Reorder => GroupInv'
<1> SUFFICES ASSUME GroupInv, Reorder PROVE GroupInv'
  OBVIOUS
<1> USE DEF GroupInv, Reorder, naming, position
<1>1. Prior' = Prior
  BY DEF Named, Prior
<1>2. Types'
  BY <1>1 DEF Types
<1>3. Members' /\ Connected' /\ Dictionary'
  BY <1>1 DEF Members, Connected, Dictionary
<1>4. NamesGiven'
  BY DEF NamesGiven, Handled
<1>5. Named'
  BY <1>1 DEF Named
<1>6. Kept'
  BY DEF Kept
<1> QED
  BY <1>2, <1>3, <1>4, <1>5, <1>6

-----------------------------------------------------------------------------
(* A new net has no names.                                                 *)
LEMMA NoNamesSet == /\ NoNames \in [Kind -> Seq(MangledName)]
                    /\ \A b \in Kind : NoNames[b] = <<>> /\ ToSet(NoNames[b]) = {}
BY DEF NoNames, ToSet, Kind

(* The local net of a pin has a net already.                               *)
LEMMA InvNamePinKnown ==
  ASSUME GroupInv, NamePin, net_of[input.pin_net[next_pin]] # None
  PROVE  GroupInv'
<1> USE DEF GroupInv, NamePin, Prior
<1>1. UNCHANGED <<input, position, group, naming, pc>> /\ next_pin' = next_pin + 1 /\ pc = "name"
  OBVIOUS
<1> USE DEF position, group, naming
<1>2. Types'
  <2>1. next_pin' \in 1..Cardinality(Pin) + 1
    BY Counts
  <2> QED
    BY <1>1, <2>1 DEF Types
<1>3. Members' /\ Dictionary' /\ Connected' /\ Kept'
  BY <1>1 DEF Members, Dictionary, Connected, Kept
<1>4. NamesGiven'
  BY <1>1 DEF NamesGiven, Handled
<1>5. Named'
  <2>1. \A p \in Pin : p < next_pin + 1 => p < next_pin \/ p = next_pin
    BY Counts
  <2> QED
    BY <1>1, <2>1 DEF Named
<1> QED
  BY <1>2, <1>3, <1>4, <1>5

(* The local net gets a net of its own, and the net a name.                *)
LEMMA InvNamePinNew ==
  ASSUME GroupInv, NamePin, net_of[input.pin_net[next_pin]] = None
  PROVE  GroupInv'
<1> DEFINE l == input.pin_net[next_pin]
           t == IF LonelyPin(l) THEN "unconnected_pin" ELSE "unnamed_net"
           k == FreeNumber(l, t)
           n == made + 1
           name == Mangled(l, FALSE, <<t, k>>)
<1> USE DEF GroupInv
<1>1. /\ pc = "name" /\ next_pin \in Pin /\ next_pin' = next_pin + 1
      /\ made' = n /\ nets' = nets \cup {n}
      /\ net_of' = [net_of EXCEPT ![l] = n]
      /\ local_nets' = Put(local_nets, n, {l})
      /\ names' = Put(names, n, NoNames)
      /\ counter' = [counter EXCEPT ![t] = k + 1]
      /\ chosen' = Put(chosen, n, name)
      /\ net_dict' = Put(net_dict, name, n)
      /\ UNCHANGED <<input, next_net, next_label, pc>>
  BY DEF NamePin, position
<1>2. l \in LocalNet /\ net_of[l] = None
  BY <1>1, InputTyped DEF Types
<1>3. t \in {"unnamed_net", "unconnected_pin"} /\ counter[t] \in Nat
  BY DEF Types
<1>4. k \in Nat /\ name \notin DOMAIN net_dict
  BY <1>3, FreeNumberIsFree DEF Dictionary
<1>5. /\ made \in Nat /\ nets \subseteq 1..made /\ n \notin 1..made /\ n # None
      /\ Prior = nets /\ Prior' = nets \cup {n}
      /\ 1..made' = 1..made \cup {n} /\ None \notin 1..made
  BY <1>1, Counts DEF Types, Prior
<1>6. next_pin' \in 1..Cardinality(Pin) + 1
  BY <1>1, Counts
<1> HIDE DEF l, t, k, n, name
<1>7. net_of \in [LocalNet -> nets \cup {None}] /\ DOMAIN names = 1..made
  BY <1>5 DEF Types
<1>8. /\ net_of'[l] = n
      /\ \A m \in LocalNet : m # l => net_of'[m] = net_of[m]
      /\ \A m \in LocalNet : net_of[m] # n /\ (net_of[m] # None => net_of[m] \in 1..made)
  BY <1>1, <1>2, <1>5, <1>7
<1>9. /\ local_nets' \in [1..made' -> SUBSET LocalNet]
      /\ local_nets'[n] = {l}
      /\ \A m \in 1..made : local_nets'[m] = local_nets[m]
  <2> DEFINE T == SUBSET LocalNet
             f == Put(local_nets, made + 1, {l})
  <2>1. local_nets \in [1..made -> T] /\ {l} \in T
    BY <1>2 DEF Types
  <2> HIDE DEF T
  <2>2. /\ f \in [1..made + 1 -> T] /\ f[made + 1] = {l}
        /\ \A m \in 1..made : f[m] = local_nets[m]
    BY <1>5, <2>1 DEF Put
  <2>3. local_nets' = f /\ made' = made + 1 /\ n = made + 1
    BY <1>1 DEF n
  <2> HIDE DEF f
  <2> QED
    BY <2>2, <2>3 DEF T
<1>10. /\ names' \in [1..made' -> [Kind -> Seq(MangledName)]]
       /\ names'[n] = NoNames
       /\ \A m \in 1..made : names'[m] = names[m]
  <2> DEFINE T == [Kind -> Seq(MangledName)]
             f == Put(names, made + 1, NoNames)
  <2>1. names \in [1..made -> T] /\ NoNames \in T
    BY NoNamesSet DEF Types
  <2> HIDE DEF T
  <2>2. /\ f \in [1..made + 1 -> T] /\ f[made + 1] = NoNames
        /\ \A m \in 1..made : f[m] = names[m]
    BY <1>5, <2>1 DEF Put
  <2>3. names' = f /\ made' = made + 1 /\ n = made + 1
    BY <1>1 DEF n
  <2> HIDE DEF f
  <2> QED
    BY <2>2, <2>3 DEF T
<1>11. /\ DOMAIN net_dict' = DOMAIN net_dict \cup {name}
       /\ net_dict'[name] = n
       /\ \A x \in DOMAIN net_dict : net_dict'[x] = net_dict[x]
  BY <1>1, <1>4 DEF Put
<1>12. /\ DOMAIN chosen = nets
       /\ DOMAIN chosen' = nets \cup {n}
       /\ chosen'[n] = name
       /\ \A m \in nets : chosen'[m] = chosen[m]
  BY <1>1, <1>5 DEF Named, Put
<1>13. Types'
  <2>1. net_of' \in [LocalNet -> Prior' \cup {None}]
    BY <1>1, <1>5, <1>7
  <2>2. counter' \in [{"unnamed_net", "unconnected_pin"} -> Nat]
    BY <1>1, <1>3, <1>4 DEF Types
  <2>3. made' \in Nat /\ Prior' \subseteq 1..made'
    BY <1>1, <1>5 DEF n
  <2> QED
    BY <1>1, <1>6, <1>9, <1>10, <2>1, <2>2, <2>3 DEF Types
<1>14. Members'
  <2> SUFFICES ASSUME NEW m \in 1..made' PROVE local_nets'[m] = {j \in LocalNet : net_of'[j] = m}
    BY DEF Members
  <2>1. CASE m = n
    BY <1>2, <1>8, <1>9, <2>1
  <2>2. CASE m \in 1..made
    BY <1>2, <1>5, <1>8, <1>9, <2>2 DEF Members
  <2> QED
    BY <1>5, <2>1, <2>2
<1>15. Dictionary'
  <2>1. IsFiniteSet(DOMAIN net_dict')
    BY <1>11, FS_AddElement DEF Dictionary
  <2>2. \A x \in DOMAIN net_dict' : net_dict'[x] \in Prior'
    BY <1>5, <1>11 DEF Dictionary
  <2>3. ASSUME NEW m \in 1..made', NEW b \in Kind, NEW x \in ToSet(names'[m][b])
        PROVE  x \in DOMAIN net_dict' /\ net_dict'[x] = m
    <3>1. m \in 1..made /\ x \in ToSet(names[m][b])
      BY <1>5, <1>10, <2>3, NoNamesSet
    <3> QED
      BY <1>11, <3>1 DEF Dictionary
  <2> QED
    BY <1>1, <2>1, <2>2, <2>3 DEF Dictionary
<1>16. NamesGiven'
  <2>1. ASSUME NEW j \in LocalNet, NEW i \in DOMAIN input.labels[j], Handled(j, i)
        PROVE  /\ net_of'[j] # None
               /\ NameIn(input, j, input.labels[j][i]) \in
                    ToSet(names'[net_of'[j]][input.labels[j][i].from_netattrib])
    BY <1>2, <1>8, <1>10, <2>1 DEF NamesGiven
  <2>2. ASSUME NEW m \in 1..made', NEW b \in Kind, NEW x \in ToSet(names'[m][b])
        PROVE  \E j \in LocalNet : /\ net_of'[j] = m
                                   /\ \E label \in ToSet(input.labels[j]) :
                                        label.from_netattrib = b /\ NameIn(input, j, label) = x
    <3>1. m \in 1..made /\ x \in ToSet(names[m][b])
      BY <1>5, <1>10, <2>2, NoNamesSet
    <3> QED
      BY <1>2, <1>5, <1>8, <3>1 DEF NamesGiven
  <2>3. \A j, i : Handled(j, i)' = Handled(j, i)
    BY <1>1 DEF Handled
  <2> QED
    BY <1>1, <2>1, <2>2, <2>3 DEF NamesGiven
<1>17. Connected'
  <2> SUFFICES ASSUME NEW S \in SUBSET LocalNet, ClosedIn(input, S), NEW j \in S, NEW m \in LocalNet,
                      net_of'[j] # None, net_of'[m] = net_of'[j]
               PROVE  m \in S
    BY <1>1 DEF Connected
  <2>1. CASE j = l
    BY <1>8, <2>1
  <2>2. CASE j # l
    BY <1>8, <2>2 DEF Connected
  <2> QED
    BY <2>1, <2>2
<1>18. Named'
  <2>1. \A p \in Pin : p < next_pin + 1 => p < next_pin \/ p = next_pin
    BY <1>1, Counts
  <2>2. \A p \in Pin : input.pin_net[p] \in LocalNet
    BY InputTyped DEF Types
  <2>3. \A p \in Pin : p < next_pin' => net_of'[input.pin_net[p]] # None
    BY <1>1, <1>5, <1>8, <2>1, <2>2 DEF Named, l
  <2>4. ASSUME NEW m \in nets \cup {n}
        PROVE  /\ chosen'[m] \in DOMAIN net_dict' /\ net_dict'[chosen'[m]] = m
               /\ names'[m][~input.prefer] # <<>> => chosen'[m] \in ToSet(names'[m][~input.prefer])
    <3> DEFINE prio == ~input.prefer
    <3>1. prio \in Kind
      BY InputTyped, BooleanCases DEF Types
    <3>2. m \in nets => /\ chosen[m] \in DOMAIN net_dict /\ net_dict[chosen[m]] = m
                        /\ names[m][prio] # <<>> => chosen[m] \in ToSet(names[m][prio])
      BY <1>1, <1>5 DEF Named
    <3> HIDE DEF prio
    <3>3. CASE m = n
      BY <1>10, <1>11, <1>12, <3>1, <3>3, NoNamesSet DEF prio
    <3>4. CASE m \in nets
      <4>1. names'[m] = names[m] /\ chosen'[m] = chosen[m]
        BY <1>5, <1>10, <1>12, <3>4
      <4>2. /\ chosen'[m] \in DOMAIN net_dict' /\ net_dict'[chosen'[m]] = m
            /\ names'[m][prio] # <<>> => chosen'[m] \in ToSet(names'[m][prio])
        BY <1>11, <3>2, <3>4, <4>1
      <4> QED
        BY <4>2 DEF prio
    <3> QED
      BY <3>3, <3>4
  <2> QED
    BY <1>1, <1>5, <1>12, <2>3, <2>4 DEF Named
<1> QED
  BY <1>1, <1>13, <1>14, <1>15, <1>16, <1>17, <1>18 DEF Kept

-----------------------------------------------------------------------------
(* The label which is handled next, and what the net found or made for it  *)
(* makes of nets, names and net_dict before local nets are moved.          *)
ThisLabel == input.labels[next_net][next_label]
ThisName == LabelName(next_net, ThisLabel)
Known == ThisName \in DOMAIN net_dict
ThisNet == IF Known THEN net_dict[ThisName] ELSE made + 1
MadeWith == IF Known THEN made ELSE ThisNet
MembersWith == IF Known THEN local_nets ELSE Put(local_nets, ThisNet, {})
OldNames == IF Known THEN names ELSE Put(names, ThisNet, NoNames)
NamesWith ==
  [OldNames EXCEPT ![ThisNet][ThisLabel.from_netattrib] = AppendNew(@, <<ThisName>>)]
DictWith == Put(net_dict, ThisName, ThisNet)

CanHandle ==
  /\ GroupInv
  /\ pc = "group" /\ next_net \in LocalNet /\ next_label \in DOMAIN input.labels[next_net]

(* The label is one of the local net's.                                    *)
LEMMA LabelTyped ==
  ASSUME CanHandle
  PROVE  /\ ThisLabel \in ToSet(input.labels[next_net])
         /\ ThisLabel.from_netattrib \in Kind
         /\ ThisName = NameIn(input, next_net, ThisLabel) /\ ThisName \in MangledName
<1>1. input \in Input /\ ThisLabel \in ToSet(input.labels[next_net])
  BY DEF CanHandle, GroupInv, Types, ThisLabel, ToSet
<1>2. ThisName = NameIn(input, next_net, ThisLabel)
  BY NameInInput DEF ThisName
<1> QED
  BY <1>1, <1>2, InputTyped DEF CanHandle

(* The net is one of the list, or it is a new one.                         *)
LEMMA NetTyped ==
  ASSUME CanHandle
  PROVE  /\ made \in Nat /\ nets \subseteq 1..made /\ Prior = nets
         /\ MadeWith \in Nat /\ 1..MadeWith = 1..made \cup {ThisNet}
         /\ Known => ThisNet \in nets
         /\ ~Known => ThisNet = made + 1 /\ MadeWith = made + 1 /\ ThisNet \notin 1..made
         /\ ThisNet \in Nat /\ None \notin 1..MadeWith
<1>1. made \in Nat /\ nets \subseteq 1..made /\ Prior = nets
  BY DEF CanHandle, GroupInv, Types, Prior
<1>2. CASE Known
  <2>1. ThisNet \in nets /\ MadeWith = made
    BY <1>1, <1>2 DEF CanHandle, GroupInv, Dictionary, ThisNet, MadeWith, Known
  <2> QED
    BY <1>1, <1>2, <2>1, Counts
<1>3. CASE ~Known
  <2>1. ThisNet = made + 1 /\ MadeWith = made + 1
    BY <1>3 DEF ThisNet, MadeWith
  <2> QED
    BY <1>1, <1>3, <2>1, Counts
<1> QED
  BY <1>2, <1>3

(* Its members are still the same.                                         *)
LEMMA MembersKept ==
  ASSUME CanHandle
  PROVE  /\ MembersWith \in [1..MadeWith -> SUBSET LocalNet]
         /\ \A n \in 1..MadeWith : MembersWith[n] = {l \in LocalNet : net_of[l] = n}
<1>1. local_nets \in [1..made -> SUBSET LocalNet] /\ net_of \in [LocalNet -> nets \cup {None}]
  BY NetTyped DEF CanHandle, GroupInv, Types
<1>2. \A n \in 1..made : local_nets[n] = {l \in LocalNet : net_of[l] = n}
  BY DEF CanHandle, GroupInv, Members
<1>3. CASE Known
  BY <1>1, <1>2, <1>3, NetTyped DEF MembersWith, MadeWith
<1>4. CASE ~Known
  <2>1. MembersWith = Put(local_nets, ThisNet, {})
    BY <1>4 DEF MembersWith
  <2>2. DOMAIN local_nets = 1..made
    BY <1>1
  <2>3. /\ DOMAIN MembersWith = 1..MadeWith
        /\ MembersWith[ThisNet] = {}
        /\ \A n \in 1..made : MembersWith[n] = local_nets[n]
    BY <1>4, <2>1, <2>2, NetTyped DEF Put
  <2>4. MembersWith \in [1..MadeWith -> SUBSET LocalNet]
    <3>1. MembersWith = [n \in DOMAIN MembersWith |-> MembersWith[n]]
      BY <2>1 DEF Put
    <3>2. \A n \in 1..MadeWith : MembersWith[n] \in SUBSET LocalNet
      BY <1>1, <2>3, NetTyped
    <3> QED
      BY <2>3, <3>1, <3>2
  <2>5. \A l \in LocalNet : net_of[l] # ThisNet
    BY <1>1, <1>4, NetTyped
  <2> QED
    BY <1>2, <2>3, <2>4, <2>5, NetTyped
<1> QED
  BY <1>3, <1>4

(* It has the name, besides the names it had.                              *)
LEMMA NamesAdded ==
  ASSUME CanHandle
  PROVE  /\ NamesWith \in [1..MadeWith -> [Kind -> Seq(MangledName)]]
         /\ ThisName \in ToSet(NamesWith[ThisNet][ThisLabel.from_netattrib])
         /\ \A n \in 1..made, b \in Kind : ToSet(names[n][b]) \subseteq ToSet(NamesWith[n][b])
         /\ \A n \in 1..MadeWith, b \in Kind : \A x \in ToSet(NamesWith[n][b]) :
              \/ n \in 1..made /\ x \in ToSet(names[n][b])
              \/ n = ThisNet /\ b = ThisLabel.from_netattrib /\ x = ThisName
<1> DEFINE T == [Kind -> Seq(MangledName)]
           kind == ThisLabel.from_netattrib
<1>1. names \in [1..made -> T]
  BY DEF CanHandle, GroupInv, Types
<1>2. NoNames \in T
  BY NoNamesSet
<1>3. kind \in Kind /\ ThisName \in MangledName
  BY LabelTyped
<1>4. ThisNet \in 1..MadeWith /\ 1..made \subseteq 1..MadeWith
  BY NetTyped
<1>5. /\ OldNames \in [1..MadeWith -> T]
      /\ \A n \in 1..made : OldNames[n] = names[n]
      /\ \A n \in 1..MadeWith : n \notin 1..made => OldNames[n] = NoNames
  <2> HIDE DEF T
  <2>1. CASE Known
    BY <1>1, <2>1, NetTyped DEF OldNames, MadeWith
  <2>2. CASE ~Known
    <3>1. OldNames = [n \in 1..MadeWith |-> IF n = ThisNet THEN NoNames ELSE names[n]]
      BY <1>1, <2>2, NetTyped DEF OldNames, Put
    <3> QED
      BY <1>1, <1>2, <2>2, <3>1, NetTyped
  <2> QED
    BY <2>1, <2>2
<1> DEFINE old == OldNames[ThisNet][kind]
           new == AppendNew(old, <<ThisName>>)
<1>6. old \in Seq(MangledName) /\ <<ThisName>> \in Seq(MangledName)
  BY <1>3, <1>4, <1>5
<1>7. new \in Seq(MangledName) /\ ToSet(new) = ToSet(old) \cup {ThisName}
  <2> DEFINE t == <<ThisName>>
  <2>1. ToSet(t) = {ThisName}
    BY DEF ToSet
  <2>2. old \in Seq(MangledName) /\ t \in Seq(MangledName)
    BY <1>6
  <2> HIDE DEF old, t
  <2>3. AppendNew(old, t) \in Seq(MangledName)
        /\ ToSet(AppendNew(old, t)) = ToSet(old) \cup {ThisName}
    BY <2>1, <2>2, AppendNewSet
  <2> QED
    BY <2>3 DEF t
<1>8. NamesWith = [OldNames EXCEPT ![ThisNet] = [@ EXCEPT ![kind] = new]]
  BY <1>4, <1>5 DEF NamesWith
<1> HIDE DEF new, old, kind
<1>9. /\ NamesWith \in [1..MadeWith -> T]
      /\ NamesWith[ThisNet][kind] = new
      /\ \A n \in 1..MadeWith, b \in Kind :
           ~(n = ThisNet /\ b = kind) => NamesWith[n][b] = OldNames[n][b]
  BY <1>3, <1>4, <1>5, <1>7, <1>8
<1>10. \A n \in 1..MadeWith, b \in Kind :
         ToSet(OldNames[n][b]) = IF n \in 1..made THEN ToSet(names[n][b]) ELSE {}
  BY <1>5, NoNamesSet
<1>11. \A n \in 1..MadeWith, b \in Kind :
         ToSet(NamesWith[n][b]) =
           IF n = ThisNet /\ b = kind THEN ToSet(OldNames[n][b]) \cup {ThisName}
           ELSE ToSet(OldNames[n][b])
  <2> SUFFICES ASSUME NEW n \in 1..MadeWith, NEW b \in Kind
               PROVE  ToSet(NamesWith[n][b]) =
                        IF n = ThisNet /\ b = kind THEN ToSet(OldNames[n][b]) \cup {ThisName}
                        ELSE ToSet(OldNames[n][b])
    OBVIOUS
  <2>1. CASE n = ThisNet /\ b = kind
    BY <1>7, <1>9, <2>1 DEF old
  <2>2. CASE ~(n = ThisNet /\ b = kind)
    BY <1>9, <2>2
  <2> QED
    BY <2>1, <2>2
<1>12. ThisName \in ToSet(NamesWith[ThisNet][kind])
  BY <1>3, <1>4, <1>11
<1>13. ASSUME NEW n \in 1..made, NEW b \in Kind
       PROVE  ToSet(names[n][b]) \subseteq ToSet(NamesWith[n][b])
  <2>1. ToSet(OldNames[n][b]) = ToSet(names[n][b])
    BY <1>4, <1>10
  <2>2. ToSet(OldNames[n][b]) \subseteq ToSet(NamesWith[n][b])
    BY <1>4, <1>11
  <2> QED
    BY <2>1, <2>2
<1>14. \A n \in 1..MadeWith, b \in Kind : \A x \in ToSet(NamesWith[n][b]) :
         \/ n \in 1..made /\ x \in ToSet(names[n][b])
         \/ n = ThisNet /\ b = kind /\ x = ThisName
  <2> SUFFICES ASSUME NEW n \in 1..MadeWith, NEW b \in Kind, NEW x \in ToSet(NamesWith[n][b])
               PROVE  \/ n \in 1..made /\ x \in ToSet(names[n][b])
                      \/ n = ThisNet /\ b = kind /\ x = ThisName
    OBVIOUS
  <2>1. x \in ToSet(OldNames[n][b]) \/ (n = ThisNet /\ b = kind /\ x = ThisName)
    BY <1>11
  <2>2. x \in ToSet(OldNames[n][b]) => n \in 1..made /\ x \in ToSet(names[n][b])
    BY <1>10
  <2> QED
    BY <2>1, <2>2
<1> QED
  BY <1>9, <1>12, <1>13, <1>14 DEF kind

(* The dictionary leads to it, and to the other nets as before.            *)
LEMMA DictionaryWith ==
  ASSUME CanHandle
  PROVE  /\ IsFiniteSet(DOMAIN DictWith)
         /\ \A x \in DOMAIN DictWith : DictWith[x] \in nets \cup {ThisNet}
         /\ \A x \in DOMAIN DictWith : \E b \in Kind : x \in ToSet(NamesWith[DictWith[x]][b])
         /\ \A n \in 1..MadeWith, b \in Kind : \A x \in ToSet(NamesWith[n][b]) :
              x \in DOMAIN DictWith /\ DictWith[x] = n
         /\ \A n \in nets \cup {ThisNet} : \E b \in Kind : ToSet(NamesWith[n][b]) # {}
<1>1. /\ DOMAIN DictWith = DOMAIN net_dict \cup {ThisName}
      /\ DictWith[ThisName] = ThisNet
      /\ \A x \in DOMAIN net_dict : x # ThisName => DictWith[x] = net_dict[x]
  BY DEF DictWith, Put
<1>2. \A x \in DOMAIN net_dict : DictWith[x] = net_dict[x]
  BY <1>1 DEF ThisNet, Known
<1>3. /\ \A x \in DOMAIN net_dict : net_dict[x] \in nets
      /\ \A x \in DOMAIN net_dict : \E b \in Kind : x \in ToSet(names[net_dict[x]][b])
      /\ \A n \in 1..made, b \in Kind : \A x \in ToSet(names[n][b]) :
           x \in DOMAIN net_dict /\ net_dict[x] = n
      /\ \A n \in nets : \E b \in Kind : names[n][b] # <<>>
  BY NetTyped DEF CanHandle, GroupInv, Dictionary
<1>4. IsFiniteSet(DOMAIN DictWith)
  BY <1>1, FS_AddElement DEF CanHandle, GroupInv, Dictionary
<1>5. \A x \in DOMAIN DictWith : DictWith[x] \in nets \cup {ThisNet}
  BY <1>1, <1>2, <1>3
<1>6. ASSUME NEW x \in DOMAIN DictWith
      PROVE  \E b \in Kind : x \in ToSet(NamesWith[DictWith[x]][b])
  <2>1. CASE x = ThisName
    BY <1>1, <2>1, LabelTyped, NamesAdded
  <2>2. CASE x \in DOMAIN net_dict
    BY <1>2, <1>3, <2>2, NetTyped, NamesAdded
  <2> QED
    BY <1>1, <2>1, <2>2
<1>7. ASSUME NEW n \in 1..MadeWith, NEW b \in Kind, NEW x \in ToSet(NamesWith[n][b])
      PROVE  x \in DOMAIN DictWith /\ DictWith[x] = n
  <2>1. CASE n \in 1..made /\ x \in ToSet(names[n][b])
    BY <1>1, <1>2, <1>3, <2>1
  <2>2. CASE n = ThisNet /\ x = ThisName
    BY <1>1, <2>2
  <2>3. \/ n \in 1..made /\ x \in ToSet(names[n][b])
        \/ n = ThisNet /\ b = ThisLabel.from_netattrib /\ x = ThisName
    BY NamesAdded, Zenon
  <2> QED
    BY <2>1, <2>2, <2>3
<1>8. ASSUME NEW n \in nets \cup {ThisNet}
      PROVE  \E b \in Kind : ToSet(NamesWith[n][b]) # {}
  <2>1. CASE n = ThisNet
    BY <2>1, LabelTyped, NamesAdded
  <2>2. CASE n \in nets
    <3>1. PICK b \in Kind : names[n][b] # <<>>
      BY <1>3, <2>2
    <3>2. n \in 1..made /\ names[n][b] \in Seq(MangledName)
      BY <2>2, NetTyped DEF CanHandle, GroupInv, Types
    <3>3. Last(names[n][b]) \in ToSet(names[n][b])
      BY <3>1, <3>2, LastIn
    <3> QED
      BY <3>2, <3>3, NamesAdded
  <2> QED
    BY <2>1, <2>2
<1> QED
  BY <1>4, <1>5, <1>6, <1>7, <1>8

(* The name connects its members with the local net.                       *)
LEMMA MembersConnected ==
  ASSUME CanHandle, NEW S \in SUBSET LocalNet, ClosedIn(input, S),
         NEW m \in LocalNet, net_of[m] = ThisNet
  PROVE  m \in S <=> next_net \in S
<1>1. /\ net_of \in [LocalNet -> nets \cup {None}] /\ next_net \in LocalNet
  BY NetTyped DEF CanHandle, GroupInv, Types
<1>2. Known
  BY <1>1, NetTyped
<1>3. ThisNet = net_dict[ThisName] /\ ThisName \in DOMAIN net_dict /\ ThisNet \in 1..made
  BY <1>2, NetTyped DEF Known, ThisNet
<1>4. PICK b \in Kind : ThisName \in ToSet(names[ThisNet][b])
  BY <1>3 DEF CanHandle, GroupInv, Dictionary
<1>5. PICK l \in LocalNet : /\ net_of[l] = ThisNet
                            /\ \E label \in ToSet(input.labels[l]) :
                                 NameIn(input, l, label) = ThisName
  BY <1>3, <1>4 DEF CanHandle, GroupInv, NamesGiven
<1>6. l \in S <=> next_net \in S
  BY <1>1, <1>5, LabelTyped DEF ClosedIn
<1>7. ThisNet # None
  BY <1>3, NetTyped
<1>8. m \in S <=> l \in S
  BY <1>5, <1>7 DEF CanHandle, GroupInv, Connected
<1> QED
  BY <1>6, <1>8

(* Nothing but this label has been handled when it has been.               *)
LEMMA HandledNext ==
  ASSUME CanHandle, next_label' = next_label + 1, UNCHANGED <<input, next_net>>,
         NEW l, NEW i, Handled(l, i)'
  PROVE  Handled(l, i) \/ (l = next_net /\ i = next_label)
<1>1. l \in LocalNet /\ i \in DOMAIN input.labels[l]
  BY DEF Handled
<1>2. input.labels[l] \in Seq(Label)
  BY <1>1, InputTyped DEF CanHandle, GroupInv, Types
<1>3. i \in Nat
  BY <1>1, <1>2
<1>4. next_label \in Nat
  BY DEF CanHandle, GroupInv, Types
<1> QED
  BY <1>1, <1>3, <1>4 DEF Handled

-----------------------------------------------------------------------------
(* What a step which handles a label does besides joining nets.            *)
Handling ==
  /\ CanHandle
  /\ made' = MadeWith /\ next_label' = next_label + 1
  /\ UNCHANGED <<input, next_net, chosen, counter, pc, next_pin>>

Joining == Join(next_net, ThisNet, nets \cup {ThisNet}, MembersWith, NamesWith, DictWith)

LEMMA HandleStep == GroupInv /\ HandleLabel => Handling /\ Joining
BY Zenon DEF HandleLabel, Handling, Joining, CanHandle, naming, ThisLabel, ThisName, Known, ThisNet,
             MadeWith, MembersWith, OldNames, NamesWith, DictWith

(* Types which don't depend on how nets are joined.                        *)
LEMMA HandlingTyped ==
  ASSUME Handling
  PROVE  /\ input' \in Input /\ next_net' \in 1..Cardinality(LocalNet) + 1
         /\ next_label' \in Nat \ {0}
         /\ made' \in Nat /\ pc = "group" /\ pc' = pc
         /\ counter' \in [{"unnamed_net", "unconnected_pin"} -> Nat]
         /\ next_pin' = next_pin /\ next_pin = 1 /\ next_pin \in 1..Cardinality(Pin) + 1
         /\ Prior' = nets'
BY NetTyped DEF Handling, CanHandle, GroupInv, Types, Prior

(* The local net joins the net which has the name.                         *)
LEMMA InvJoin ==
  ASSUME Handling, Joining, net_of[next_net] \in {ThisNet, None}
  PROVE  GroupInv'
<1>1. /\ net_of' = [net_of EXCEPT ![next_net] = ThisNet]
      /\ local_nets' = [MembersWith EXCEPT ![ThisNet] = @ \cup {next_net}]
      /\ nets' = nets \cup {ThisNet} /\ names' = NamesWith /\ net_dict' = DictWith
  BY DEF Joining, Join
<1>2. /\ CanHandle /\ made' = MadeWith /\ input' = input /\ next_net \in LocalNet
  BY DEF Handling, CanHandle
<1>3. net_of \in [LocalNet -> nets \cup {None}]
  BY <1>2, NetTyped DEF CanHandle, GroupInv, Types
<1>4. /\ nets' \subseteq 1..made' /\ ThisNet \in 1..made' /\ ThisNet # None
      /\ None \notin nets
  BY <1>1, <1>2, NetTyped
<1>5. /\ net_of' \in [LocalNet -> nets' \cup {None}]
      /\ net_of'[next_net] = ThisNet
      /\ \A l \in LocalNet : l # next_net => net_of'[l] = net_of[l]
      /\ \A l \in LocalNet : net_of[l] = ThisNet => net_of'[l] = ThisNet
  BY <1>1, <1>2, <1>3
<1>6. \A l \in LocalNet : net_of[l] # None => net_of'[l] = net_of[l]
  BY <1>5
<1>7. Types'
  <2>1. local_nets' \in [1..made' -> SUBSET LocalNet]
    BY <1>1, <1>2, <1>4, MembersKept
  <2>2. names' \in [1..made' -> [Kind -> Seq(MangledName)]]
    BY <1>1, <1>2, NamesAdded
  <2> QED
    BY <1>4, <1>5, <2>1, <2>2, HandlingTyped DEF Types
<1>8. Members'
  <2> SUFFICES ASSUME NEW n \in 1..made' PROVE local_nets'[n] = {l \in LocalNet : net_of'[l] = n}
    BY DEF Members
  <2>1. MembersWith[n] = {l \in LocalNet : net_of[l] = n}
    BY <1>2, MembersKept
  <2>2. local_nets'[n] = IF n = ThisNet THEN MembersWith[n] \cup {next_net} ELSE MembersWith[n]
    BY <1>1, <1>2, MembersKept
  <2>3. CASE n = ThisNet
    BY <1>2, <1>5, <2>1, <2>2, <2>3
  <2>4. CASE n # ThisNet
    <3>1. net_of[next_net] # n
      BY <1>2, <1>4, <2>4, NetTyped
    <3> QED
      BY <1>5, <2>1, <2>2, <2>4, <3>1
  <2> QED
    BY <2>3, <2>4
<1>9. Dictionary'
  <2>1. IsFiniteSet(DOMAIN net_dict')
    BY <1>1, <1>2, DictionaryWith
  <2>2. \A x \in DOMAIN net_dict' :
          net_dict'[x] \in nets' /\ \E b \in Kind : x \in ToSet(names'[net_dict'[x]][b])
    BY <1>1, <1>2, DictionaryWith
  <2>3. \A n \in 1..made', b \in Kind : \A x \in ToSet(names'[n][b]) :
          x \in DOMAIN net_dict' /\ net_dict'[x] = n
    BY <1>1, <1>2, DictionaryWith
  <2>4. ASSUME NEW n \in nets' PROVE \E b \in Kind : names'[n][b] # <<>>
    <3>1. \E b \in Kind : ToSet(NamesWith[n][b]) # {}
      BY <1>1, <1>2, DictionaryWith
    <3> QED
      BY <1>1, <3>1 DEF ToSet
  <2> QED
    BY <2>1, <2>2, <2>3, <2>4, HandlingTyped DEF Dictionary
<1>10. NamesGiven'
  <2>1. ASSUME NEW l \in LocalNet, NEW i \in DOMAIN input.labels[l], Handled(l, i)',
               NEW label, label = input.labels[l][i]
        PROVE  /\ net_of'[l] # None
               /\ NameIn(input, l, label) \in ToSet(names'[net_of'[l]][label.from_netattrib])
    <3>1. CASE Handled(l, i)
      <4>1. /\ net_of[l] # None
            /\ NameIn(input, l, label) \in ToSet(names[net_of[l]][label.from_netattrib])
        BY <1>2, <2>1, <3>1 DEF CanHandle, GroupInv, NamesGiven
      <4>2. net_of[l] \in 1..made
        BY <1>2, <1>3, <4>1, NetTyped
      <4>3. label \in ToSet(input.labels[l]) /\ input \in Input
        BY <1>2, <2>1 DEF ToSet, CanHandle, GroupInv, Types
      <4>4. label.from_netattrib \in Kind
        BY <4>3, InputTyped
      <4>5. NameIn(input, l, label) \in ToSet(NamesWith[net_of[l]][label.from_netattrib])
        BY <1>2, <4>1, <4>2, <4>4, NamesAdded
      <4> QED
        BY <1>1, <1>6, <4>1, <4>5
    <3>2. CASE l = next_net /\ i = next_label
      BY <1>1, <1>2, <1>4, <1>5, <2>1, <3>2, LabelTyped, NamesAdded DEF ThisLabel
    <3> QED
      BY <2>1, <3>1, <3>2, HandledNext DEF Handling
  <2>2. ASSUME NEW n \in 1..made', NEW b \in Kind, NEW x \in ToSet(names'[n][b])
        PROVE  \E l \in LocalNet : /\ net_of'[l] = n
                                   /\ \E label \in ToSet(input.labels[l]) :
                                        label.from_netattrib = b /\ NameIn(input, l, label) = x
    <3>1. CASE n \in 1..made /\ x \in ToSet(names[n][b])
      <4>1. PICK l \in LocalNet : /\ net_of[l] = n
                                  /\ \E label \in ToSet(input.labels[l]) :
                                       label.from_netattrib = b /\ NameIn(input, l, label) = x
        BY <1>2, <3>1 DEF CanHandle, GroupInv, NamesGiven
      <4>2. net_of'[l] = n
        BY <1>2, <1>6, <3>1, <4>1, NetTyped
      <4> QED
        BY <4>1, <4>2
    <3>2. CASE n = ThisNet /\ b = ThisLabel.from_netattrib /\ x = ThisName
      BY <1>2, <1>5, <3>2, LabelTyped
    <3>3. \/ n \in 1..made /\ x \in ToSet(names[n][b])
          \/ n = ThisNet /\ b = ThisLabel.from_netattrib /\ x = ThisName
      BY <1>1, <1>2, NamesAdded, Zenon
    <3> QED
      BY <3>1, <3>2, <3>3
  <2> QED
    BY <1>2, <2>1, <2>2 DEF NamesGiven
<1>11. Connected'
  <2> SUFFICES ASSUME NEW S \in SUBSET LocalNet, ClosedIn(input, S), NEW l \in S, NEW m \in LocalNet,
                      net_of'[l] # None, net_of'[m] = net_of'[l]
               PROVE  m \in S
    BY <1>2 DEF Connected
  <2>1. \A k \in LocalNet : net_of'[k] = ThisNet => (k \in S <=> next_net \in S)
    BY <1>2, <1>5, MembersConnected
  <2>2. CASE net_of'[l] = ThisNet
    BY <2>1, <2>2
  <2>3. CASE net_of'[l] # ThisNet
    <3>1. net_of[l] # None /\ net_of[m] = net_of[l]
      BY <1>5, <2>3
    <3> QED
      BY <1>2, <3>1 DEF CanHandle, GroupInv, Connected
  <2> QED
    BY <2>2, <2>3
<1>12. Named' /\ Kept'
  BY HandlingTyped DEF Named, Kept
<1> QED
  BY <1>7, <1>8, <1>9, <1>10, <1>11, <1>12 DEF GroupInv

(* Another net of which the local net is a member already is merged with   *)
(* the one which has the name.                                             *)
LEMMA InvMerge ==
  ASSUME Handling, Joining, net_of[next_net] \notin {ThisNet, None}
  PROVE  GroupInv'
<1> DEFINE old == net_of[next_net]
           dst == Min({old, ThisNet})
           src == Max({old, ThisNet})
<1>1. /\ net_dict' = Redirected(DictWith, NamesWith[src], dst)
      /\ net_of' = Merged(MembersWith[src], dst)
      /\ local_nets' = [MembersWith EXCEPT ![dst] = @ \cup MembersWith[src], ![src] = {}]
      /\ names' = [NamesWith EXCEPT
                     ![dst] = [b \in BOOLEAN |-> AppendNew(@[b], NamesWith[src][b])],
                     ![src] = NoNames]
      /\ nets' = (nets \cup {ThisNet}) \ {src}
  BY DEF Joining, Join
<1>2. /\ CanHandle /\ made' = MadeWith /\ input' = input /\ next_net \in LocalNet
  BY DEF Handling, CanHandle
<1>3. net_of \in [LocalNet -> nets \cup {None}]
  BY <1>2, NetTyped DEF CanHandle, GroupInv, Types
<1>4. old \in nets /\ old # ThisNet /\ old \in Nat /\ old \in 1..MadeWith
  BY <1>2, <1>3, NetTyped
<1>5. dst \in {old, ThisNet} /\ src \in {old, ThisNet} /\ dst # src
  BY <1>2, <1>4, NetTyped, MinMax
<1> HIDE DEF old, dst, src
<1>6. /\ nets \cup {ThisNet} \subseteq 1..made' /\ dst \in nets' /\ src \in 1..made' /\ dst \in 1..made'
      /\ nets' \subseteq 1..made' /\ None \notin 1..made' /\ dst # None /\ src # None
      /\ \A n \in 1..made' : n = old \/ n = ThisNet <=> n = dst \/ n = src
  BY <1>1, <1>2, <1>4, <1>5, NetTyped
<1>7. /\ MembersWith \in [1..made' -> SUBSET LocalNet]
      /\ \A n \in 1..made' : MembersWith[n] = {l \in LocalNet : net_of[l] = n}
  BY <1>2, MembersKept
<1>8. \A l \in LocalNet : net_of'[l] = IF net_of[l] = src THEN dst ELSE net_of[l]
  BY <1>1, <1>6, <1>7 DEF Merged
<1>9. net_of' \in [LocalNet -> nets' \cup {None}]
  <2>1. net_of' = [l \in LocalNet |-> net_of'[l]]
    BY <1>1 DEF Merged
  <2>2. \A l \in LocalNet : net_of'[l] \in nets' \cup {None}
    BY <1>1, <1>3, <1>6, <1>8
  <2> QED
    BY <2>1, <2>2
<1>10. /\ names' \in [1..made' -> [Kind -> Seq(MangledName)]]
       /\ \A n \in 1..made', b \in Kind :
            ToSet(names'[n][b]) = IF n = dst THEN ToSet(NamesWith[dst][b]) \cup ToSet(NamesWith[src][b])
                                  ELSE IF n = src THEN {} ELSE ToSet(NamesWith[n][b])
  <2> DEFINE T == [Kind -> Seq(MangledName)]
             both == [b \in Kind |-> AppendNew(NamesWith[dst][b], NamesWith[src][b])]
  <2>1. NamesWith \in [1..made' -> T]
    BY <1>2, NamesAdded
  <2>2. names' = [NamesWith EXCEPT ![dst] = both, ![src] = NoNames]
    BY <1>1, <1>6, <2>1 DEF Kind
  <2>3. ASSUME NEW b \in Kind
        PROVE  /\ AppendNew(NamesWith[dst][b], NamesWith[src][b]) \in Seq(MangledName)
               /\ ToSet(AppendNew(NamesWith[dst][b], NamesWith[src][b])) =
                    ToSet(NamesWith[dst][b]) \cup ToSet(NamesWith[src][b])
    <3>1. NamesWith[dst][b] \in Seq(MangledName) /\ NamesWith[src][b] \in Seq(MangledName)
      BY <1>6, <2>1
    <3> QED
      BY <3>1, AppendNewSet
  <2>4. both \in T /\ \A b \in Kind : ToSet(both[b]) = ToSet(NamesWith[dst][b]) \cup ToSet(NamesWith[src][b])
    BY <2>3
  <2>5. NoNames \in T /\ \A b \in Kind : ToSet(NoNames[b]) = {}
    BY NoNamesSet
  <2> HIDE DEF T, both
  <2>6. /\ names' \in [1..made' -> T] /\ names'[dst] = both /\ names'[src] = NoNames
        /\ \A n \in 1..made' : n # dst /\ n # src => names'[n] = NamesWith[n]
    BY <1>5, <1>6, <2>1, <2>2, <2>4, <2>5
  <2>7. ASSUME NEW n \in 1..made', NEW b \in Kind
        PROVE  ToSet(names'[n][b]) =
                 IF n = dst THEN ToSet(NamesWith[dst][b]) \cup ToSet(NamesWith[src][b])
                 ELSE IF n = src THEN {} ELSE ToSet(NamesWith[n][b])
    <3>1. CASE n = dst
      BY <2>4, <2>6, <3>1
    <3>2. CASE n = src
      BY <1>5, <2>5, <2>6, <3>2
    <3>3. CASE n # dst /\ n # src
      BY <2>6, <3>3
    <3> QED
      BY <3>1, <3>2, <3>3
  <2> QED
    BY <2>6, <2>7 DEF T
<1>11. ASSUME NEW n \in 1..made', NEW b \in Kind, NEW x \in ToSet(NamesWith[n][b])
       PROVE  x \in ToSet(names'[IF n = src THEN dst ELSE n][b])
  <2>1. CASE n = src
    BY <1>6, <1>10, <2>1
  <2>2. CASE n = dst
    BY <1>5, <1>10, <2>2
  <2>3. CASE n # dst /\ n # src
    BY <1>10, <2>3
  <2> QED
    BY <2>1, <2>2, <2>3
<1>12. ASSUME NEW n \in 1..made', NEW b \in Kind, NEW x \in ToSet(names'[n][b])
       PROVE  /\ n # src
              /\ \E m \in 1..made' : /\ x \in ToSet(NamesWith[m][b])
                                     /\ n = IF m = src THEN dst ELSE m
  <2>1. n # src
    BY <1>5, <1>10, <1>12
  <2>2. CASE n = dst
    BY <1>5, <1>6, <1>10, <2>2
  <2>3. CASE n # dst
    BY <1>10, <2>1, <2>3
  <2> QED
    BY <2>1, <2>2, <2>3
<1>13. Types'
  <2>1. local_nets' \in [1..made' -> SUBSET LocalNet]
    <3> DEFINE T == SUBSET LocalNet
    <3>1. MembersWith[dst] \cup MembersWith[src] \in T /\ {} \in T
      BY <1>6, <1>7
    <3>2. MembersWith \in [1..made' -> T]
      BY <1>7
    <3> HIDE DEF T
    <3>3. local_nets' \in [1..made' -> T]
      BY <1>1, <1>5, <3>1, <3>2
    <3> QED
      BY <3>3 DEF T
  <2> QED
    BY <1>6, <1>9, <1>10, <2>1, HandlingTyped DEF Types
<1>14. Members'
  <2> SUFFICES ASSUME NEW n \in 1..made' PROVE local_nets'[n] = {l \in LocalNet : net_of'[l] = n}
    BY DEF Members
  <2>1. local_nets'[n] = IF n = dst THEN MembersWith[dst] \cup MembersWith[src]
                         ELSE IF n = src THEN {} ELSE MembersWith[n]
    BY <1>1, <1>5, <1>6, <1>7
  <2>2. CASE n = dst
    BY <1>5, <1>6, <1>7, <1>8, <2>1, <2>2
  <2>3. CASE n = src
    BY <1>5, <1>8, <2>1, <2>3
  <2>4. CASE n # dst /\ n # src
    BY <1>7, <1>8, <2>1, <2>4
  <2> QED
    BY <2>2, <2>3, <2>4
<1>15. /\ DOMAIN net_dict' = DOMAIN DictWith
       /\ \A x \in DOMAIN DictWith : net_dict'[x] = IF DictWith[x] = src THEN dst ELSE DictWith[x]
  <2>1. \A b \in Kind : \A x : Contains(NamesWith[src][b], x) <=> x \in ToSet(NamesWith[src][b])
    <3>1. \A b \in Kind : NamesWith[src][b] \in Seq(MangledName)
      BY <1>2, <1>6, NamesAdded
    <3> QED
      BY <3>1 DEF Contains, ToSet
  <2>2. \A x \in DOMAIN DictWith :
          (\E b \in Kind : Contains(NamesWith[src][b], x)) <=> DictWith[x] = src
    BY <1>2, <1>6, <2>1, DictionaryWith
  <2> QED
    BY <1>1, <2>2 DEF Redirected, Kind
<1>16. Dictionary'
  <2>1. IsFiniteSet(DOMAIN net_dict')
    BY <1>2, <1>15, DictionaryWith
  <2>2. ASSUME NEW x \in DOMAIN net_dict'
        PROVE  net_dict'[x] \in nets' /\ \E b \in Kind : x \in ToSet(names'[net_dict'[x]][b])
    <3>1. DictWith[x] \in nets \cup {ThisNet} /\ \E b \in Kind : x \in ToSet(NamesWith[DictWith[x]][b])
      BY <1>2, <1>15, DictionaryWith
    <3>2. DictWith[x] \in 1..made' /\ net_dict'[x] = IF DictWith[x] = src THEN dst ELSE DictWith[x]
      BY <1>6, <1>15, <3>1
    <3>3. \E b \in Kind : x \in ToSet(names'[net_dict'[x]][b])
      BY <1>11, <3>1, <3>2
    <3> QED
      BY <1>1, <1>6, <3>1, <3>2, <3>3
  <2>3. \A n \in 1..made', b \in Kind : \A x \in ToSet(names'[n][b]) :
          x \in DOMAIN net_dict' /\ net_dict'[x] = n
    BY <1>2, <1>12, <1>15, DictionaryWith
  <2>4. ASSUME NEW n \in nets' PROVE \E b \in Kind : names'[n][b] # <<>>
    <3>1. n \in 1..made' /\ n # src /\ \E b \in Kind : ToSet(NamesWith[n][b]) # {}
      BY <1>1, <1>2, <1>6, DictionaryWith
    <3>2. \E b \in Kind : ToSet(names'[n][b]) # {}
      BY <1>11, <3>1
    <3> QED
      BY <3>2 DEF ToSet
  <2> QED
    BY <2>1, <2>2, <2>3, <2>4, HandlingTyped DEF Dictionary
<1>17. NamesGiven'
  <2>1. ASSUME NEW l \in LocalNet, NEW i \in DOMAIN input.labels[l], Handled(l, i)',
               NEW label, label = input.labels[l][i]
        PROVE  /\ net_of'[l] # None
               /\ NameIn(input, l, label) \in ToSet(names'[net_of'[l]][label.from_netattrib])
    <3>1. CASE Handled(l, i)
      <4>1. /\ net_of[l] # None
            /\ NameIn(input, l, label) \in ToSet(names[net_of[l]][label.from_netattrib])
        BY <1>2, <2>1, <3>1 DEF CanHandle, GroupInv, NamesGiven
      <4>2. net_of[l] \in 1..made /\ net_of[l] \in 1..made'
        BY <1>2, <1>3, <1>6, <4>1, NetTyped
      <4>3. label \in ToSet(input.labels[l]) /\ input \in Input
        BY <1>2, <2>1 DEF ToSet, CanHandle, GroupInv, Types
      <4>4. label.from_netattrib \in Kind
        BY <4>3, InputTyped
      <4>5. NameIn(input, l, label) \in ToSet(NamesWith[net_of[l]][label.from_netattrib])
        BY <1>2, <4>1, <4>2, <4>4, NamesAdded
      <4> QED
        BY <1>6, <1>8, <1>11, <4>1, <4>2, <4>4, <4>5
    <3>2. CASE l = next_net /\ i = next_label
      <4>1. label = ThisLabel /\ label.from_netattrib \in Kind /\ NameIn(input, l, label) = ThisName
        BY <1>2, <2>1, <3>2, LabelTyped DEF ThisLabel
      <4>2. ThisName \in ToSet(NamesWith[ThisNet][label.from_netattrib])
        BY <1>2, <4>1, NamesAdded
      <4>3. net_of'[l] = dst /\ dst # None
        BY <1>5, <1>6, <1>8, <3>2 DEF old
      <4>4. ThisNet \in 1..made' /\ (IF ThisNet = src THEN dst ELSE ThisNet) = dst
        BY <1>5, <1>6
      <4> QED
        BY <1>11, <4>1, <4>2, <4>3, <4>4
    <3> QED
      BY <2>1, <3>1, <3>2, HandledNext DEF Handling
  <2>2. ASSUME NEW n \in 1..made', NEW b \in Kind, NEW x \in ToSet(names'[n][b])
        PROVE  \E l \in LocalNet : /\ net_of'[l] = n
                                   /\ \E label \in ToSet(input.labels[l]) :
                                        label.from_netattrib = b /\ NameIn(input, l, label) = x
    <3>1. PICK m \in 1..made' : x \in ToSet(NamesWith[m][b]) /\ n = IF m = src THEN dst ELSE m
      BY <1>12
    <3>2. CASE m \in 1..made /\ x \in ToSet(names[m][b])
      <4>1. PICK l \in LocalNet : /\ net_of[l] = m
                                  /\ \E label \in ToSet(input.labels[l]) :
                                       label.from_netattrib = b /\ NameIn(input, l, label) = x
        BY <1>2, <3>2 DEF CanHandle, GroupInv, NamesGiven
      <4>2. net_of'[l] = n
        BY <1>8, <3>1, <4>1
      <4> QED
        BY <4>1, <4>2
    <3>3. CASE m = ThisNet /\ b = ThisLabel.from_netattrib /\ x = ThisName
      <4>1. net_of'[next_net] = dst
        BY <1>2, <1>5, <1>8 DEF old
      <4>2. n = dst
        BY <1>5, <3>1, <3>3
      <4> QED
        BY <1>2, <3>3, <4>1, <4>2, LabelTyped
    <3>4. \/ m \in 1..made /\ x \in ToSet(names[m][b])
          \/ m = ThisNet /\ b = ThisLabel.from_netattrib /\ x = ThisName
      BY <1>2, <3>1, NamesAdded, Zenon
    <3> QED
      BY <3>2, <3>3, <3>4
  <2> QED
    BY <1>2, <2>1, <2>2 DEF NamesGiven
<1>18. Connected'
  <2> SUFFICES ASSUME NEW S \in SUBSET LocalNet, ClosedIn(input, S), NEW l \in S, NEW m \in LocalNet,
                      net_of'[l] # None, net_of'[m] = net_of'[l]
               PROVE  m \in S
    BY <1>2 DEF Connected
  <2>1. ASSUME NEW k \in LocalNet, net_of[k] \in {old, ThisNet} PROVE k \in S <=> next_net \in S
    <3>1. CASE net_of[k] = ThisNet
      BY <1>2, <3>1, MembersConnected
    <3>2. CASE net_of[k] = old
      <4>1. old # None /\ net_of[next_net] = old
        BY <1>4, <1>6, <1>2, NetTyped DEF old
      <4> QED
        BY <1>2, <3>2, <4>1 DEF CanHandle, GroupInv, Connected
    <3> QED
      BY <2>1, <3>1, <3>2
  <2>2. CASE net_of'[l] = dst
    BY <1>5, <1>8, <2>1, <2>2
  <2>3. CASE net_of'[l] # dst
    <3>1. net_of[l] # None /\ net_of[m] = net_of[l]
      BY <1>8, <2>3
    <3> QED
      BY <1>2, <3>1 DEF CanHandle, GroupInv, Connected
  <2> QED
    BY <2>2, <2>3
<1>19. Named' /\ Kept'
  BY HandlingTyped DEF Named, Kept
<1> QED
  BY <1>13, <1>14, <1>16, <1>17, <1>18, <1>19 DEF GroupInv

-----------------------------------------------------------------------------
LEMMA InvNext == GroupInv /\ [Next]_vars => GroupInv'
<1> SUFFICES ASSUME GroupInv, [Next]_vars PROVE GroupInv'
  OBVIOUS
<1>1. CASE HandleLabel
  BY <1>1, HandleStep, InvJoin, InvMerge
<1>2. CASE NextLocalNet
  BY <1>2, InvNextLocalNet
<1>3. CASE Prioritize
  BY <1>3, InvPrioritize
<1>4. CASE NamePin
  BY <1>4, InvNamePinKnown, InvNamePinNew
<1>5. CASE Reorder
  BY <1>5, InvReorder
<1>6. CASE UNCHANGED vars
  <2>1. UNCHANGED <<input, next_net, next_label, net_of, nets, made, local_nets, names, net_dict,
                    chosen, counter, pc, next_pin>>
    BY <1>6 DEF vars, position, group, naming
  <2>2. Prior' = Prior
    BY <2>1 DEF Prior
  <2>3. Types' /\ Members' /\ Dictionary'
    BY <2>1, <2>2 DEF GroupInv, Types, Members, Dictionary
  <2>4. NamesGiven' /\ Connected'
    BY <2>1 DEF GroupInv, NamesGiven, Handled, Connected
  <2>5. Named' /\ Kept'
    BY <2>1, <2>2 DEF GroupInv, Named, Kept
  <2> QED
    BY <2>3, <2>4, <2>5 DEF GroupInv
<1> QED
  BY <1>1, <1>2, <1>3, <1>4, <1>5, <1>6 DEF Next

LEMMA GroupInvHolds == Spec => []GroupInv
BY InvInit, InvNext, PTL DEF Spec

(* The assertions in net.py hold at any time: net_dict leads to the net in *)
(* the netlist which has the name, the local nets of a net are those which *)
(* refer to it, and each net which is kept has a pin.                      *)
THEOREM GroupsAreConsistent == Spec => []GroupsConsistent
<1>1. GroupInv => GroupsConsistent
  <2> SUFFICES ASSUME GroupInv PROVE GroupsConsistent
    OBVIOUS
  <2> USE DEF GroupInv
  <2>1. Kept => (pc = "done" => \A p \in Pin : net_of[input.pin_net[p]] \in nets)
    BY DEF Kept
  <2>2. input.pin_net \in [Pin -> LocalNet]
    BY InputTyped DEF Types
  <2>3. pc = "done" => \A p \in Pin : p < next_pin
    BY Counts DEF Types, Kept
  <2>4. pc = "done" => nets \subseteq DOMAIN chosen
    <3>1. pc = "done" => \A p \in Pin : net_of[input.pin_net[p]] \in DOMAIN chosen
      BY <2>2, <2>3 DEF Types, Prior, Named
    <3> QED
      BY <3>1 DEF Kept
  <2>5. nets \subseteq 1..made
    BY <2>4 DEF Types, Prior
  <2>6. TypeOK
    <3>1. ASSUME NEW l \in LocalNet
          PROVE  net_of[l] \in nets \cup {None} \/ (pc = "done" /\ PinsOf(l) = {})
      <4>1. CASE pc # "done"
        BY <4>1 DEF Types, Prior
      <4>2. CASE pc = "done"
        BY <4>2 DEF Kept, PinsOf
      <4> QED
        BY <4>1, <4>2
    <3> QED
      BY <2>5, <3>1 DEF TypeOK, Types
  <2>7. DictAgrees
    <3> SUFFICES ASSUME pc = "group" PROVE DictAgrees
      BY DEF DictAgrees
    <3>1. \A x \in DOMAIN net_dict : net_dict[x] \in nets
      BY DEF Dictionary, Prior
    <3>2. \A n \in nets, b \in Kind : \A x : x \in ToSet(names[n][b]) => Contains(names[n][b], x)
      <4>1. \A n \in nets, b \in Kind : names[n][b] \in Seq(MangledName)
        BY <2>5 DEF Types
      <4> QED
        BY <4>1 DEF Contains, ToSet
    <3>3. \A x \in DOMAIN net_dict : \E b \in Kind : Contains(names[net_dict[x]][b], x)
      BY <3>1, <3>2 DEF Dictionary
    <3>4. \A n \in Net, b \in Kind : \A x \in ToSet(names[n][b]) : x \in DOMAIN net_dict /\ net_dict[x] = n
      BY DEF Dictionary, Net
    <3>5. \A n \in nets : \E b \in Kind : names[n][b] # <<>>
      BY DEF Dictionary
    <3> QED
      BY <3>1, <3>3, <3>4, <3>5 DEF DictAgrees, Kind
  <2>8. MembershipAgrees
    <3>1. \A n \in Net : local_nets[n] = {l \in LocalNet : net_of[l] = n}
      BY DEF Members, Net
    <3>2. ASSUME pc = "done", NEW n \in nets PROVE \E l \in local_nets[n] : PinsOf(l) # {}
      <4>1. PICK p \in Pin : n = net_of[input.pin_net[p]]
        BY <3>2 DEF Kept
      <4>2. input.pin_net[p] \in local_nets[n]
        BY <2>2, <2>5, <3>1, <4>1 DEF Net
      <4> QED
        BY <4>2 DEF PinsOf
    <3> QED
      BY <3>1, <3>2 DEF MembershipAgrees
  <2> QED
    BY <2>6, <2>7, <2>8 DEF GroupsConsistent
<1> QED
  BY <1>1, GroupInvHolds, PTL

(* Once names have been handled, those of local nets of different nets     *)
(* differ.                                                                 *)
LEMMA SameNameSameNet ==
  ASSUME GroupInv, pc # "group",
         NEW l \in LocalNet, NEW m \in LocalNet,
         NEW x \in ToSet(input.labels[l]), NEW y \in ToSet(input.labels[m]),
         NameIn(input, l, x) = NameIn(input, m, y)
  PROVE  net_of[l] # None /\ net_of[m] = net_of[l]
<1>1. next_net \notin LocalNet
  BY DEF GroupInv, Named
<1>2. \A k \in LocalNet : k < next_net
  BY <1>1, Counts DEF GroupInv, Types
<1>3. ASSUME NEW k \in LocalNet, NEW label \in ToSet(input.labels[k])
      PROVE  /\ net_of[k] \in 1..made /\ net_of[k] # None /\ label.from_netattrib \in Kind
             /\ NameIn(input, k, label) \in ToSet(names[net_of[k]][label.from_netattrib])
  <2>1. PICK i \in DOMAIN input.labels[k] : label = input.labels[k][i]
    BY DEF ToSet
  <2>2. Handled(k, i)
    BY <1>2 DEF Handled
  <2>3. /\ net_of[k] # None
        /\ NameIn(input, k, label) \in ToSet(names[net_of[k]][label.from_netattrib])
    BY <2>1, <2>2 DEF GroupInv, NamesGiven
  <2>4. net_of[k] \in 1..made
    BY <2>3 DEF GroupInv, Types
  <2> QED
    BY <2>3, <2>4, InputTyped DEF GroupInv, Types
<1>4. net_dict[NameIn(input, l, x)] = net_of[l] /\ net_dict[NameIn(input, m, y)] = net_of[m]
  BY <1>3 DEF GroupInv, Dictionary
<1> QED
  BY <1>3, <1>4

(* Two pins end up on the same net exactly if a chain of names connects    *)
(* their local nets, in whatever order sheets, nets and names are read.    *)
THEOREM GroupedByNames == Spec => []GroupedByName
<1>1. GroupInv => GroupedByName
  <2> SUFFICES ASSUME GroupInv, pc = "done", NEW l \in LocalNet, NEW m \in LocalNet,
                      PinsOf(l) # {}, PinsOf(m) # {}
               PROVE  net_of[l] = net_of[m] <=> SharesNet(l, m)
    BY DEF GroupedByName
  <2>1. net_of[l] # None
    <3>1. PICK p \in Pin : input.pin_net[p] = l
      BY DEF PinsOf
    <3>2. p < next_pin
      BY Counts DEF GroupInv, Types, Kept
    <3> QED
      BY <3>1, <3>2 DEF GroupInv, Named
  <2>2. ASSUME net_of[l] = net_of[m] PROVE SharesNet(l, m)
    <3> SUFFICES ASSUME NEW S \in SUBSET LocalNet, l \in S, Closed(S) PROVE m \in S
      BY DEF SharesNet
    <3> QED
      BY <2>1, <2>2, ClosedInInput DEF GroupInv, Connected
  <2>3. ASSUME SharesNet(l, m) PROVE net_of[l] = net_of[m]
    <3> DEFINE S == {k \in LocalNet : net_of[k] = net_of[l]}
    <3>1. ClosedIn(input, S)
      <4> SUFFICES ASSUME NEW j \in S, NEW k \in LocalNet,
                          NEW x \in ToSet(input.labels[j]), NEW y \in ToSet(input.labels[k]),
                          NameIn(input, j, x) = NameIn(input, k, y)
                   PROVE  k \in S
        BY DEF ClosedIn
      <4>1. net_of[k] = net_of[j]
        BY SameNameSameNet
      <4> QED
        BY <4>1
    <3>2. Closed(S) /\ l \in S /\ S \in SUBSET LocalNet
      BY <3>1, ClosedInInput
    <3>3. m \in S
      BY <2>3, <3>2 DEF SharesNet
    <3> QED
      BY <3>3
  <2> QED
    BY <2>2, <2>3
<1> QED
  BY <1>1, GroupInvHolds, PTL

(* No two nets are called the same, not even when schematics use names     *)
(* which look like generated ones; and a net which has names of the kind   *)
(* prefer_netname_attribute asks for is called by one of them.             *)
THEOREM NamesAreRight == Spec => []NamesRight
<1>1. GroupInv => NamesRight
  <2> SUFFICES ASSUME GroupInv, pc = "done" PROVE NamesRight
    BY DEF NamesRight, NamesDistinct, NamePreferred
  <2>1. input.pin_net \in [Pin -> LocalNet] /\ input.prefer \in BOOLEAN
    BY InputTyped DEF GroupInv, Types
  <2>2. Prior = DOMAIN chosen /\ nets \subseteq Prior /\ Prior \subseteq 1..made
    <3>1. \A p \in Pin : p < next_pin
      BY Counts DEF GroupInv, Types, Kept
    <3>2. \A p \in Pin : net_of[input.pin_net[p]] \in Prior
      BY <2>1, <3>1 DEF GroupInv, Types, Named
    <3> QED
      BY <3>2 DEF GroupInv, Types, Kept, Prior
  <2>3. NamesDistinct
    BY <2>2 DEF NamesDistinct, GroupInv, Named
  <2>4. ASSUME NEW n \in nets, KindOf(n, ~input.prefer) # {}
        PROVE  chosen[n] \in KindOf(n, ~input.prefer)
    <3> DEFINE prio == ~input.prefer
    <3>1. prio \in Kind
      BY <2>1, BooleanCases
    <3> HIDE DEF prio
    <3>2. n \in 1..made /\ local_nets[n] = {l \in LocalNet : net_of[l] = n}
      BY <2>2 DEF GroupInv, Members
    <3>3. PICK l \in LocalNet :
            net_of[l] = n /\ \E x \in ToSet(input.labels[l]) : x.from_netattrib = prio
      BY <2>4, <3>2 DEF KindOf, prio
    <3> PICK label \in ToSet(input.labels[l]) : label.from_netattrib = prio
      BY <3>3
    <3>4. NameIn(input, l, label) \in ToSet(names[n][prio])
      <4>1. PICK i \in DOMAIN input.labels[l] : label = input.labels[l][i]
        BY DEF ToSet
      <4>2. l < next_net
        BY Counts DEF GroupInv, Types, Named
      <4>3. Handled(l, i)
        BY <4>2 DEF Handled
      <4> QED
        BY <3>3, <4>1, <4>3 DEF GroupInv, NamesGiven
    <3>5. names[n][prio] # <<>>
      BY <3>4 DEF ToSet
    <3>6. chosen[n] \in ToSet(names[n][prio])
      BY <2>2, <3>5 DEF GroupInv, Named, prio
    <3>7. PICK j \in LocalNet : /\ net_of[j] = n
                                /\ \E x \in ToSet(input.labels[j]) :
                                     x.from_netattrib = prio /\ NameIn(input, j, x) = chosen[n]
      BY <3>1, <3>2, <3>6 DEF GroupInv, NamesGiven
    <3> QED
      BY <3>2, <3>7, NameInInput DEF KindOf, prio
  <2> QED
    BY <2>3, <2>4 DEF NamesRight, NamePreferred
<1> QED
  BY <1>1, GroupInvHolds, PTL
=============================================================================
