---------------------------- MODULE HierarchyProofs ----------------------------
(***************************************************************************)
(* Proofs about Hierarchy and Packages, for any number of components, pins *)
(* and nets: the two lists each pin is in always agree; without errors the *)
(* hierarchy is resolved exactly, packages have exactly the connections of *)
(* their components and none is lost; and exceptions come after errors.    *)
(***************************************************************************)
EXTENDS Packages, Integers, FiniteSetTheorems, SequenceTheorems, WellFoundedInduction, TLAPS

Less == {x \in Nat \X Nat : x[1] < x[2]}

(* The natural numbers are well-founded.                                   *)
LEMMA LessWellFounded == IsWellFoundedOn(Less, Nat)
  BY NatLessThanWellFounded DEF OpToRel, Less

(* A set of natural numbers which isn't empty has a least element.         *)
LEMMA MinIsIn ==
  ASSUME NEW S, S \subseteq Nat, S # {}
  PROVE  Min(S) \in S /\ \A y \in S : Min(S) <= y
<1>1. \A x, y \in Nat : y < x => <<y, x>> \in Less
  BY DEF Less
<1>2. PICK x \in S : \A y \in S : ~(<<y, x>> \in Less)
  BY LessWellFounded, WFMin
<1>3. ASSUME NEW y \in S PROVE x <= y
  <2>1. x \in Nat /\ y \in Nat
    OBVIOUS
  <2>2. ~(y < x)
    BY <1>1, <1>2, <2>1
  <2> QED BY <2>1, <2>2
<1> QED
  BY <1>3 DEF Min

-----------------------------------------------------------------------------
(* What PinsListed needs to be inductive: a pin is only in the list of its *)
(* own local net, and the net into which ports are merged is in the netlist*)
(* as long as there are ports to merge.                                    *)
PinLists ==
  /\ input \in InputType
  /\ cpins \in [LocalNet -> SUBSET Pin]
  /\ component_pins \in [Net -> SUBSET Pin]
  /\ \A l \in LocalNet : \A p \in cpins[l] : input.local_net[p] = l
  /\ pins \subseteq Pin
  /\ pc = "hierarchy" /\ ports # <<>> => dest_net \in nets

HierarchyInv == PinsListed /\ PinLists

(* The invariant only depends on these variables.                          *)
LEMMA InvSame ==
  ASSUME HierarchyInv,
         UNCHANGED <<input, components, present, todo, candidates, remove_components, cpins,
                     netlist, pins, ports, dest_net>>,
         pc' \in Phases, pc' # "hierarchy", pc \notin {"names", "finished", "read", "exited"}
  PROVE  HierarchyInv'
BY DEF HierarchyInv, PinsListed, PinLists, TypeOK, netlist

(* The types of an input.                                                  *)
LEMMA InputTyped ==
  ASSUME input \in InputType
  PROVE  /\ input.local_net \in [Pin -> LocalNet]
         /\ input.net \in [LocalNet -> Net]
         /\ input.component \in [Pin -> Component]
         /\ input.graphical \subseteq Component /\ input.composite \subseteq Component
BY DEF InputType

(* Each pin is in the lists the input puts it in.                          *)
LEMMA InvInit == Init => HierarchyInv
<1> SUFFICES ASSUME Init PROVE HierarchyInv
  OBVIOUS
<1>1. input \in InputType
  BY HierarchyAssumption DEF Init
<1>2. /\ input.local_net \in [Pin -> LocalNet]
      /\ input.net \in [LocalNet -> Net]
  BY <1>1, InputTyped
<1>3. TypeOK
  <2>1. nets \subseteq Net
    BY <1>2 DEF Init
  <2> QED
    BY <1>1, <1>2, <2>1 DEF Init, TypeOK, Phases
<1>4. \A l \in LocalNet : cpins[l] # {} => net_of[l] \in nets
  BY <1>2 DEF Init
<1>5. \A n \in Net : component_pins[n] = UNION {cpins[l] : l \in {m \in LocalNet : net_of[m] = n}}
  BY <1>2 DEF Init
<1>6. PinLists
  BY <1>1, <1>2 DEF Init, PinLists
<1> QED
  BY <1>3, <1>4, <1>5, <1>6 DEF HierarchyInv, PinsListed

(* Starting with the next composite component only affects the loop.       *)
LEMMA InvStartComposite == HierarchyInv /\ StartComposite => HierarchyInv'
<1> SUFFICES ASSUME HierarchyInv, StartComposite PROVE HierarchyInv'
  OBVIOUS
<1> USE DEF HierarchyInv, StartComposite, lists, netlist
<1>1. pins' \subseteq Pin
  BY DEF Cpins, Pins
<1>2. TypeOK'
  BY DEF PinsListed, TypeOK
<1>3. PinsListed'
  BY <1>2 DEF PinsListed
<1>4. PinLists'
  BY <1>1 DEF PinLists
<1> QED
  BY <1>3, <1>4

(* A pin is taken out of both of its lists.                                *)
LEMMA InvDisconnectPin == HierarchyInv /\ DisconnectPin => HierarchyInv'
<1> SUFFICES ASSUME HierarchyInv, DisconnectPin PROVE HierarchyInv'
  OBVIOUS
<1> DEFINE p == Min(pins)
           l == input.local_net[p]
           n == net_of[l]
<1>1. p \in Pin
  BY MinIsIn, HierarchyAssumption DEF HierarchyInv, PinLists, DisconnectPin
<1>2. l \in LocalNet /\ n \in Net
  BY <1>1, InputTyped DEF HierarchyInv, PinsListed, PinLists, TypeOK
<1>3. p \in cpins[l]
  BY DEF DisconnectPin, Disconnectable, Listed
<1>4. /\ cpins' = [cpins EXCEPT ![l] = @ \ {p}]
      /\ component_pins' = [component_pins EXCEPT ![n] = @ \ {p}]
      /\ dest_net' = n
      /\ pins' \subseteq pins
      /\ UNCHANGED <<input, components, present, net_of, nets, pc, todo, candidates,
                     remove_components>>
      /\ pc = "hierarchy"
  BY DEF DisconnectPin
<1> HIDE DEF p, l, n
<1>5. n \in nets
  BY <1>2, <1>3, <1>4 DEF HierarchyInv, PinsListed, n
<1>6. TypeOK'
  BY <1>4 DEF HierarchyInv, PinsListed, TypeOK
<1>7. PinLists'
  BY <1>2, <1>4, <1>5 DEF HierarchyInv, PinLists
<1>8. \A m \in LocalNet : cpins'[m] # {} => net_of'[m] \in nets'
  BY <1>2, <1>4 DEF HierarchyInv, PinsListed, PinLists
<1>9. ASSUME NEW k \in Net
      PROVE  component_pins'[k] = UNION {cpins'[m] : m \in {m \in LocalNet : net_of'[m] = k}}
  <2>1. component_pins[k] = UNION {cpins[m] : m \in {m \in LocalNet : net_of[m] = k}}
    BY DEF HierarchyInv, PinsListed
  <2>2. \A m \in LocalNet : m # l => p \notin cpins[m]
    BY DEF HierarchyInv, PinLists, l
  <2>3. \A m \in LocalNet : cpins'[m] = cpins[m] \ {p}
    BY <1>2, <1>4, <2>2 DEF HierarchyInv, PinLists
  <2>4. component_pins'[k] = component_pins[k] \ {p}
    <3>1. CASE k = n
      BY <1>2, <1>4, <3>1 DEF HierarchyInv, PinLists
    <3>2. CASE k # n
      <4>1. p \notin component_pins[k]
        BY <2>1, <2>2, <3>2, <1>2 DEF n
      <4> QED
        BY <1>2, <1>4, <3>2, <4>1 DEF HierarchyInv, PinLists
    <3> QED
      BY <3>1, <3>2
  <2> QED
    BY <1>4, <2>1, <2>3, <2>4
<1> QED
  BY <1>6, <1>7, <1>8, <1>9 DEF HierarchyInv, PinsListed

(* Nets are merged, and the pins with them, but for the port's.            *)
LEMMA InvConnectPort == HierarchyInv /\ ConnectPort => HierarchyInv'
<1> SUFFICES ASSUME HierarchyInv, ConnectPort PROVE HierarchyInv'
  OBVIOUS
<1> DEFINE port == Head(ports)
           q == PortPin(port)
           l == input.local_net[q]
           src == net_of[l]
<1>1. q \in Pin
  <2>1. Cpins(port) # {} /\ Cpins(port) \subseteq Pin
    BY DEF ConnectPort, Connectable, Cpins, Pins
  <2> QED
    BY <2>1, MinIsIn, HierarchyAssumption DEF PortPin
<1>2. l \in LocalNet /\ src \in Net
  BY <1>1, InputTyped DEF HierarchyInv, PinsListed, PinLists, TypeOK
<1>3. q \in cpins[l] /\ port \in present
  BY DEF ConnectPort, Connectable, Listed
<1>4. /\ net_of' = [m \in LocalNet |-> IF net_of[m] = src THEN dest_net ELSE net_of[m]]
      /\ nets' = nets \ ({src} \ {dest_net})
      /\ component_pins' = [MergedPins(src) EXCEPT ![dest_net] = @ \ {q}]
      /\ cpins' = [cpins EXCEPT ![l] = @ \ {q}]
      /\ present' = present \ {port}
      /\ remove_components' = remove_components \cup {port}
      /\ UNCHANGED <<input, components, pc, todo, candidates, dest_net, pins>>
      /\ pc = "hierarchy" /\ ports # <<>>
  BY DEF ConnectPort, Redirected, NetsLeft, loop
<1> HIDE DEF port, q, l, src
<1>5. dest_net \in nets /\ dest_net \in Net
  BY <1>4 DEF HierarchyInv, PinLists, PinsListed, TypeOK
<1>6. TypeOK'
  BY <1>2, <1>3, <1>4, <1>5 DEF HierarchyInv, PinsListed, TypeOK
<1>7. \A m \in LocalNet : m # l => q \notin cpins[m]
  BY DEF HierarchyInv, PinLists, l
<1>8. \A m \in LocalNet : cpins'[m] = cpins[m] \ {q}
  BY <1>2, <1>4, <1>7 DEF HierarchyInv, PinLists
<1>9. \A m \in LocalNet : cpins'[m] # {} => net_of'[m] \in nets'
  BY <1>4, <1>5, <1>8 DEF HierarchyInv, PinsListed
<1>10. ASSUME NEW n \in Net
       PROVE  component_pins'[n] = UNION {cpins'[m] : m \in {m \in LocalNet : net_of'[m] = n}}
  <2>1. \A k \in Net : component_pins[k] = UNION {cpins[m] : m \in {m \in LocalNet : net_of[m] = k}}
    BY DEF HierarchyInv, PinsListed
  <2>2. CASE n = dest_net
    <3>1. component_pins'[n] = (component_pins[dest_net] \cup component_pins[src]) \ {q}
      BY <1>4, <2>2 DEF MergedPins
    <3>2. {m \in LocalNet : net_of'[m] = n} =
            {m \in LocalNet : net_of[m] = dest_net} \cup {m \in LocalNet : net_of[m] = src}
      BY <1>4, <2>2
    <3> QED
      BY <1>2, <1>5, <1>8, <2>1, <3>1, <3>2
  <2>3. CASE n = src /\ n # dest_net
    <3>1. component_pins'[n] = {}
      BY <1>4, <2>3 DEF MergedPins
    <3>2. {m \in LocalNet : net_of'[m] = n} = {}
      BY <1>4, <2>3
    <3> QED
      BY <3>1, <3>2
  <2>4. CASE n # src /\ n # dest_net
    <3>1. component_pins'[n] = component_pins[n]
      BY <1>4, <2>4 DEF MergedPins
    <3>2. {m \in LocalNet : net_of'[m] = n} = {m \in LocalNet : net_of[m] = n}
      BY <1>4, <2>4
    <3>3. \A m \in LocalNet : net_of[m] = n => cpins'[m] = cpins[m]
      BY <1>4, <1>2, <2>4 DEF src, HierarchyInv, PinLists
    <3> QED
      BY <2>1, <3>1, <3>2, <3>3
  <2> QED
    BY <2>2, <2>3, <2>4
<1>11. PinLists'
  <2>1. component_pins' \in [Net -> SUBSET Pin]
    <3>1. MergedPins(src) \in [Net -> SUBSET Pin]
      BY <1>2 DEF MergedPins, HierarchyInv, PinLists
    <3> QED
      BY <1>4, <1>5, <3>1
  <2>2. cpins' \in [LocalNet -> SUBSET Pin]
    BY <1>4 DEF HierarchyInv, PinLists
  <2>3. \A m \in LocalNet : \A p \in cpins'[m] : input'.local_net[p] = m
    BY <1>4, <1>8 DEF HierarchyInv, PinLists
  <2>4. pins' \subseteq Pin /\ dest_net' \in nets'
    BY <1>4, <1>5 DEF HierarchyInv, PinLists
  <2>5. input' \in InputType
    BY <1>4 DEF HierarchyInv, PinLists
  <2> QED
    BY <2>1, <2>2, <2>3, <2>4, <2>5 DEF PinLists
<1> QED
  BY <1>6, <1>9, <1>10, <1>11 DEF HierarchyInv, PinsListed

(* The composite component is removed from its sheet.                      *)
LEMMA InvFinishComposite == HierarchyInv /\ FinishComposite => HierarchyInv'
<1> SUFFICES ASSUME HierarchyInv, FinishComposite PROVE HierarchyInv'
  OBVIOUS
<1> USE DEF HierarchyInv, FinishComposite, netlist
<1>1. TypeOK'
  BY DEF PinsListed, TypeOK
<1>2. PinsListed'
  BY <1>1 DEF PinsListed
<1>3. PinLists'
  BY DEF PinLists
<1> QED
  BY <1>2, <1>3

(* An exception leaves everything as it is.                                *)
LEMMA InvCrash == HierarchyInv /\ Crash => HierarchyInv'
BY InvSame DEF Crash, lists, netlist, loop, Phases

(* The components are removed from the netlist.                            *)
LEMMA InvFinishHierarchy == HierarchyInv /\ FinishHierarchy => HierarchyInv'
<1> SUFFICES ASSUME HierarchyInv, FinishHierarchy PROVE HierarchyInv'
  OBVIOUS
<1> USE DEF HierarchyInv, FinishHierarchy, Remaining, netlist, loop
<1>1. TypeOK'
  BY DEF PinsListed, TypeOK, Phases
<1>2. PinsListed'
  BY <1>1 DEF PinsListed
<1>3. PinLists'
  BY DEF PinLists
<1> QED
  BY <1>2, <1>3

(* The pins of a graphical component are moved to other lists.             *)
LEMMA InvRemoveGraphical == HierarchyInv /\ RemoveGraphical => HierarchyInv'
<1> SUFFICES ASSUME HierarchyInv, RemoveGraphical PROVE HierarchyInv'
  OBVIOUS
<1> DEFINE c == Min(todo)
           AllOn(n) == {p \in Cpins(c) : net_of[input.local_net[p]] = n}
<1>1. c \in Component
  BY MinIsIn, HierarchyAssumption DEF HierarchyInv, PinsListed, TypeOK, RemoveGraphical
<1>2. /\ todo' = todo \ {c}
      /\ present' = present \ {c}
      /\ remove_components' = remove_components \cup {c}
      /\ cpins' = [l \in LocalNet |-> cpins[l] \ Cpins(c)]
      /\ component_pins' = [n \in Net |-> component_pins[n] \ AllOn(n)]
      /\ UNCHANGED <<input, components, net_of, nets, pc, candidates, dest_net, pins, ports>>
      /\ pc = "graphical"
  BY DEF RemoveGraphical, loop
<1> HIDE DEF c
<1>3. TypeOK'
  BY <1>1, <1>2 DEF HierarchyInv, PinsListed, TypeOK
<1>4. PinLists'
  BY <1>2 DEF HierarchyInv, PinLists
<1>5. \A l \in LocalNet : cpins'[l] # {} => net_of'[l] \in nets'
  BY <1>2 DEF HierarchyInv, PinsListed
<1>6. ASSUME NEW n \in Net
      PROVE  component_pins'[n] = UNION {cpins'[l] : l \in {m \in LocalNet : net_of'[m] = n}}
  <2>1. component_pins[n] = UNION {cpins[l] : l \in {m \in LocalNet : net_of[m] = n}}
    BY DEF HierarchyInv, PinsListed
  <2>2. ASSUME NEW l \in LocalNet, net_of[l] = n
        PROVE  cpins[l] \ AllOn(n) = cpins[l] \ Cpins(c)
    BY <2>2 DEF HierarchyInv, PinLists
  <2>3. component_pins'[n] = component_pins[n] \ AllOn(n)
    BY <1>2
  <2>4. \A l \in LocalNet : cpins'[l] = cpins[l] \ Cpins(c)
    BY <1>2
  <2> HIDE DEF AllOn
  <2> QED
    BY <1>2, <2>1, <2>2, <2>3, <2>4
<1> QED
  BY <1>3, <1>4, <1>5, <1>6 DEF HierarchyInv, PinsListed

(* The graphical components are removed from the netlist.                  *)
LEMMA InvFinishGraphical == HierarchyInv /\ FinishGraphical => HierarchyInv'
<1> SUFFICES ASSUME HierarchyInv, FinishGraphical PROVE HierarchyInv'
  OBVIOUS
<1> USE DEF HierarchyInv, FinishGraphical, Remaining, netlist, loop
<1>1. TypeOK'
  BY DEF PinsListed, TypeOK, Phases
<1>2. PinsListed'
  BY <1>1 DEF PinsListed
<1>3. PinLists'
  BY DEF PinLists
<1> QED
  BY <1>2, <1>3

(* Every step of the passes which resolve the hierarchy.                   *)
LEMMA InvNext == HierarchyInv /\ Next => HierarchyInv'
BY InvStartComposite, InvDisconnectPin, InvConnectPort, InvFinishComposite, InvCrash,
   InvFinishHierarchy, InvRemoveGraphical, InvFinishGraphical DEF Next

(* Steps which change none of this.                                        *)
LEMMA InvStutter == HierarchyInv /\ UNCHANGED vars => HierarchyInv'
BY DEF HierarchyInv, PinsListed, PinLists, TypeOK, vars, lists, netlist, loop

(* While the hierarchy is resolved, the list of pins of each net is that   *)
(* of its local nets, whatever errors have been reported; so a pin which   *)
(* has been taken out of one list is never found in the other.             *)
THEOREM PinsAreListed == Spec => []PinsListed
<1>1. HierarchyInv /\ [Next]_vars => HierarchyInv'
  BY InvNext, InvStutter
<1>2. HierarchyInv => PinsListed
  BY DEF HierarchyInv
<1> QED
  BY <1>1, <1>2, InvInit, PTL DEF Spec

-----------------------------------------------------------------------------
(* The passes which form packages don't touch the lists; the last ones     *)
(* take nets out of the netlist.                                           *)
LEMMA InvPackages == HierarchyInv /\ PackagesNext => HierarchyInv'
<1> SUFFICES ASSUME HierarchyInv, PackagesNext PROVE HierarchyInv'
  OBVIOUS
<1>1. CASE Next /\ UNCHANGED <<given, packaging>>
  BY <1>1, InvNext
<1>2. CASE GroupPackages \/ AssignNets \/ AssignConnections \/ PackageCrash
  BY <1>2, InvSame
     DEF GroupPackages, AssignNets, AssignConnections, PackageCrash, lists, netlist, loop, Phases
<1>3. CASE RemoveUnconnected
  <2> USE <1>3 DEF RemoveUnconnected, lists, loop
  <2>1. TypeOK'
    BY DEF HierarchyInv, PinsListed, TypeOK, Phases
  <2>2. PinsListed'
    BY <2>1 DEF HierarchyInv, PinsListed
  <2> QED
    BY <2>2 DEF HierarchyInv, PinLists
<1>4. CASE CompileHashes
  <2> USE <1>4 DEF CompileHashes, lists, netlist, loop
  <2>1. TypeOK'
    BY DEF HierarchyInv, PinsListed, TypeOK, Phases
  <2>2. PinsListed'
    BY <2>1 DEF HierarchyInv, PinsListed
  <2> QED
    BY <2>2 DEF HierarchyInv, PinLists
<1> QED
  BY <1>1, <1>2, <1>3, <1>4 DEF PackagesNext

(* The lists also agree while packages are formed from the components.     *)
THEOREM PackagesPinsAreListed == PackagesSpec => []PinsListed
<1>1. PackagesInit => HierarchyInv
  BY InvInit DEF PackagesInit
<1>2. HierarchyInv /\ [PackagesNext]_pvars => HierarchyInv'
  BY InvPackages, InvStutter DEF pvars
<1>3. HierarchyInv => PinsListed
  BY DEF HierarchyInv
<1> QED
  BY <1>1, <1>2, <1>3, PTL DEF PackagesSpec
-----------------------------------------------------------------------------
(* A sequence of the components of a set: each of them once, and nothing   *)
(* else.                                                                   *)
Lists(s, S) ==
  /\ s \in Seq(Component)
  /\ \A i \in 1..Len(s) : s[i] \in S
  /\ \A c \in S : \E i \in 1..Len(s) : s[i] = c
  /\ \A i, j \in 1..Len(s) : s[i] = s[j] => i = j

(* The ranks of the components of a set are the numbers up to its size.    *)
LEMMA InOrderLists ==
  ASSUME NEW S \in SUBSET Component
  PROVE  Lists(InOrder(S), S)
<1> DEFINE UpTo(c) == {d \in S : d <= c}
           rank == [c \in S |-> Cardinality(UpTo(c))]
           n == Cardinality(S)
           s == InOrder(S)
<1>1. IsFiniteSet(S) /\ n \in Nat /\ \A c \in S : c \in Int
  <2>1. IsFiniteSet(Component) /\ Component \subseteq Nat
    BY HierarchyAssumption
  <2>2. IsFiniteSet(S)
    BY ONLY <2>1, S \in SUBSET Component, FS_Subset
  <2> QED BY <2>1, <2>2, FS_CardinalityType
<1>2. ASSUME NEW c \in S PROVE IsFiniteSet(UpTo(c)) /\ c \in UpTo(c) /\ rank[c] \in 1..n
  <2>1. UpTo(c) \in SUBSET S /\ c \in UpTo(c)
    BY <1>1
  <2> HIDE DEF UpTo
  <2>2. IsFiniteSet(UpTo(c)) /\ Cardinality(UpTo(c)) <= n
    BY <1>1, <2>1, FS_Subset
  <2>3. Cardinality(UpTo(c)) \in Nat /\ Cardinality(UpTo(c)) # 0
    BY <2>1, <2>2, FS_CardinalityType, FS_EmptySet
  <2>4. rank[c] = Cardinality(UpTo(c))
    OBVIOUS
  <2> HIDE DEF rank, n
  <2> QED
    BY <1>1, <2>1, <2>2, <2>3, <2>4
<1>3. ASSUME NEW c \in S, NEW d \in S, c < d PROVE rank[c] # rank[d]
  <2>1. UpTo(c) \in SUBSET UpTo(d) /\ d \notin UpTo(c)
    BY <1>1, <1>3
  <2>2. rank[c] = Cardinality(UpTo(c)) /\ rank[d] = Cardinality(UpTo(d))
    OBVIOUS
  <2>3. IsFiniteSet(UpTo(d)) /\ d \in UpTo(d)
    BY <1>2
  <2> HIDE DEF UpTo, rank
  <2> QED
    BY <2>1, <2>2, <2>3, FS_Subset
<1>4. \A c, d \in S : rank[c] = rank[d] => c = d
  <2> HIDE DEF rank
  <2> QED BY <1>1, <1>3
<1>5. \A k \in 1..n : \E c \in S : rank[c] = k
  <2>1. rank \in Injection(S, 1..n)
    <3>1. rank = [c \in S |-> rank[c]] /\ DOMAIN rank = S
      OBVIOUS
    <3> HIDE DEF rank, n
    <3> QED BY <1>2, <1>4, <3>1 DEF Injection, IsInjective
  <2>2. IsFiniteSet(1..n) /\ Cardinality(1..n) = Cardinality(S)
    BY <1>1, FS_Interval
  <2> HIDE DEF rank, n
  <2>3. rank \in Surjection(S, 1..n)
    BY <2>1, <2>2, FS_Injection
  <2> QED BY <2>3 DEF Surjection
<1>6. ASSUME NEW k \in 1..n PROVE s[k] \in S /\ rank[s[k]] = k
  <2>1. s[k] = CHOOSE c \in S : Cardinality(UpTo(c)) = k
    BY DEF InOrder
  <2>2. \A c \in S : rank[c] = Cardinality(UpTo(c))
    OBVIOUS
  <2> HIDE DEF rank, UpTo, n, s
  <2>3. \E c \in S : Cardinality(UpTo(c)) = k
    BY <1>5, <2>2
  <2> QED BY <2>1, <2>2, <2>3
<1>7. s \in Seq(Component) /\ Len(s) = n
  <2> DEFINE at(k) == CHOOSE c \in S : Cardinality(UpTo(c)) = k
  <2>1. s = [k \in 1..n |-> at(k)] /\ \A k \in 1..n : s[k] = at(k)
    BY DEF InOrder
  <2> HIDE DEF s, n, at
  <2>2. \A k \in 1..n : at(k) \in Component
    BY <1>6, <2>1
  <2>3. s \in Seq(Component) /\ s \in [1..n -> Component]
    BY <1>1, <2>1, <2>2, IsASeq
  <2> QED BY <1>1, <2>3, LenProperties
<1> HIDE DEF s, n, rank
<1>8. \A c \in S : s[rank[c]] = c
  BY <1>2, <1>4, <1>6
<1>9. \A i, j \in 1..n : s[i] = s[j] => i = j
  BY <1>6
<1> QED
  BY <1>2, <1>6, <1>7, <1>8, <1>9 DEF s, Lists

(* Two sequences which have nothing in common, one after the other.        *)
LEMMA ConcatLists ==
  ASSUME NEW S, NEW T, S \cap T = {}, NEW s, NEW t, NEW u, u = s \o t,
         Lists(s, S), Lists(t, T)
  PROVE  Lists(u, S \cup T)
<1> DEFINE m == Len(s)
           n == Len(t)
<1>1. m \in Nat /\ n \in Nat
  BY LenProperties DEF Lists
<1>2. /\ u \in Seq(Component) /\ Len(u) = m + n
      /\ \A i \in 1..(m + n) : u[i] = IF i <= m THEN s[i] ELSE t[i - m]
  BY ConcatProperties DEF Lists
<1>. /\ \A i \in 1..m : s[i] \in S
     /\ \A i \in 1..n : t[i] \in T
     /\ \A c \in S : \E i \in 1..m : s[i] = c
     /\ \A c \in T : \E i \in 1..n : t[i] = c
     /\ \A i, j \in 1..m : s[i] = s[j] => i = j
     /\ \A i, j \in 1..n : t[i] = t[j] => i = j
  BY DEF Lists
<1> HIDE DEF m, n
<1>3. ASSUME NEW k \in 1..(m + n) PROVE u[k] \in S \cup T
  <2>1. k <= m => k \in 1..m
    BY <1>1
  <2>2. ~(k <= m) => k - m \in 1..n
    BY <1>1
  <2> QED BY <1>2, <2>1, <2>2
<1>4. ASSUME NEW i \in 1..m PROVE \E k \in 1..(m + n) : u[k] = s[i]
  <2>1. i \in 1..(m + n) /\ i <= m
    BY <1>1
  <2> QED BY <1>2, <2>1
<1>5. ASSUME NEW i \in 1..n PROVE \E k \in 1..(m + n) : u[k] = t[i]
  <2>1. m + i \in 1..(m + n) /\ ~(m + i <= m) /\ (m + i) - m = i
    BY <1>1
  <2>2. u[m + i] = t[(m + i) - m]
    BY <1>2, <2>1
  <2> QED BY <2>1, <2>2
<1>6. ASSUME NEW i \in 1..(m + n), NEW j \in 1..(m + n), u[i] = u[j] PROVE i = j
  <2>1. /\ i <= m => i \in 1..m /\ u[i] = s[i]
        /\ j <= m => j \in 1..m /\ u[j] = s[j]
    BY <1>1, <1>2
  <2>2. /\ ~(i <= m) => i - m \in 1..n /\ u[i] = t[i - m]
        /\ ~(j <= m) => j - m \in 1..n /\ u[j] = t[j - m]
    BY <1>1, <1>2
  <2>3. CASE i <= m /\ j <= m
    BY <1>6, <2>1, <2>3, ZenonT(30)
  <2>4. CASE ~(i <= m) /\ ~(j <= m)
    <3>1. i - m = j - m
      BY <1>6, <2>2, <2>4
    <3> QED BY <1>1, <3>1
  <2>5. ~(i <= m /\ ~(j <= m)) /\ ~(~(i <= m) /\ j <= m)
    BY <1>6, <2>1, <2>2
  <2> QED BY <2>3, <2>4, <2>5
<1>7. ASSUME NEW c \in S \cup T PROVE \E k \in 1..(m + n) : u[k] = c
  <2>1. (\E i \in 1..m : s[i] = c) \/ \E i \in 1..n : t[i] = c
    OBVIOUS
  <2> QED BY ONLY Zenon, <1>4, <1>5, <2>1
<1>8. 1..Len(u) = 1..(m + n)
  BY <1>2
<1> QED
  BY ONLY <1>2, <1>3, <1>6, <1>7, <1>8 DEF Lists

(* What is left of a sequence without its first element.                   *)
LEMMA TailFacts ==
  ASSUME NEW C, NEW s \in Seq(C), s # <<>>
  PROVE  /\ Tail(s) \in Seq(C) /\ 1 \in 1..Len(s) /\ s[1] = Head(s)
         /\ \A i \in 1..Len(Tail(s)) : i + 1 \in 1..Len(s) /\ Tail(s)[i] = s[i + 1]
         /\ \A i \in 1..Len(s) : s[i] = Head(s) \/ \E j \in 1..Len(Tail(s)) : Tail(s)[j] = s[i]
<1>1. Tail(s) \in Seq(C) /\ Len(Tail(s)) = Len(s) - 1 /\ Len(s) \in Nat
  BY HeadTailProperties, LenProperties
<1>2. \A i \in 1..Len(Tail(s)) : Tail(s)[i] = s[i + 1]
  BY HeadTailProperties
<1>3. Len(s) # 0
  BY EmptySeq, SeqEqual, LenProperties
<1>4. s[1] = Head(s)
  OBVIOUS
<1>5. \A i \in 1..Len(s) : i = 1 \/ (i - 1 \in 1..Len(Tail(s)) /\ (i - 1) + 1 = i)
  BY <1>1
<1>6. 1 \in 1..Len(s) /\ \A i \in 1..Len(Tail(s)) : i + 1 \in 1..Len(s)
  BY <1>1, <1>3
<1> QED
  BY <1>1, <1>2, <1>4, <1>5, <1>6

-----------------------------------------------------------------------------
(* What holds of the nets and the lists of pins as long as there are no    *)
(* errors: local nets are only joined where names, pins or ports connect   *)
(* them, every net still has a pin of its own, and a pin is in its list    *)
(* until its component or the pin itself has been taken out.               *)
NetsJoined ==
  /\ \A S \in SUBSET LocalNet : Closed(S) =>
       \A l \in S, m \in LocalNet : net_of[l] = net_of[m] => m \in S
  /\ \A l, m \in LocalNet : input.net[l] = input.net[m] => net_of[l] = net_of[m]
  /\ \A n \in nets : \E p \in Pin : input.net[input.local_net[p]] = n /\ NetOf(p) = n

PinsKept ==
  \A l \in LocalNet, p \in Pin :
    p \in cpins[l] <=> /\ p \notin input.bus /\ input.local_net[p] = l
                       /\ input.component[p] \in present
                       /\ input.component[p] = component => p \in pins

Parent(c) == input.parent[input.sheet[c]]

(* The loop over the composite components: which of them it has come to,   *)
(* what may have been removed, and the candidates for old-style ports.     *)
LoopKept ==
  /\ component \in Component \cup {None}
  /\ components = Component /\ present = Component \ remove_components
  /\ component = None => pins = {}
  /\ component # None =>
       component \in present /\ Composite(component) /\ pins \subseteq Cpins(component)
  /\ \A c \in Component : Composite(c) => c \in todo \cup remove_components \/ c = component
  /\ \A c \in todo : Composite(c) => c \in present
  /\ \A c \in remove_components \cup {component}, d \in todo :
       c # None /\ Composite(c) => c < d

RemovedKept ==
  /\ \A c \in remove_components :
       \/ Composite(c) \/ Parent(c) \in remove_components
       \/ /\ component # None /\ Parent(c) = component
          /\ \E x \in labels : x \in {input.portname[c], input.refdes[c]} \ {None}
  /\ component # None => candidates = {c \in Component : Parent(c) = component}

(* The ports still to be connected are those of a pin which has been taken *)
(* out of its net, and each of them can be connected and removed.          *)
PortsKept ==
  /\ ports \in Seq(Component)
  /\ \A i, j \in 1..Len(ports) : ports[i] = ports[j] => i = j
  /\ \A i \in 1..Len(ports) :
       /\ ports[i] \in present /\ ~Composite(ports[i])
       /\ \A q, r \in Cpins(ports[i]) : q = r
       /\ IsPort(ports[i]) \/ Cpins(ports[i]) # {}
  /\ ports # <<>> =>
       \E p \in Pin \ input.bus :
         /\ input.component[p] = component /\ NetOf(p) = dest_net /\ input.pinlabel[p] \in labels
         /\ \A i \in 1..Len(ports) : ports[i] \in PortsOf(p)

(* The pins of composite components the loop has come to, and their ports. *)
Processed(p) ==
  /\ p \notin input.bus /\ Composite(input.component[p])
  /\ \/ input.component[p] \in remove_components
     \/ input.component[p] = component /\ p \notin pins

PortsJoined ==
  \A p \in Pin : Processed(p) =>
    \A c \in PortsOf(p) : \A q \in Cpins(c) :
      \/ NetOf(p) = NetOf(q)
      \/ NetOf(p) = dest_net /\ \E i \in 1..Len(ports) : ports[i] = c

(* After the loop.                                                         *)
LoopDone ==
  /\ component = None /\ JoinedByPorts
  /\ \A c \in components : ~Composite(c) /\ ~IsPort(c)
  /\ IF pc = "graphical"
     THEN /\ present = components \ remove_components
          /\ components \cap input.graphical \subseteq todo \cup remove_components
     ELSE present = components /\ components \cap input.graphical = {}

Clean == ~failed /\ pc # "crashed"

ResolvedInv ==
  /\ input \in Input
  /\ Clean =>
       /\ ~BlueprintErrors /\ NetsJoined /\ PinsKept
       /\ IF pc = "hierarchy" THEN LoopKept /\ RemovedKept /\ PortsKept /\ PortsJoined
          ELSE LoopDone

(* What the constants say about an input.                                  *)
LEMMA InputFacts ==
  ASSUME input \in Input
  PROVE  /\ input \in InputType /\ None \notin Component
         /\ Component \subseteq Nat /\ Pin \subseteq Nat
         /\ \A p \in Pin : input.component[p] \in Component /\ input.local_net[p] \in LocalNet
         /\ \A c \in Component : input.sheet[c] \in Sheet /\ Parent(c) \in Component \cup {None}
         /\ \A c \in Component : Parent(c) # None => Parent(c) < c
         /\ \A c \in Component : \A d : input.sheet[c] \in Subsheets(d) <=> Parent(c) = d
         /\ \A c : \A p : p \in Cpins(c) <=> p \in Pin \ input.bus /\ input.component[p] = c
         /\ \A l \in LocalNet : input.net[l] \in Net
         /\ \A c : IsFiniteSet(Pins(c)) /\ IsFiniteSet(Cpins(c))
<1>1. input \in InputType /\ None \notin Component /\ Component \subseteq Nat /\ Pin \subseteq Nat
  BY HierarchyAssumption
<1>2. /\ input.component \in [Pin -> Component] /\ input.local_net \in [Pin -> LocalNet]
      /\ input.sheet \in [Component -> Sheet] /\ input.parent \in [Sheet -> Component \cup {None}]
      /\ input.net \in [LocalNet -> Net]
  BY <1>1 DEF InputType
<1>3. \A c \in Component : input.sheet[c] \in Sheet /\ Parent(c) \in Component \cup {None}
  BY <1>2 DEF Parent
<1>4. \A c \in Component : Parent(c) # None => Parent(c) < c
  BY HierarchyAssumption DEF Parent
<1>5. \A c \in Component : \A d : input.sheet[c] \in Subsheets(d) <=> Parent(c) = d
  BY <1>3 DEF Parent, Subsheets
<1>6. \A c : \A p : p \in Cpins(c) <=> p \in Pin \ input.bus /\ input.component[p] = c
  BY DEF Cpins, Pins
<1>7. ASSUME NEW c PROVE IsFiniteSet(Pins(c)) /\ IsFiniteSet(Cpins(c))
  <2>1. IsFiniteSet(Pin)
    BY HierarchyAssumption
  <2>2. Pins(c) \in SUBSET Pin /\ Cpins(c) \in SUBSET Pin
    BY DEF Pins, Cpins
  <2> QED BY ONLY <2>1, <2>2, FS_Subset
<1> QED
  BY <1>1, <1>2, <1>3, <1>4, <1>5, <1>6, <1>7

(* What only depends on the input doesn't change.                          *)
LEMMA InputSame ==
  ASSUME input' = input
  PROVE  /\ \A c : /\ Composite(c)' <=> Composite(c)
                   /\ IsPort(c)' <=> IsPort(c)
                   /\ Cpins(c)' = Cpins(c)
                   /\ Parent(c)' = Parent(c)
         /\ \A p : PortsOf(p)' = PortsOf(p)
         /\ \A S : Closed(S)' <=> Closed(S)
         /\ BlueprintErrors' <=> BlueprintErrors
<1>1. \A c : /\ Composite(c)' <=> Composite(c)
             /\ IsPort(c)' <=> IsPort(c)
             /\ Cpins(c)' = Cpins(c)
             /\ Parent(c)' = Parent(c)
  BY DEF Composite, IsPort, Cpins, Pins, Parent
<1>2. \A p : PortsOf(p)' = PortsOf(p)
  BY DEF PortsOf
<1>3. \A S : Closed(S)' <=> Closed(S)
  BY DEF Closed, Joined, PortsOf, Composite, IsPort, Cpins, Pins
<1>4. BlueprintErrors' <=> BlueprintErrors
  BY DEF BlueprintErrors, IsPort, Pins
<1> QED
  BY <1>1, <1>2, <1>3, <1>4

(* A port with a portname is only that, and has at most one pin.           *)
LEMMA PortFacts ==
  ASSUME input \in Input, ~BlueprintErrors, NEW c \in Component, IsPort(c)
  PROVE  /\ input.refdes[c] = None /\ ~Composite(c) /\ c \notin input.graphical
         /\ \A q, r \in Cpins(c) : q = r
<1>1. input.refdes[c] = None /\ Cardinality(Pins(c)) = 1 /\ c \notin input.graphical
  BY DEF BlueprintErrors
<1>2. ~Composite(c)
  BY DEF Composite
<1>3. \E x : Pins(c) = {x}
  BY <1>1, InputFacts, FS_Singleton
<1> QED
  BY <1>1, <1>2, <1>3 DEF Cpins

(* Before anything is joined.                                              *)
LEMMA ResInit == Init => ResolvedInv
<1> SUFFICES ASSUME Init, Clean
             PROVE  /\ input \in Input /\ ~BlueprintErrors /\ NetsJoined /\ PinsKept
                    /\ LoopKept /\ RemovedKept /\ PortsKept /\ PortsJoined
  BY DEF ResolvedInv, Init
<1>1. input \in Input /\ ~BlueprintErrors /\ component = None /\ ports = <<>> /\ pins = {}
  BY DEF Init, Clean
<1>2. NetsJoined
  <2>1. ASSUME NEW S \in SUBSET LocalNet, Closed(S), NEW l \in S, NEW m \in LocalNet,
               net_of[l] = net_of[m]
        PROVE  m \in S
    BY <2>1 DEF Init, Closed, Joined
  <2>2. \A n \in nets : \E p \in Pin : input.net[input.local_net[p]] = n /\ NetOf(p) = n
    BY DEF Init, NetOf
  <2>3. \A l, m \in LocalNet : input.net[l] = input.net[m] => net_of[l] = net_of[m]
    BY DEF Init
  <2> QED BY <2>1, <2>2, <2>3 DEF NetsJoined
<1>3. PinsKept
  BY <1>1, InputFacts DEF Init, PinsKept
<1>4. LoopKept
  BY <1>1 DEF Init, LoopKept
<1>5. RemovedKept
  BY <1>1 DEF Init, RemovedKept
<1>6. PortsKept
  BY <1>1 DEF PortsKept
<1>7. PortsJoined
  BY <1>1, InputFacts DEF Init, PortsJoined, Processed
<1> QED
  BY <1>1, <1>2, <1>3, <1>4, <1>5, <1>6, <1>7

(* The loop comes to the next composite component.                         *)
LEMMA ResStartComposite == HierarchyInv /\ ResolvedInv /\ StartComposite => ResolvedInv'
<1> SUFFICES ASSUME HierarchyInv, ResolvedInv, StartComposite, Clean'
             PROVE  /\ ~BlueprintErrors' /\ NetsJoined' /\ PinsKept'
                    /\ LoopKept' /\ RemovedKept' /\ PortsKept' /\ PortsJoined'
  BY DEF ResolvedInv, StartComposite
<1>0. PICK d : d = Min({c \in todo : Composite(c)})
  OBVIOUS
<1>1. /\ pc = "hierarchy" /\ component = None /\ component' = d
      /\ todo' = {c \in todo : c > d}
      /\ candidates' = {c \in present : input.sheet[c] \in Subsheets(d)}
      /\ pins' = Cpins(d) /\ labels' = {}
      /\ input' = input /\ components' = components /\ present' = present /\ cpins' = cpins
      /\ net_of' = net_of /\ nets' = nets /\ failed' = failed /\ pc' = pc /\ ports' = ports
      /\ dest_net' = dest_net /\ remove_components' = remove_components
  BY <1>0 DEF StartComposite, lists, netlist
<1>2. todo \cup present \cup remove_components \subseteq Component
  BY DEF HierarchyInv, PinsListed, TypeOK
<1>3. d \in todo /\ Composite(d) /\ \A c \in todo : Composite(c) => d <= c
  <2>1. {c \in todo : Composite(c)} # {}
    BY DEF StartComposite
  <2>2. {c \in todo : Composite(c)} \subseteq Nat
    BY <1>2, HierarchyAssumption
  <2> QED BY <1>0, <2>1, <2>2, MinIsIn
<1>4. /\ input \in Input /\ ~BlueprintErrors /\ NetsJoined /\ PinsKept
      /\ LoopKept /\ RemovedKept /\ PortsKept /\ PortsJoined
  BY <1>1 DEF ResolvedInv, Clean
<1>5. d \in Component /\ d # None /\ d \in present /\ d \notin remove_components
  BY <1>2, <1>3, <1>4, InputFacts DEF LoopKept
<1>6. ports = <<>>
  BY <1>1, <1>4, InputFacts DEF PortsKept
<1>7. ~BlueprintErrors'
  BY <1>1, <1>4, InputSame
<1>8. NetsJoined'
  BY <1>1, <1>4, InputSame DEF NetsJoined, NetOf
<1>9. PinsKept'
  BY <1>1, <1>4, <1>5, InputFacts DEF PinsKept
<1>10. LoopKept'
  <2>1. ASSUME NEW c \in Component, Composite(c)
        PROVE  c \in todo' \cup remove_components \/ c = d
    <3>1. CASE c \in todo
      <4>1. d <= c /\ c \in Nat /\ d \in Nat
        BY <1>3, <1>4, <1>5, <2>1, <3>1, InputFacts
      <4> QED BY <1>1, <3>1, <4>1
    <3>2. CASE c \notin todo
      BY <1>1, <1>4, <1>5, <2>1, <3>2, InputFacts DEF LoopKept
    <3> QED BY <3>1, <3>2
  <2>2. ASSUME NEW c \in remove_components \cup {d}, NEW e \in todo', Composite(c) PROVE c < e
    <3>1. e \in todo /\ e > d /\ e \in Nat /\ d \in Nat
      BY <1>1, <1>2, <1>4, <1>5, InputFacts
    <3>2. CASE c = d
      BY <3>1, <3>2
    <3>3. CASE c \in remove_components
      <4>1. c # None
        BY <1>2, <1>4, <3>3, InputFacts
      <4> QED BY <1>4, <2>2, <3>1, <3>3, <4>1 DEF LoopKept
    <3> QED BY <3>2, <3>3
  <2>3. \A c : Composite(c)' <=> Composite(c)
    BY <1>1, InputSame
  <2>4. Cpins(d)' = Cpins(d)
    BY <1>1, InputSame
  <2>5. \A c \in todo' : Composite(c) => c \in present
    BY <1>1, <1>4 DEF LoopKept
  <2> QED BY <1>1, <1>3, <1>4, <1>5, <2>1, <2>2, <2>3, <2>4, <2>5 DEF LoopKept
<1>11. RemovedKept'
  <2>1. ASSUME NEW c \in Component, Parent(c) = d PROVE c \in present
    <3>1. d < c /\ c \in Nat /\ d \in Nat
      BY <1>4, <1>5, <2>1, InputFacts
    <3>2. c \in remove_components => Composite(c)
      BY <1>1, <1>4, <1>5, <2>1 DEF RemovedKept
    <3>3. c \in remove_components /\ Composite(c) => c < d
      BY <1>3, <1>4, <1>5, InputFacts DEF LoopKept
    <3>4. c \notin remove_components
      BY <3>1, <3>2, <3>3
    <3> QED BY <1>4, <3>4 DEF LoopKept
  <2>2. candidates' = {c \in Component : Parent(c) = d}
    BY <1>1, <1>2, <1>4, <2>1, InputFacts
  <2>3. \A c : (Composite(c)' <=> Composite(c)) /\ Parent(c)' = Parent(c)
    BY <1>1, InputSame
  <2>4. \A c \in remove_components : Composite(c) \/ Parent(c) \in remove_components
    BY <1>1, <1>4 DEF RemovedKept
  <2> QED BY <1>1, <2>2, <2>3, <2>4 DEF RemovedKept
<1>12. PortsKept'
  BY <1>1, <1>4, <1>6 DEF PortsKept
<1>13. PortsJoined'
  <2>1. \A p \in Pin : Processed(p)' => Processed(p)
    BY <1>1, <1>4, <1>5, InputFacts, InputSame DEF Processed
  <2>2. \A c : Cpins(c)' = Cpins(c) /\ PortsOf(c)' = PortsOf(c)
    BY <1>1, InputSame
  <2> QED BY <1>1, <1>4, <2>1, <2>2 DEF PortsJoined, NetOf
<1> QED
  BY <1>7, <1>8, <1>9, <1>10, <1>11, <1>12, <1>13

(* A pin of the composite component is taken out of its net; the ports with*)
(* its label can all be connected with that net and removed.               *)
LEMMA ResDisconnectPin == HierarchyInv /\ ResolvedInv /\ DisconnectPin => ResolvedInv'
<1> SUFFICES ASSUME HierarchyInv, ResolvedInv, DisconnectPin, Clean'
             PROVE  /\ ~BlueprintErrors' /\ NetsJoined' /\ PinsKept'
                    /\ LoopKept' /\ RemovedKept' /\ PortsKept' /\ PortsJoined'
  BY DEF ResolvedInv, DisconnectPin
<1>1. PICK p, l, label : p = Min(pins) /\ l = input.local_net[p] /\ label = input.pinlabel[p]
  OBVIOUS
<1>2. PICK N, O : N = NewPorts(label) /\ O = {c \in OldPorts(label) : Usable(c)}
  OBVIOUS
<1>3. /\ pc = "hierarchy" /\ pins # {} /\ ports = <<>> /\ Disconnectable(p)
      /\ cpins' = [cpins EXCEPT ![l] = @ \ {p}]
      /\ dest_net' = net_of[l]
      /\ labels' = labels \cup ({label} \ {None})
      /\ ports' = IF Matched(p) THEN InOrder(N) \o InOrder(O) ELSE <<>>
      /\ failed' = (failed \/ ~Matched(p) \/ \E c \in OldPorts(label) : OldPortErrors(c))
      /\ pins' = pins \ {p}
  BY <1>1, <1>2 DEF DisconnectPin
<1>4. /\ input' = input /\ components' = components /\ present' = present /\ net_of' = net_of
      /\ nets' = nets /\ pc' = pc /\ todo' = todo /\ component' = component
      /\ candidates' = candidates /\ remove_components' = remove_components
  BY DEF DisconnectPin
<1>5. Matched(p) /\ \A c \in OldPorts(label) : ~OldPortErrors(c)
  BY <1>3 DEF Clean
<1>6. label \notin labels /\ label # None
  BY <1>1, <1>5 DEF Matched
<1>7. /\ input \in Input /\ ~BlueprintErrors /\ NetsJoined /\ PinsKept
      /\ LoopKept /\ RemovedKept /\ PortsKept /\ PortsJoined
  BY <1>3, <1>4 DEF ResolvedInv, Clean
<1>8. /\ component \in present /\ component \in Component /\ Composite(component) /\ component # None
      /\ pins \subseteq Cpins(component) /\ component \notin remove_components
  BY <1>3, <1>7 DEF LoopKept
<1>9. p \in pins /\ p \in Pin \ input.bus /\ input.component[p] = component /\ l \in LocalNet
  <2>1. pins \subseteq Pin
    BY DEF HierarchyInv, PinLists
  <2>2. p \in pins
    BY <1>1, <1>3, <2>1, MinIsIn, HierarchyAssumption
  <2> QED BY <1>1, <1>7, <1>8, <2>2, InputFacts
<1>10. ~BlueprintErrors' /\ NetsJoined'
  BY <1>4, <1>7, InputSame DEF NetsJoined, NetOf
<1>11. PinsKept'
  <2>1. \A m \in LocalNet : cpins'[m] = IF m = l THEN cpins[m] \ {p} ELSE cpins[m]
    BY <1>3, <1>9 DEF HierarchyInv, PinLists
  <2>2. \A m \in LocalNet, r \in Pin : r \in cpins'[m] <=> r \in cpins[m] /\ r # p
    <3>1. \A m \in LocalNet, r \in Pin : r \in cpins[m] /\ r = p => m = l
      BY <1>1 DEF HierarchyInv, PinLists
    <3> QED BY <2>1, <3>1
  <2> QED BY <1>3, <1>4, <1>7, <1>8, <1>9, <2>2 DEF PinsKept
<1>12. LoopKept'
  BY <1>3, <1>4, <1>7, <1>8, InputSame DEF LoopKept
<1>13. RemovedKept'
  <2>1. \A c : (Composite(c)' <=> Composite(c)) /\ Parent(c)' = Parent(c)
    BY <1>4, InputSame
  <2> QED BY <1>3, <1>4, <1>7, <2>1 DEF RemovedKept
<1>14. ASSUME NEW c \in N
       PROVE  /\ c \in Component /\ c \in present /\ ~Composite(c) /\ c \in PortsOf(p)
              /\ input.refdes[c] = None /\ IsPort(c) /\ \A q, r \in Cpins(c) : q = r
  <2>1. c \in Component /\ Parent(c) = component /\ input.portname[c] = label
    BY <1>2, <1>7, InputFacts DEF NewPorts
  <2>2. input.refdes[c] = None /\ ~Composite(c) /\ \A q, r \in Cpins(c) : q = r
    BY <1>6, <1>7, <2>1, PortFacts DEF IsPort
  <2>5. IsPort(c)
    BY <1>6, <2>1 DEF IsPort
  <2>3. c \in present
    BY <1>1, <1>2, <1>3, <1>5 DEF Disconnectable
  <2>4. c \in PortsOf(p)
    BY <1>1, <1>6, <1>9, <2>1 DEF PortsOf, Parent
  <2> QED BY <2>1, <2>2, <2>3, <2>4, <2>5
<1>15. ASSUME NEW c \in O
       PROVE  /\ c \in Component /\ c \in present /\ ~Composite(c) /\ c \in PortsOf(p)
              /\ input.refdes[c] # None /\ Cpins(c) # {} /\ \A q, r \in Cpins(c) : q = r
  <2>1. c \in Component /\ Parent(c) = component /\ input.refdes[c] = label
    BY <1>2, <1>7, <1>8 DEF OldPorts, RemovedKept
  <2>2. ~Composite(c)
    BY <1>2, <1>5 DEF OldPortErrors
  <2>3. ~IsPort(c)
    BY <1>6, <1>7, <2>1, PortFacts
  <2>4. c \notin remove_components
    BY <1>6, <1>7, <1>8, <2>1, <2>2, <2>3 DEF RemovedKept, IsPort
  <2>5. c \in PortsOf(p)
    BY <1>1, <1>6, <1>9, <2>1 DEF PortsOf, Parent
  <2>6. \E x : Cpins(c) = {x}
    BY <1>2, <1>7, InputFacts, FS_Singleton DEF Usable
  <2> QED BY <1>6, <1>7, <2>1, <2>2, <2>4, <2>5, <2>6 DEF LoopKept
<1>16. ASSUME NEW c \in PortsOf(p) PROVE c \in N \cup O
  <2>1. c \in Component /\ Parent(c) = component /\ label \in {input.portname[c], input.refdes[c]}
    BY <1>1, <1>9 DEF PortsOf, Parent
  <2>2. CASE input.portname[c] = label
    BY <1>2, <1>7, <2>1, <2>2, InputFacts DEF NewPorts
  <2>3. CASE input.refdes[c] = label
    <3>1. c \in OldPorts(label)
      BY <1>7, <1>8, <2>1, <2>3 DEF OldPorts, RemovedKept
    <3> QED BY <1>2, <1>5, <3>1 DEF OldPortErrors
  <2> QED BY <2>1, <2>2, <2>3
<1>17. PICK s, t : s = InOrder(N) /\ t = InOrder(O) /\ ports' = s \o t
  BY <1>3, <1>5
<1>18. Lists(s, N) /\ Lists(t, O)
  <2>1. N \in SUBSET Component /\ O \in SUBSET Component
    BY <1>14, <1>15
  <2> QED BY ONLY <1>17, <2>1, InOrderLists
<1>19. N \cap O = {}
  BY <1>14, <1>15
<1>20. Lists(ports', N \cup O)
  BY ONLY <1>17, <1>18, <1>19, ConcatLists
<1>21. PortsKept'
  <2>1. \A c : /\ (Composite(c)' <=> Composite(c)) /\ (IsPort(c)' <=> IsPort(c))
               /\ Cpins(c)' = Cpins(c) /\ PortsOf(c)' = PortsOf(c)
    BY <1>4, InputSame
  <2>2. \A c \in N \cup O : /\ c \in present /\ ~Composite(c) /\ c \in PortsOf(p)
                            /\ IsPort(c) \/ Cpins(c) # {}
                            /\ \A q, r \in Cpins(c) : q = r
    BY <1>14, <1>15
  <2>3. NetOf(p)' = dest_net' /\ input.pinlabel[p] \in labels'
    BY <1>1, <1>3, <1>4, <1>6 DEF NetOf
  <2> QED BY <1>4, <1>9, <1>20, <2>1, <2>2, <2>3 DEF PortsKept, Lists
<1>22. PortsJoined'
  <2>1. \A c : Cpins(c)' = Cpins(c) /\ PortsOf(c)' = PortsOf(c) /\ NetOf(c)' = NetOf(c)
    BY <1>4, InputSame DEF NetOf
  <2>2. ASSUME NEW r \in Pin, Processed(r)', NEW c \in PortsOf(r), NEW q \in Cpins(c)
        PROVE  \/ NetOf(r) = NetOf(q)
               \/ NetOf(r) = dest_net' /\ \E i \in 1..Len(ports') : ports'[i] = c
    <3>1. CASE r = p
      BY <1>1, <1>3, <1>16, <1>20, <2>2, <3>1 DEF NetOf, Lists
    <3>2. CASE r # p
      <4>1. Processed(r)
        BY <1>3, <1>4, <2>2, <3>2, InputSame DEF Processed
      <4>2. NetOf(r) = NetOf(q) \/ \E i \in 1..Len(ports) : ports[i] = c
        BY <1>7, <4>1 DEF PortsJoined
      <4>3. Len(ports) = 0
        BY <1>3
      <4> QED BY <4>2, <4>3
    <3> QED BY <3>1, <3>2
  <2> QED BY <2>1, <2>2 DEF PortsJoined
<1> QED
  BY <1>10, <1>11, <1>12, <1>13, <1>21, <1>22

(* The first port is connected with the net of the pin, which becomes that *)
(* of everything on the port's net, and removed.                           *)
LEMMA ResConnectPort == HierarchyInv /\ ResolvedInv /\ ConnectPort => ResolvedInv'
<1> SUFFICES ASSUME HierarchyInv, ResolvedInv, ConnectPort, Clean'
             PROVE  /\ ~BlueprintErrors' /\ NetsJoined' /\ PinsKept'
                    /\ LoopKept' /\ RemovedKept' /\ PortsKept' /\ PortsJoined'
  BY DEF ResolvedInv, ConnectPort, loop
<1>1. PICK port, q, l, src, dest :
        /\ port = Head(ports) /\ q = PortPin(port) /\ l = input.local_net[q] /\ src = net_of[l]
        /\ dest = dest_net
  OBVIOUS
<1>2. /\ pc = "hierarchy" /\ ports # <<>> /\ Connectable(port)
      /\ net_of' = [m \in LocalNet |-> IF net_of[m] = src THEN dest ELSE net_of[m]]
      /\ nets' = nets \ ({src} \ {dest})
      /\ cpins' = [cpins EXCEPT ![l] = @ \ {q}]
      /\ present' = present \ {port}
      /\ remove_components' = remove_components \cup {port}
      /\ ports' = Tail(ports)
  BY <1>1 DEF ConnectPort, Redirected, NetsLeft
<1>3. /\ input' = input /\ components' = components /\ failed' = failed /\ pc' = pc /\ todo' = todo
      /\ component' = component /\ candidates' = candidates /\ labels' = labels
      /\ dest_net' = dest_net /\ pins' = pins
  BY DEF ConnectPort, loop
<1>4. /\ input \in Input /\ ~BlueprintErrors /\ NetsJoined /\ PinsKept
      /\ LoopKept /\ RemovedKept /\ PortsKept /\ PortsJoined
  BY <1>2, <1>3 DEF ResolvedInv, Clean
<1>5. /\ Tail(ports) \in Seq(Component) /\ 1 \in 1..Len(ports) /\ ports[1] = port
      /\ \A i \in 1..Len(Tail(ports)) : i + 1 \in 1..Len(ports) /\ Tail(ports)[i] = ports[i + 1]
      /\ \A i \in 1..Len(ports) :
           ports[i] = port \/ \E j \in 1..Len(Tail(ports)) : Tail(ports)[j] = ports[i]
  BY <1>1, <1>2, <1>4, TailFacts DEF PortsKept
<1>6. PICK p \in Pin \ input.bus :
        /\ input.component[p] = component /\ NetOf(p) = dest /\ input.pinlabel[p] \in labels
        /\ \A i \in 1..Len(ports) : ports[i] \in PortsOf(p)
  BY <1>1, <1>2, <1>4 DEF PortsKept
<1>7. component \in Component /\ component # None /\ Composite(component) /\ component \in present
  BY <1>4, <1>6, InputFacts DEF LoopKept
<1>8. /\ port \in Component /\ port \in present /\ ~Composite(port) /\ port \in PortsOf(p)
      /\ \A r, x \in Cpins(port) : r = x
  <2>1. port \in PortsOf(p)
    BY <1>5, <1>6
  <2>2. port \in present /\ ~Composite(port) /\ \A r, x \in Cpins(port) : r = x
    BY <1>4, <1>5 DEF PortsKept
  <2> QED BY <2>1, <2>2 DEF PortsOf
<1>9. q \in Cpins(port) /\ q \in Pin \ input.bus /\ input.component[q] = port /\ l \in LocalNet
  <2>1. Cpins(port) # {} /\ Cpins(port) \subseteq Nat
    BY <1>2, HierarchyAssumption DEF Connectable, Cpins, Pins
  <2>2. q \in Cpins(port)
    BY <1>1, <2>1, MinIsIn DEF PortPin
  <2> QED BY <1>1, <1>4, <2>2, InputFacts
<1>10. \A m \in LocalNet : net_of'[m] = IF net_of[m] = src THEN dest ELSE net_of[m]
  BY <1>2
<1>11. net_of[l] = src /\ net_of[input.local_net[p]] = dest /\ input.local_net[p] \in LocalNet
  BY <1>1, <1>4, <1>6, InputFacts DEF NetOf
<1>12. ~BlueprintErrors'
  BY <1>3, <1>4, InputSame
<1>13. NetsJoined'
  <2>1. ASSUME NEW S \in SUBSET LocalNet, Closed(S), NEW x \in S, NEW y \in LocalNet,
               net_of'[x] = net_of'[y]
        PROVE  y \in S
    <3>1. Joined(l, input.local_net[p]) /\ Joined(input.local_net[p], l)
      BY <1>1, <1>6, <1>7, <1>8, <1>9 DEF Joined
    <3>2. l \in S <=> input.local_net[p] \in S
      BY <1>9, <1>11, <2>1, <3>1 DEF Closed
    <3>3. \A m, n \in LocalNet : m \in S /\ net_of[m] = net_of[n] => n \in S
      BY <1>4, <2>1 DEF NetsJoined
    <3> QED BY <1>9, <1>10, <1>11, <2>1, <3>2, <3>3
  <2>2. \A x, y \in LocalNet : input.net[x] = input.net[y] => net_of'[x] = net_of'[y]
    BY <1>4, <1>10 DEF NetsJoined
  <2>3. ASSUME NEW n \in nets'
        PROVE  \E r \in Pin : input.net[input.local_net[r]] = n /\ net_of'[input.local_net[r]] = n
    <3>1. PICK r \in Pin : input.net[input.local_net[r]] = n /\ net_of[input.local_net[r]] = n
      BY <1>2, <1>4 DEF NetsJoined, NetOf
    <3>2. n = src => n = dest
      BY <1>2
    <3> QED BY <1>4, <1>10, <3>1, <3>2, InputFacts
  <2> QED BY <1>3, <2>1, <2>2, <2>3, InputSame DEF NetsJoined, NetOf
<1>14. PinsKept'
  <2>1. \A m \in LocalNet : cpins'[m] = IF m = l THEN cpins[m] \ {q} ELSE cpins[m]
    BY <1>2, <1>9 DEF HierarchyInv, PinLists
  <2>2. \A m \in LocalNet, r \in Pin : r \in cpins'[m] <=> r \in cpins[m] /\ r # q
    <3>1. \A m \in LocalNet, r \in Pin : r \in cpins[m] /\ r = q => m = l
      BY <1>1 DEF HierarchyInv, PinLists
    <3> QED BY <2>1, <3>1
  <2>3. \A r \in Pin \ input.bus : input.component[r] = port <=> r = q
    BY <1>4, <1>8, <1>9, InputFacts
  <2> QED BY <1>2, <1>3, <1>4, <2>2, <2>3 DEF PinsKept
<1>15. LoopKept'
  <2>1. \A c : (Composite(c)' <=> Composite(c)) /\ Cpins(c)' = Cpins(c)
    BY <1>3, InputSame
  <2> QED BY <1>2, <1>3, <1>4, <1>7, <1>8, <2>1 DEF LoopKept
<1>16. RemovedKept'
  <2>1. \A c : (Composite(c)' <=> Composite(c)) /\ Parent(c)' = Parent(c)
    BY <1>3, InputSame
  <2>2. /\ Parent(port) = component
        /\ \E x \in labels : x \in {input.portname[port], input.refdes[port]} \ {None}
    BY <1>6, <1>8 DEF PortsOf, Parent
  <2> QED BY <1>2, <1>3, <1>4, <1>7, <2>1, <2>2 DEF RemovedKept
<1>17. PortsKept'
  <2>1. \A c : /\ (Composite(c)' <=> Composite(c)) /\ (IsPort(c)' <=> IsPort(c))
               /\ Cpins(c)' = Cpins(c) /\ PortsOf(c)' = PortsOf(c)
    BY <1>3, InputSame
  <2>2. ASSUME NEW i \in 1..Len(ports'), NEW j \in 1..Len(ports'), ports'[i] = ports'[j] PROVE i = j
    <3>1. i + 1 = j + 1
      BY <1>2, <1>4, <1>5, <2>2 DEF PortsKept
    <3> QED BY <3>1
  <2>3. ASSUME NEW i \in 1..Len(ports')
        PROVE  /\ ports'[i] \in present' /\ ~Composite(ports'[i]) /\ ports'[i] \in PortsOf(p)
               /\ IsPort(ports'[i]) \/ Cpins(ports'[i]) # {}
               /\ \A r, x \in Cpins(ports'[i]) : r = x
    <3>1. i + 1 \in 1..Len(ports) /\ ports'[i] = ports[i + 1] /\ i + 1 # 1
      BY <1>2, <1>5
    <3>2. ports[i + 1] # port
      BY <1>4, <1>5, <3>1 DEF PortsKept
    <3> QED BY <1>2, <1>4, <1>6, <3>1, <3>2 DEF PortsKept
  <2>4. NetOf(p)' = dest_net'
    BY <1>1, <1>3, <1>10, <1>11 DEF NetOf
  <2>5. input'.component[p] = component' /\ input'.pinlabel[p] \in labels' /\ p \in Pin \ input'.bus
    BY <1>3, <1>6
  <2>6. PICK t : t = ports'
    OBVIOUS
  <2>7. ASSUME NEW i \in 1..Len(t)
        PROVE  /\ t[i] \in present' /\ ~Composite(t[i])' /\ t[i] \in PortsOf(p)'
               /\ IsPort(t[i])' \/ Cpins(t[i])' # {}
               /\ \A r, x \in Cpins(t[i])' : r = x
    BY <2>1, <2>3, <2>6
  <2>8. t \in Seq(Component) /\ \A i, j \in 1..Len(t) : t[i] = t[j] => i = j
    BY <1>2, <1>5, <2>2, <2>6
  <2> QED BY ONLY <2>4, <2>5, <2>6, <2>7, <2>8 DEF PortsKept
<1>18. PortsJoined'
  <2>1. \A c : Cpins(c)' = Cpins(c) /\ PortsOf(c)' = PortsOf(c)
    BY <1>3, InputSame
  <2>2. \A r \in Pin : NetOf(r)' = IF NetOf(r) = src THEN dest ELSE NetOf(r)
    BY <1>3, <1>4, <1>10, InputFacts DEF NetOf
  <2>3. NetOf(q) = src
    BY <1>1 DEF NetOf
  <2>4. ASSUME NEW r \in Pin, Processed(r)', NEW c \in PortsOf(r), NEW x \in Cpins(c)
        PROVE  \/ NetOf(r)' = NetOf(x)'
               \/ NetOf(r)' = dest /\ \E i \in 1..Len(ports') : ports'[i] = c
    <3>1. Processed(r) /\ x \in Pin
      BY <1>2, <1>3, <1>4, <1>8, <2>4, InputFacts, InputSame DEF Processed
    <3>2. \/ NetOf(r) = NetOf(x)
          \/ NetOf(r) = dest /\ \E i \in 1..Len(ports) : ports[i] = c
      BY <1>1, <1>4, <2>4, <3>1 DEF PortsJoined
    <3>3. CASE NetOf(r) = NetOf(x)
      BY <2>2, <3>1, <3>3
    <3>4. CASE NetOf(r) = dest /\ c = port
      <4>1. x = q
        BY <1>8, <1>9, <2>4, <3>4
      <4> QED BY <2>2, <2>3, <3>1, <3>4, <4>1
    <3>5. CASE NetOf(r) = dest /\ c # port /\ \E i \in 1..Len(ports) : ports[i] = c
      BY <1>2, <1>5, <2>2, <3>5
    <3> QED BY <3>2, <3>3, <3>4, <3>5
  <2> QED BY <1>1, <1>3, <2>1, <2>4 DEF PortsJoined
<1> QED
  BY <1>12, <1>13, <1>14, <1>15, <1>16, <1>17, <1>18

(* The composite component is removed when its pins have been connected.   *)
LEMMA ResFinishComposite == HierarchyInv /\ ResolvedInv /\ FinishComposite => ResolvedInv'
<1> SUFFICES ASSUME HierarchyInv, ResolvedInv, FinishComposite, Clean'
             PROVE  /\ ~BlueprintErrors' /\ NetsJoined' /\ PinsKept'
                    /\ LoopKept' /\ RemovedKept' /\ PortsKept' /\ PortsJoined'
  BY DEF ResolvedInv, FinishComposite
<1>1. /\ pc = "hierarchy" /\ component # None /\ pins = {} /\ ports = <<>>
      /\ present' = present \ {component}
      /\ remove_components' = remove_components \cup {component}
      /\ component' = None
      /\ input' = input /\ components' = components /\ cpins' = cpins /\ net_of' = net_of
      /\ nets' = nets /\ failed' = failed /\ pc' = pc /\ todo' = todo /\ candidates' = candidates
      /\ labels' = labels /\ dest_net' = dest_net /\ pins' = pins /\ ports' = ports
  BY DEF FinishComposite, netlist
<1>2. /\ input \in Input /\ ~BlueprintErrors /\ NetsJoined /\ PinsKept
      /\ LoopKept /\ RemovedKept /\ PortsKept /\ PortsJoined
  BY <1>1 DEF ResolvedInv, Clean
<1>3. component \in Component /\ Composite(component) /\ component \in present
  BY <1>1, <1>2 DEF LoopKept
<1>4. \A c : /\ (Composite(c)' <=> Composite(c)) /\ Parent(c)' = Parent(c)
             /\ Cpins(c)' = Cpins(c) /\ PortsOf(c)' = PortsOf(c)
  BY <1>1, InputSame
<1>5. ~BlueprintErrors' /\ NetsJoined'
  BY <1>1, <1>2, InputSame DEF NetsJoined, NetOf
<1>6. PinsKept'
  BY <1>1, <1>2, InputFacts DEF PinsKept
<1>7. LoopKept'
  <2>1. \A c \in todo : c # component
    BY <1>2, <1>3, InputFacts DEF LoopKept
  <2> QED BY <1>1, <1>2, <1>3, <1>4, <2>1 DEF LoopKept
<1>8. RemovedKept'
  BY <1>1, <1>2, <1>3, <1>4 DEF RemovedKept
<1>9. PortsKept'
  <2>1. ports' = <<>> /\ Len(ports') = 0
    BY <1>1
  <2> QED BY <2>1 DEF PortsKept
<1>10. PortsJoined'
  <2>1. \A p \in Pin : Processed(p)' => Processed(p)
    BY <1>1, <1>2, <1>4, InputFacts DEF Processed
  <2> QED BY <1>1, <1>2, <1>4, <2>1 DEF PortsJoined, NetOf
<1> QED
  BY <1>5, <1>6, <1>7, <1>8, <1>9, <1>10

(* After the loop all composite components and their ports have been dealt *)
(* with, and the nets are those which the pins and ports connect.          *)
LEMMA ResFinishHierarchy == HierarchyInv /\ ResolvedInv /\ FinishHierarchy => ResolvedInv'
<1> SUFFICES ASSUME HierarchyInv, ResolvedInv, FinishHierarchy, Clean'
             PROVE  ~BlueprintErrors' /\ NetsJoined' /\ PinsKept' /\ LoopDone'
  BY DEF ResolvedInv, FinishHierarchy
<1>1. /\ pc = "hierarchy" /\ component = None /\ \A c \in todo : ~Composite(c)
      /\ components' = components \ remove_components
      /\ failed' = (failed \/ \E c \in components' : IsPort(c))
      /\ pc' = "graphical" /\ todo' = components' \cap input.graphical
      /\ remove_components' = {}
      /\ input' = input /\ present' = present /\ cpins' = cpins /\ net_of' = net_of
      /\ nets' = nets /\ component' = component /\ pins' = pins
  BY DEF FinishHierarchy, Remaining, netlist, loop
<1>2. /\ input \in Input /\ ~BlueprintErrors /\ NetsJoined /\ PinsKept
      /\ LoopKept /\ RemovedKept /\ PortsKept /\ PortsJoined
  BY <1>1 DEF ResolvedInv, Clean
<1>3. ports = <<>> /\ Len(ports) = 0
  <2>1. ports = <<>>
    BY <1>1, <1>2, InputFacts DEF PortsKept
  <2> QED BY <2>1
<1>4. \A c : /\ (Composite(c)' <=> Composite(c)) /\ (IsPort(c)' <=> IsPort(c))
             /\ Cpins(c)' = Cpins(c) /\ PortsOf(c)' = PortsOf(c)
  BY <1>1, InputSame
<1>5. ~BlueprintErrors' /\ NetsJoined'
  BY <1>1, <1>2, InputSame DEF NetsJoined, NetOf
<1>6. PinsKept'
  BY <1>1, <1>2 DEF PinsKept
<1>7. \A c \in components' : ~Composite(c) /\ ~IsPort(c)
  <2>1. \A c \in components' : c \notin remove_components /\ c \in Component /\ c # None
    BY <1>1, <1>2, InputFacts DEF LoopKept
  <2>2. \A c \in components' : ~Composite(c)
    BY <1>1, <1>2, <2>1 DEF LoopKept
  <2>3. \A c \in components' : ~IsPort(c)
    BY <1>1 DEF Clean
  <2> QED BY <2>2, <2>3
<1>8. JoinedByPorts
  <2>1. ASSUME NEW x \in LocalNet, NEW y \in LocalNet, Joined(x, y) PROVE net_of[x] = net_of[y]
    <3>1. CASE input.net[x] = input.net[y]
      BY <1>2, <3>1 DEF NetsJoined
    <3>2. CASE input.net[x] # input.net[y]
      <4>1. PICK p \in Pin \ input.bus : \E c \in PortsOf(p) : \E q \in Cpins(c) :
              Composite(input.component[p]) /\ {x, y} = {input.local_net[p], input.local_net[q]}
        BY <2>1, <3>2 DEF Joined
      <4>2. PICK c \in PortsOf(p) : \E q \in Cpins(c) :
              Composite(input.component[p]) /\ {x, y} = {input.local_net[p], input.local_net[q]}
        BY <4>1
      <4>3. PICK q \in Cpins(c) :
              Composite(input.component[p]) /\ {x, y} = {input.local_net[p], input.local_net[q]}
        BY <4>2
      <4>4. input.component[p] \in remove_components
        BY <1>1, <1>2, <4>3, InputFacts DEF LoopKept
      <4>5. NetOf(p) = NetOf(q)
        BY <1>2, <1>3, <4>3, <4>4 DEF PortsJoined, Processed
      <4> QED BY <4>3, <4>5 DEF NetOf
    <3> QED BY <3>1, <3>2
  <2>2. ASSUME NEW n \in Net, NEW S \in SUBSET {l \in LocalNet : net_of[l] = n}, S # {}, Closed(S)
        PROVE  S = {l \in LocalNet : net_of[l] = n}
    BY <1>2, <2>2 DEF NetsJoined
  <2>3. ASSUME NEW n \in Net PROVE Closed({l \in LocalNet : net_of[l] = n})
    BY <2>1 DEF Closed
  <2> QED BY <2>2, <2>3 DEF JoinedByPorts
<1>9. LoopDone'
  <2>1. JoinedByPorts'
    BY <1>1, <1>8, InputSame DEF JoinedByPorts
  <2>2. present' = components' \ remove_components'
    BY <1>1, <1>2 DEF LoopKept
  <2> QED BY <1>1, <1>4, <1>7, <2>1, <2>2 DEF LoopDone
<1> QED
  BY <1>5, <1>6, <1>9

(* A graphical component is removed together with its pins.                *)
LEMMA ResRemoveGraphical == HierarchyInv /\ ResolvedInv /\ RemoveGraphical => ResolvedInv'
<1> SUFFICES ASSUME HierarchyInv, ResolvedInv, RemoveGraphical, Clean'
             PROVE  ~BlueprintErrors' /\ NetsJoined' /\ PinsKept' /\ LoopDone'
  BY DEF ResolvedInv, RemoveGraphical
<1>1. PICK c : c = Min(todo)
  OBVIOUS
<1>2. /\ pc = "graphical" /\ todo' = todo \ {c}
      /\ present' = present \ {c}
      /\ remove_components' = remove_components \cup {c}
      /\ cpins' = [l \in LocalNet |-> cpins[l] \ Cpins(c)]
      /\ input' = input /\ components' = components /\ net_of' = net_of /\ nets' = nets
      /\ failed' = failed /\ pc' = pc /\ component' = component /\ pins' = pins
  BY <1>1 DEF RemoveGraphical, loop
<1>3. input \in Input /\ ~BlueprintErrors /\ NetsJoined /\ PinsKept /\ LoopDone
  BY <1>2 DEF ResolvedInv, Clean
<1>4. ~BlueprintErrors' /\ NetsJoined'
  BY <1>2, <1>3, InputSame DEF NetsJoined, NetOf
<1>5. PinsKept'
  <2>1. \A l \in LocalNet, p \in Pin : p \in cpins'[l] <=> p \in cpins[l] /\ p \notin Cpins(c)
    BY <1>2
  <2>2. \A p \in Pin \ input.bus : p \in Cpins(c) <=> input.component[p] = c
    BY <1>3, InputFacts
  <2> QED BY <1>2, <1>3, <2>1, <2>2 DEF PinsKept
<1>6. LoopDone'
  <2>1. JoinedByPorts'
    BY <1>2, <1>3, InputSame DEF JoinedByPorts, LoopDone
  <2>2. \A d : (Composite(d)' <=> Composite(d)) /\ (IsPort(d)' <=> IsPort(d))
    BY <1>2, InputSame
  <2> QED BY <1>2, <1>3, <2>1, <2>2 DEF LoopDone
<1> QED
  BY <1>4, <1>5, <1>6

(* The lists are as they were, and no graphical component is left.         *)
LEMMA ResFinishGraphical == HierarchyInv /\ ResolvedInv /\ FinishGraphical => ResolvedInv'
<1> SUFFICES ASSUME HierarchyInv, ResolvedInv, FinishGraphical, Clean'
             PROVE  ~BlueprintErrors' /\ NetsJoined' /\ PinsKept' /\ LoopDone'
  BY DEF ResolvedInv, FinishGraphical
<1>1. /\ pc = "graphical" /\ todo = {} /\ pc' = "done"
      /\ components' = components \ remove_components
      /\ input' = input /\ present' = present /\ cpins' = cpins /\ net_of' = net_of /\ nets' = nets
      /\ failed' = failed /\ component' = component /\ pins' = pins
  BY DEF FinishGraphical, Remaining, netlist, loop
<1>2. input \in Input /\ ~BlueprintErrors /\ NetsJoined /\ PinsKept /\ LoopDone
  BY <1>1 DEF ResolvedInv, Clean
<1>3. ~BlueprintErrors' /\ NetsJoined' /\ PinsKept'
  BY <1>1, <1>2, InputSame DEF NetsJoined, PinsKept, NetOf
<1>4. LoopDone'
  <2>1. JoinedByPorts'
    BY <1>1, <1>2, InputSame DEF JoinedByPorts, LoopDone
  <2>2. \A d : (Composite(d)' <=> Composite(d)) /\ (IsPort(d)' <=> IsPort(d))
    BY <1>1, InputSame
  <2> QED BY <1>1, <1>2, <2>1, <2>2 DEF LoopDone
<1> QED
  BY <1>3, <1>4

(* An exception is the end.                                                *)
LEMMA ResCrash == ResolvedInv /\ Crash => ResolvedInv'
BY DEF ResolvedInv, Crash, Clean

(* Every step of the passes which resolve the hierarchy.                   *)
LEMMA ResNext == HierarchyInv /\ ResolvedInv /\ Next => ResolvedInv'
BY ResStartComposite, ResDisconnectPin, ResConnectPort, ResFinishComposite, ResCrash,
   ResFinishHierarchy, ResRemoveGraphical, ResFinishGraphical DEF Next

(* The invariant only depends on these variables.                          *)
LEMMA ResSame ==
  ASSUME ResolvedInv,
         UNCHANGED <<input, components, present, cpins, net_of, component, pins>>,
         nets' \subseteq nets, Clean' => Clean, pc \notin {"hierarchy", "graphical"},
         pc' \notin {"hierarchy", "graphical"}
  PROVE  ResolvedInv'
<1> SUFFICES ASSUME Clean' PROVE ~BlueprintErrors' /\ NetsJoined' /\ PinsKept' /\ LoopDone'
  BY DEF ResolvedInv
<1>1. ~BlueprintErrors /\ NetsJoined /\ PinsKept /\ LoopDone
  BY DEF ResolvedInv
<1>2. ~BlueprintErrors' /\ NetsJoined' /\ PinsKept'
  BY <1>1, InputSame DEF NetsJoined, PinsKept, NetOf
<1>3. JoinedByPorts'
  BY <1>1, InputSame DEF JoinedByPorts, LoopDone
<1>4. \A d : (Composite(d)' <=> Composite(d)) /\ (IsPort(d)' <=> IsPort(d))
  BY InputSame
<1> QED
  BY <1>1, <1>2, <1>3, <1>4 DEF LoopDone

(* Steps which change none of this.                                        *)
LEMMA ResStutter == ResolvedInv /\ UNCHANGED vars => ResolvedInv'
<1> SUFFICES ASSUME ResolvedInv, UNCHANGED vars PROVE ResolvedInv'
  OBVIOUS
<1> USE DEF vars, lists, netlist, loop
<1>1. /\ (BlueprintErrors' <=> BlueprintErrors) /\ (NetsJoined' <=> NetsJoined)
      /\ (PinsKept' <=> PinsKept)
  BY InputSame DEF NetsJoined, PinsKept, NetOf
<1>2. \A c : /\ (Composite(c)' <=> Composite(c)) /\ (IsPort(c)' <=> IsPort(c))
             /\ Parent(c)' = Parent(c) /\ Cpins(c)' = Cpins(c) /\ PortsOf(c)' = PortsOf(c)
  BY InputSame
<1>3. (LoopKept' <=> LoopKept) /\ (RemovedKept' <=> RemovedKept)
  BY <1>2 DEF LoopKept, RemovedKept
<1>4. (PortsKept' <=> PortsKept) /\ (PortsJoined' <=> PortsJoined)
  BY <1>2, ZenonT(30) DEF PortsKept, PortsJoined, Processed, NetOf
<1>5. JoinedByPorts' <=> JoinedByPorts
  BY InputSame DEF JoinedByPorts
<1>6. LoopDone' <=> LoopDone
  BY <1>2, <1>5 DEF LoopDone
<1>7. (Clean' <=> Clean) /\ input' = input /\ pc' = pc
  BY DEF Clean
<1> QED
  BY ONLY ResolvedInv, <1>1, <1>3, <1>4, <1>6, <1>7 DEF ResolvedInv

(* When the components have been removed, the lists have exactly the pins  *)
(* of those which are left.                                                *)
LEMMA PinsOnNets ==
  ASSUME HierarchyInv, ResolvedInv, Clean, pc \notin {"hierarchy", "graphical"}
  PROVE  /\ \A n \in Net : \A p :
              p \in component_pins[n] <=>
                /\ p \in Pin \ input.bus /\ input.component[p] \in components
                /\ NetOf(p) = n
         /\ pc \notin {"names", "finished", "read", "exited"} =>
              \A p \in Pin \ input.bus : input.component[p] \in components => NetOf(p) \in nets
<1>1. /\ input \in Input /\ PinsKept /\ component = None /\ present = components
      /\ components \subseteq Component
  BY DEF ResolvedInv, LoopDone, HierarchyInv, PinsListed, TypeOK
<1>2. \A l \in LocalNet : \A p : p \in cpins[l] <=>
        p \in Pin \ input.bus /\ input.local_net[p] = l /\ input.component[p] \in components
  <2>1. \A l \in LocalNet : cpins[l] \subseteq Pin
    BY DEF HierarchyInv, PinLists
  <2> QED BY <1>1, <2>1, InputFacts DEF PinsKept
<1>3. ASSUME NEW n \in Net, NEW p
      PROVE  p \in component_pins[n] <=>
               p \in Pin \ input.bus /\ input.component[p] \in components /\ NetOf(p) = n
  <2>1. component_pins[n] = UNION {cpins[l] : l \in {m \in LocalNet : net_of[m] = n}}
    BY DEF HierarchyInv, PinsListed
  <2>2. p \in component_pins[n] <=> \E l \in LocalNet : net_of[l] = n /\ p \in cpins[l]
    BY <2>1
  <2> QED BY <1>1, <1>2, <2>2, InputFacts DEF NetOf
<1>4. ASSUME pc \notin {"names", "finished", "read", "exited"}, NEW p \in Pin \ input.bus,
             input.component[p] \in components
      PROVE  NetOf(p) \in nets
  <2>1. input.local_net[p] \in LocalNet /\ p \in cpins[input.local_net[p]]
    BY <1>1, <1>2, <1>4, InputFacts
  <2> QED BY <1>4, <2>1 DEF HierarchyInv, PinsListed, NetOf
<1> QED
  BY <1>3, <1>4

(* The invariant says that the hierarchy is resolved at the end.           *)
LEMMA ResolvedMeans == HierarchyInv /\ ResolvedInv => HierarchyResolved
<1> SUFFICES ASSUME HierarchyInv, ResolvedInv, pc = "done", ~failed
             PROVE  JoinedByPorts /\ AllResolved
  BY DEF HierarchyResolved
<1>1. Clean /\ input \in Input /\ LoopDone
  BY DEF ResolvedInv, Clean
<1>2. components = present /\ JoinedByPorts
  BY <1>1 DEF LoopDone
<1>3. \A c \in components : ~Composite(c) /\ ~IsPort(c) /\ c \notin input.graphical
  BY <1>1 DEF LoopDone
<1>4. /\ \A n \in Net : \A p : p \in component_pins[n] <=>
           p \in Pin \ input.bus /\ input.component[p] \in components /\ NetOf(p) = n
      /\ \A p \in Pin \ input.bus : input.component[p] \in components => NetOf(p) \in nets
  BY <1>1, PinsOnNets
<1>5. nets \subseteq Net
  BY DEF HierarchyInv, PinsListed, TypeOK
<1>6. UNION {component_pins[n] : n \in nets} = UNION {Cpins(c) : c \in components}
  <2>1. \A p : p \in UNION {component_pins[n] : n \in nets} <=>
                 p \in Pin \ input.bus /\ input.component[p] \in components
    BY <1>4, <1>5
  <2>2. \A p : p \in UNION {Cpins(c) : c \in components} <=>
                 p \in Pin \ input.bus /\ input.component[p] \in components
    BY <1>1, InputFacts
  <2> QED BY <2>1, <2>2
<1>7. \A m, n \in Net : m # n => component_pins[m] \cap component_pins[n] = {}
  BY <1>4
<1> QED
  BY <1>2, <1>3, <1>6, <1>7 DEF AllResolved

(* If there are no errors, composite components are replaced by what is on *)
(* their subsheets: exactly the local nets which names, pins and ports     *)
(* connect are joined, and exactly the other components and their pins     *)
(* remain.                                                                 *)
THEOREM HierarchyIsResolved == Spec => []HierarchyResolved
<1>1. HierarchyInv /\ ResolvedInv /\ [Next]_vars => HierarchyInv' /\ ResolvedInv'
  BY InvNext, InvStutter, ResNext, ResStutter
<1> QED
  BY <1>1, InvInit, ResInit, ResolvedMeans, PTL DEF Spec

(* As long as there are no errors, everything is found in the list or the  *)
(* dictionary where it is looked for, but for the pin of an I/O symbol     *)
(* which is a bus.                                                         *)
LEMMA CrashMeans ==
  ASSUME HierarchyInv, ResolvedInv, Crash
  PROVE  failed \/ \E c \in Component : IsPort(c) /\ Pins(c) \cap input.bus # {}
<1> SUFFICES ASSUME ~failed
             PROVE  \E c \in Component : IsPort(c) /\ Pins(c) \cap input.bus # {}
  OBVIOUS
<1>1. /\ pc = "hierarchy" /\ component # None
      /\ CASE ports # <<>> -> ~Connectable(Head(ports))
           [] ports = <<>> /\ pins # {} -> ~Disconnectable(Min(pins))
           [] OTHER -> component \notin present
  BY DEF Crash
<1>2. /\ input \in Input /\ ~BlueprintErrors /\ PinsKept
      /\ LoopKept /\ RemovedKept /\ PortsKept
  BY <1>1 DEF ResolvedInv, Clean
<1>3. component \in Component /\ component \in present /\ Composite(component)
  BY <1>1, <1>2 DEF LoopKept
<1>4. ASSUME NEW p \in Pin, p \in cpins[input.local_net[p]]
      PROVE  Listed(p, net_of[input.local_net[p]])
  <2>1. input.local_net[p] \in LocalNet
    BY <1>2, InputFacts
  <2>2. net_of[input.local_net[p]] \in Net
    BY <2>1 DEF HierarchyInv, PinsListed, TypeOK
  <2> QED BY <1>4, <2>1, <2>2 DEF HierarchyInv, PinsListed, Listed
<1>5. CASE ports # <<>>
  <2>1. PICK port : port = Head(ports)
    OBVIOUS
  <2>2. ~Connectable(port)
    BY <1>1, <1>5, <2>1
  <2>3. 1 \in 1..Len(ports) /\ ports[1] = port
    BY <1>2, <1>5, <2>1, TailFacts DEF PortsKept
  <2>4. /\ port \in present /\ ~Composite(port) /\ \A q, r \in Cpins(port) : q = r
        /\ IsPort(port) \/ Cpins(port) # {}
    BY <1>2, <2>3 DEF PortsKept
  <2>5. port \in Component
    BY <1>2, <2>4 DEF LoopKept
  <2>6. CASE Cpins(port) = {}
    <3>1. IsPort(port) /\ Cardinality(Pins(port)) = 1
      BY <1>2, <2>4, <2>5, <2>6 DEF BlueprintErrors
    <3>2. \E x : Pins(port) = {x}
      BY <1>2, <3>1, InputFacts, FS_Singleton
    <3>3. Pins(port) \cap input.bus # {}
      BY <2>6, <3>2 DEF Cpins
    <3> QED BY <2>5, <3>1, <3>3
  <2>7. CASE Cpins(port) # {}
    <3>1. PICK q : q = PortPin(port)
      OBVIOUS
    <3>2. q \in Cpins(port)
      <4>1. Cpins(port) \subseteq Nat
        BY HierarchyAssumption DEF Cpins, Pins
      <4> QED BY <2>7, <3>1, <4>1, MinIsIn DEF PortPin
    <3>3. q \in Pin \ input.bus /\ input.component[q] = port /\ input.local_net[q] \in LocalNet
      BY <1>2, <3>2, InputFacts
    <3>4. q \in cpins[input.local_net[q]]
      BY <1>2, <1>3, <2>4, <3>3 DEF PinsKept
    <3> QED BY <1>4, <2>2, <2>4, <2>7, <3>1, <3>3, <3>4 DEF Connectable
  <2> QED BY <2>6, <2>7
<1>6. CASE ports = <<>> /\ pins # {}
  <2>1. PICK p : p = Min(pins)
    OBVIOUS
  <2>2. ~Disconnectable(p)
    BY <1>1, <1>6, <2>1
  <2>3. p \in pins
    <3>1. pins \subseteq Nat
      BY HierarchyAssumption DEF HierarchyInv, PinLists
    <3> QED BY <1>6, <2>1, <3>1, MinIsIn
  <2>4. p \in Pin \ input.bus /\ input.component[p] = component /\ input.local_net[p] \in LocalNet
    BY <1>1, <1>2, <2>3, InputFacts DEF LoopKept
  <2>5. Listed(p, net_of[input.local_net[p]])
    BY <1>2, <1>3, <1>4, <2>3, <2>4 DEF PinsKept
  <2>6. ASSUME Matched(p), NEW c \in NewPorts(input.pinlabel[p]) PROVE c \in present
    <3>1. c \in Component /\ Parent(c) = component /\ input.portname[c] = input.pinlabel[p]
      BY <1>2, InputFacts DEF NewPorts
    <3>2. input.pinlabel[p] \notin labels /\ input.pinlabel[p] # None
      BY <2>6 DEF Matched
    <3>3. input.refdes[c] = None /\ ~Composite(c)
      BY <1>2, <3>1, <3>2, PortFacts DEF IsPort
    <3>4. c \notin remove_components
      BY <1>2, <1>3, <3>1, <3>2, <3>3 DEF RemovedKept, LoopKept
    <3> QED BY <1>2, <3>1, <3>4 DEF LoopKept
  <2> QED BY <2>2, <2>5, <2>6 DEF Disconnectable
<1> QED
  BY <1>1, <1>3, <1>5, <1>6

(* An exception is what it was when it is reported.                        *)
LEMMA CrashNext ==
  ASSUME HierarchyInv, ResolvedInv, CrashReported, [Next]_vars
  PROVE  CrashReported'
<1>1. CASE UNCHANGED vars
  BY <1>1 DEF CrashReported, vars, IsPort, Pins
<1>2. CASE Crash
  BY <1>2, CrashMeans DEF CrashReported, Crash, IsPort, Pins
<1>3. CASE StartComposite \/ DisconnectPin \/ ConnectPort \/ FinishComposite \/ FinishHierarchy
           \/ RemoveGraphical \/ FinishGraphical
  <2>1. pc' # "crashed"
    BY <1>3 DEF StartComposite, DisconnectPin, ConnectPort, FinishComposite, FinishHierarchy,
                RemoveGraphical, FinishGraphical
  <2> QED BY <2>1 DEF CrashReported
<1> QED
  BY <1>1, <1>2, <1>3 DEF Next

(* The netlister only ends with an exception after it has reported an      *)
(* error, or if there is an I/O symbol whose pin is a bus.                 *)
THEOREM CrashesAreReported == Spec => []CrashReported
<1>1. HierarchyInv /\ ResolvedInv /\ [Next]_vars => HierarchyInv' /\ ResolvedInv'
  BY InvNext, InvStutter, ResNext, ResStutter
<1>2. HierarchyInv /\ ResolvedInv /\ CrashReported /\ [Next]_vars => CrashReported'
  BY CrashNext
<1>3. Init => CrashReported
  BY DEF Init, CrashReported
<1> QED
  BY <1>1, <1>2, <1>3, InvInit, ResInit, PTL DEF Spec

-----------------------------------------------------------------------------
(* The packages hold as long as there are no errors: what has been         *)
(* assigned so far still fits the components, their pins and their nets,   *)
(* and only nets which connect at most one pin have been left out.         *)
AllPins == PackagedPins(UNION {Cpins(c) : c \in components})

PackagesFormed ==
  /\ packages = {PackageOf(c) : c \in WithRefdes(components)}
  /\ cpins_of = [k \in {PpinOf(p) : p \in AllPins} |-> {p \in AllPins : PpinOf(p) = k}]

NetsAssigned ==
  /\ ppin_net = [k \in DOMAIN cpins_of |-> NetOf(Min(cpins_of[k]))]
  /\ \A k \in DOMAIN cpins_of : \A p, q \in cpins_of[k] : NetOf(p) = NetOf(q)

(* DOMAIN connections is the netlist's nets, before some were left out.    *)
ConnectionsMade ==
  /\ connections =
       [n \in DOMAIN connections |-> {PpinOf(p) : p \in PackagedPins(component_pins[n])}]
  /\ DOMAIN connections \subseteq Net /\ nets \subseteq DOMAIN connections
  /\ \A n \in DOMAIN connections :
       \E p \in Pin : input.net[input.local_net[p]] = n /\ NetOf(p) = n
  /\ \A p \in AllPins : NetOf(p) \in DOMAIN connections
  /\ \A n \in DOMAIN connections \ nets : n \in given.lonely /\ Cardinality(connections[n]) <= 1

Dictionaries ==
  /\ \A k \in packages :
       PackageRefdes(k) \in DOMAIN packages_by_refdes /\ packages_by_refdes[PackageRefdes(k)] = k
  /\ \A n \in nets : nets_by_name[NetName(n)] = n

PackagesInv ==
  Clean =>
    /\ pc \in {"hierarchy", "graphical", "done", "ppins", "connections", "unconnected"} =>
         is_unconnected_pin = given.lonely
    /\ pc \in {"ppins", "connections", "unconnected", "names", "finished"} => PackagesFormed
    /\ pc \in {"connections", "unconnected", "names", "finished"} => NetsAssigned
    /\ pc \in {"unconnected", "names", "finished"} => ConnectionsMade
    /\ pc = "unconnected" => nets = DOMAIN connections
    /\ pc = "finished" => Dictionaries

(* What only depends on the input and the components doesn't change.       *)
LEMMA PackagesSame ==
  ASSUME input' = input, given' = given
  PROVE  /\ \A c : PackageOf(c)' = PackageOf(c)
         /\ \A p : PpinOf(p)' = PpinOf(p)
         /\ \A k : PackageRefdes(k)' = PackageRefdes(k)
         /\ \A n : NetName(n)' = NetName(n)
         /\ \A P : PackagedPins(P)' = PackagedPins(P) /\ WithRefdes(P)' = WithRefdes(P)
         /\ components' = components => AllPins' = AllPins
<1>1. Namespaces' = Namespaces
  BY DEF Namespaces
<1>2. \A c : PackageOf(c)' = PackageOf(c)
  BY <1>1 DEF PackageOf, PackageNamespace
<1>3. \A p : PpinOf(p)' = PpinOf(p)
  BY <1>2 DEF PpinOf
<1>4. (\A k : PackageRefdes(k)' = PackageRefdes(k)) /\ \A n : NetName(n)' = NetName(n)
  BY <1>1 DEF PackageRefdes, NetName, Mangle
<1>5. \A P : PackagedPins(P)' = PackagedPins(P) /\ WithRefdes(P)' = WithRefdes(P)
  BY DEF PackagedPins, WithRefdes
<1>6. components' = components => AllPins' = AllPins
  BY DEF AllPins, PackagedPins, Cpins, Pins
<1> QED
  BY <1>2, <1>3, <1>4, <1>5, <1>6

(* The pins of all components which are in packages.                       *)
LEMMA AllPinsFacts ==
  ASSUME HierarchyInv, ResolvedInv
  PROVE  /\ AllPins \subseteq Pin /\ IsFiniteSet(AllPins)
         /\ \A p : p \in AllPins <=>
              /\ p \in Pin \ input.bus /\ input.component[p] \in components
              /\ input.refdes[input.component[p]] # None
<1>1. input \in Input
  BY DEF ResolvedInv
<1>2. \A p : p \in AllPins <=>
        /\ p \in Pin \ input.bus /\ input.component[p] \in components
        /\ input.refdes[input.component[p]] # None
  BY <1>1, InputFacts DEF AllPins, PackagedPins
<1>3. AllPins \in SUBSET Pin /\ IsFiniteSet(Pin)
  BY <1>2, HierarchyAssumption
<1>4. IsFiniteSet(AllPins)
  BY ONLY <1>3, FS_Subset
<1> QED
  BY <1>2, <1>3, <1>4

(* The first pin of each is one of them.                                   *)
LEMMA FirstPin ==
  ASSUME HierarchyInv, ResolvedInv, PackagesFormed, NEW p \in AllPins
  PROVE  /\ PpinOf(p) \in DOMAIN cpins_of /\ p \in cpins_of[PpinOf(p)]
         /\ cpins_of[PpinOf(p)] \subseteq AllPins
         /\ Min(cpins_of[PpinOf(p)]) \in cpins_of[PpinOf(p)]
<1>1. PpinOf(p) \in DOMAIN cpins_of /\ cpins_of[PpinOf(p)] = {q \in AllPins : PpinOf(q) = PpinOf(p)}
  BY DEF PackagesFormed
<1>2. p \in cpins_of[PpinOf(p)] /\ cpins_of[PpinOf(p)] \subseteq AllPins
  BY <1>1
<1>3. AllPins \subseteq Nat
  BY AllPinsFacts, HierarchyAssumption
<1>4. Min(cpins_of[PpinOf(p)]) \in cpins_of[PpinOf(p)]
  BY <1>2, <1>3, MinIsIn
<1> QED
  BY <1>1, <1>2, <1>4

(* As long as there are no errors, all pins on nets are known.             *)
LEMMA AllKnown ==
  ASSUME HierarchyInv, ResolvedInv, PackagesInv, Clean, pc = "connections"
  PROVE  /\ Known
         /\ \A n \in Net : PackagedPins(component_pins[n]) = {p \in AllPins : NetOf(p) = n}
<1>1. ASSUME NEW n \in Net
      PROVE  PackagedPins(component_pins[n]) = {p \in AllPins : NetOf(p) = n}
  BY PinsOnNets, AllPinsFacts DEF PackagedPins
<1>2. \A p \in AllPins : PpinOf(p) \in DOMAIN cpins_of
  BY DEF PackagesInv, PackagesFormed
<1>3. nets \subseteq Net
  BY DEF HierarchyInv, PinsListed, TypeOK
<1> QED
  BY <1>1, <1>2, <1>3 DEF Known

(* These hold on as long as the variables they depend on stay the same.    *)
LEMMA FormedSame ==
  ASSUME UNCHANGED <<input, given, components, net_of, packages, cpins_of>>
  PROVE  /\ PackagesFormed => PackagesFormed'
         /\ NetsAssigned /\ ppin_net' = ppin_net => NetsAssigned'
<1>1. PackagesFormed => PackagesFormed'
  <2>1. AllPins' = AllPins
    BY PackagesSame
  <2>2. \A p : PpinOf(p)' = PpinOf(p)
    BY PackagesSame
  <2>3. WithRefdes(components)' = WithRefdes(components) /\ \A c : PackageOf(c)' = PackageOf(c)
    BY PackagesSame DEF WithRefdes
  <2> QED BY <2>1, <2>2, <2>3 DEF PackagesFormed
<1>2. NetsAssigned /\ ppin_net' = ppin_net => NetsAssigned'
  <2>1. \A p : NetOf(p)' = NetOf(p)
    BY DEF NetOf
  <2>2. ASSUME ppin_net = [k \in DOMAIN cpins_of |-> NetOf(Min(cpins_of[k]))], ppin_net' = ppin_net
        PROVE  ppin_net' = [k \in DOMAIN cpins_of' |-> NetOf(Min(cpins_of[k]))']
    BY <2>2 DEF NetOf
  <2> QED BY <2>1, <2>2 DEF NetsAssigned, NetOf
<1> QED
  BY <1>1, <1>2

(* The passes which resolve the hierarchy leave the packages alone.        *)
LEMMA PkgNext ==
  ASSUME PackagesInv, [Next]_vars, UNCHANGED <<given, packaging>>
  PROVE  PackagesInv'
<1>1. CASE Next
  <2>1. /\ pc \in {"hierarchy", "graphical"}
        /\ Clean' => pc' \in {"hierarchy", "graphical", "done"} /\ Clean
    <3>1. CASE StartComposite \/ FinishComposite \/ Crash \/ FinishGraphical
      BY <3>1 DEF StartComposite, FinishComposite, Crash, FinishGraphical, Clean
    <3>2. CASE DisconnectPin
      <4>1. /\ pc = "hierarchy" /\ pc' = pc
            /\ \E E : failed' = (failed \/ E)
        BY <3>2 DEF DisconnectPin
      <4> QED BY <4>1 DEF Clean
    <3>3. CASE ConnectPort \/ RemoveGraphical
      BY <3>3 DEF ConnectPort, RemoveGraphical, Clean
    <3>4. CASE FinishHierarchy
      BY <3>4 DEF FinishHierarchy, Clean
    <3> QED BY <1>1, <3>1, <3>2, <3>3, <3>4 DEF Next
  <2>2. Clean' => is_unconnected_pin' = given'.lonely
    BY <2>1 DEF PackagesInv, packaging
  <2> QED BY <2>1, <2>2 DEF PackagesInv
<1>2. CASE UNCHANGED vars
  <2> USE <1>2 DEF vars, lists, netlist, packaging
  <2>1. PackagesFormed => PackagesFormed'
    BY FormedSame
  <2>2. NetsAssigned => NetsAssigned'
    BY FormedSame
  <2>3. ConnectionsMade => ConnectionsMade'
    <3>1. \A n : PackagedPins(component_pins[n])' = PackagedPins(component_pins[n])
      BY DEF PackagedPins
    <3>2. AllPins' = AllPins /\ \A p : PpinOf(p)' = PpinOf(p) /\ NetOf(p)' = NetOf(p)
      BY PackagesSame DEF NetOf
    <3> QED BY <3>1, <3>2 DEF ConnectionsMade
  <2>4. Dictionaries => Dictionaries'
    BY PackagesSame DEF Dictionaries
  <2>5. (Clean' <=> Clean) /\ pc' = pc
    BY DEF Clean
  <2>6. is_unconnected_pin' = is_unconnected_pin /\ given' = given /\ nets' = nets
        /\ connections' = connections
    OBVIOUS
  <2> QED BY ONLY PackagesInv, <2>1, <2>2, <2>3, <2>4, <2>5, <2>6 DEF PackagesInv
<1> QED
  BY <1>1, <1>2

(* Components with the same refdes are grouped.                            *)
LEMMA PkgGroup == ResolvedInv /\ PackagesInv /\ GroupPackages => PackagesInv'
<1> SUFFICES ASSUME ResolvedInv, PackagesInv, GroupPackages, Clean'
             PROVE  is_unconnected_pin' = given'.lonely /\ PackagesFormed'
  BY DEF PackagesInv, GroupPackages
<1>1. /\ packages' = {PackageOf(c) : c \in WithRefdes(components)}
      /\ cpins_of' = [k \in {PpinOf(p) : p \in AllPins} |-> {p \in AllPins : PpinOf(p) = k}]
      /\ input' = input /\ components' = components /\ given' = given /\ pc = "done"
      /\ is_unconnected_pin' = is_unconnected_pin /\ failed' = failed
  BY DEF GroupPackages, AllPins, lists
<1>2. is_unconnected_pin = given.lonely
  BY <1>1 DEF PackagesInv, Clean
<1>3. AllPins' = AllPins /\ \A p : PpinOf(p)' = PpinOf(p)
  BY <1>1, PackagesSame
<1>4. WithRefdes(components)' = WithRefdes(components) /\ \A c : PackageOf(c)' = PackageOf(c)
  BY <1>1, PackagesSame DEF WithRefdes
<1>5. PackagesFormed'
  BY <1>1, <1>3, <1>4 DEF PackagesFormed
<1> QED
  BY <1>1, <1>2, <1>5

(* Each pin of a package gets its net.                                     *)
LEMMA PkgNets == ResolvedInv /\ PackagesInv /\ AssignNets => PackagesInv'
<1> SUFFICES ASSUME ResolvedInv, PackagesInv, AssignNets, Clean'
             PROVE  is_unconnected_pin' = given'.lonely /\ PackagesFormed' /\ NetsAssigned'
  BY DEF PackagesInv, AssignNets
<1>1. /\ ppin_net' = [k \in DOMAIN cpins_of |-> NetOf(Min(cpins_of[k]))]
      /\ failed' = \/ failed
                   \/ \E k \in DOMAIN cpins_of : \E p, q \in cpins_of[k] : NetOf(p) # NetOf(q)
      /\ UNCHANGED <<input, given, components, net_of, packages, cpins_of, is_unconnected_pin>>
      /\ pc = "ppins"
  BY DEF AssignNets, lists, netlist
<1>2. is_unconnected_pin = given.lonely /\ PackagesFormed
  BY <1>1 DEF PackagesInv, Clean
<1>3. PackagesFormed'
  BY <1>1, <1>2, FormedSame
<1>4. NetsAssigned'
  <2>1. ppin_net' = [k \in DOMAIN cpins_of' |-> NetOf(Min(cpins_of[k]))']
    BY <1>1 DEF NetOf
  <2>2. \A k \in DOMAIN cpins_of : \A p, q \in cpins_of[k] : NetOf(p) = NetOf(q)
    BY <1>1 DEF Clean
  <2>3. \A p : NetOf(p)' = NetOf(p)
    BY <1>1 DEF NetOf
  <2> QED BY <1>1, <2>1, <2>2, <2>3 DEF NetsAssigned
<1> QED
  BY <1>1, <1>2, <1>3, <1>4

(* Each net gets the pins of packages which are connected to it.           *)
LEMMA PkgConnections ==
  HierarchyInv /\ ResolvedInv /\ PackagesInv /\ AssignConnections => PackagesInv'
<1> SUFFICES ASSUME HierarchyInv, ResolvedInv, PackagesInv, AssignConnections, Clean'
             PROVE  /\ is_unconnected_pin' = given'.lonely /\ PackagesFormed' /\ NetsAssigned'
                    /\ ConnectionsMade' /\ nets' = DOMAIN connections'
  BY DEF PackagesInv, AssignConnections
<1>1. /\ connections' = [n \in nets |-> {PpinOf(p) : p \in PackagedPins(component_pins[n])}]
      /\ UNCHANGED <<input, given, components, net_of, nets, component_pins, packages, cpins_of,
                     ppin_net, is_unconnected_pin, failed>>
      /\ pc = "connections"
  BY DEF AssignConnections, lists, netlist
<1>2. Clean /\ is_unconnected_pin = given.lonely /\ PackagesFormed /\ NetsAssigned
  BY <1>1 DEF PackagesInv, Clean
<1>3. PackagesFormed' /\ NetsAssigned'
  BY <1>1, <1>2, FormedSame
<1>4. DOMAIN connections' = nets
  BY <1>1
<1>5. ConnectionsMade'
  <2>1. AllPins' = AllPins /\ \A p : PpinOf(p)' = PpinOf(p) /\ NetOf(p)' = NetOf(p)
    BY <1>1, PackagesSame DEF NetOf
  <2>2. \A n : PackagedPins(component_pins[n])' = PackagedPins(component_pins[n])
    BY <1>1 DEF PackagedPins
  <2>3. \A n \in nets : \E p \in Pin : input.net[input.local_net[p]] = n /\ NetOf(p) = n
    BY <1>2 DEF ResolvedInv, NetsJoined
  <2>4. \A p \in AllPins : NetOf(p) \in nets
    BY <1>1, <1>2, PinsOnNets, AllPinsFacts
  <2>5. nets \subseteq Net
    BY DEF HierarchyInv, PinsListed, TypeOK
  <2> QED BY <1>1, <1>4, <2>1, <2>2, <2>3, <2>4, <2>5 DEF ConnectionsMade
<1> QED
  BY <1>1, <1>2, <1>3, <1>4, <1>5

(* Nets which are still marked as an unconnected pin are left out.         *)
LEMMA PkgUnconnected == ResolvedInv /\ PackagesInv /\ RemoveUnconnected => PackagesInv'
<1> SUFFICES ASSUME ResolvedInv, PackagesInv, RemoveUnconnected, Clean'
             PROVE  PackagesFormed' /\ NetsAssigned' /\ ConnectionsMade'
  BY DEF PackagesInv, RemoveUnconnected
<1>1. /\ nets' = nets \ {n \in is_unconnected_pin : n \in nets => Cardinality(connections[n]) <= 1}
      /\ UNCHANGED <<input, given, components, net_of, component_pins, packages, cpins_of,
                     ppin_net, connections, failed>>
      /\ pc = "unconnected"
  BY DEF RemoveUnconnected, StillUnconnected, lists
<1>2. /\ is_unconnected_pin = given.lonely /\ PackagesFormed /\ NetsAssigned /\ ConnectionsMade
      /\ nets = DOMAIN connections
  BY <1>1 DEF PackagesInv, Clean
<1>3. PackagesFormed' /\ NetsAssigned'
  BY <1>1, <1>2, FormedSame
<1>4. ConnectionsMade'
  <2>1. AllPins' = AllPins /\ \A p : PpinOf(p)' = PpinOf(p) /\ NetOf(p)' = NetOf(p)
    BY <1>1, PackagesSame DEF NetOf
  <2>2. \A n : PackagedPins(component_pins[n])' = PackagedPins(component_pins[n])
    BY <1>1 DEF PackagedPins
  <2> QED BY <1>1, <1>2, <2>1, <2>2 DEF ConnectionsMade
<1> QED
  BY <1>3, <1>4

(* Without errors no two packages and no two nets have the same name.      *)
LEMMA PkgHashes == ResolvedInv /\ PackagesInv /\ CompileHashes => PackagesInv'
<1> SUFFICES ASSUME ResolvedInv, PackagesInv, CompileHashes, Clean'
             PROVE  PackagesFormed' /\ NetsAssigned' /\ ConnectionsMade' /\ Dictionaries'
  BY DEF PackagesInv, CompileHashes
<1>1. /\ packages_by_refdes' \in
           {f \in [{PackageRefdes(k) : k \in packages} -> packages] :
              \A x \in DOMAIN f : PackageRefdes(f[x]) = x}
      /\ nets_by_name' \in
           {f \in [{NetName(n) : n \in nets} -> nets] : \A x \in DOMAIN f : NetName(f[x]) = x}
      /\ failed' = \/ failed
                   \/ \E j, k \in packages : j # k /\ PackageRefdes(j) = PackageRefdes(k)
                   \/ \E m, n \in nets : m # n /\ NetName(m) = NetName(n)
      /\ UNCHANGED <<input, given, components, net_of, nets, component_pins, packages, cpins_of,
                     ppin_net, connections>>
      /\ pc = "names"
  BY DEF CompileHashes, lists, netlist
<1>2. PackagesFormed /\ NetsAssigned /\ ConnectionsMade
  BY <1>1 DEF PackagesInv, Clean
<1>3. PackagesFormed' /\ NetsAssigned'
  BY <1>1, <1>2, FormedSame
<1>4. ConnectionsMade'
  <2>1. AllPins' = AllPins /\ \A p : PpinOf(p)' = PpinOf(p) /\ NetOf(p)' = NetOf(p)
    BY <1>1, PackagesSame DEF NetOf
  <2>2. \A n : PackagedPins(component_pins[n])' = PackagedPins(component_pins[n])
    BY <1>1 DEF PackagedPins
  <2> QED BY <1>1, <1>2, <2>1, <2>2 DEF ConnectionsMade
<1>5. Dictionaries'
  <2>1. /\ \A j, k \in packages : PackageRefdes(j) = PackageRefdes(k) => j = k
        /\ \A m, n \in nets : NetName(m) = NetName(n) => m = n
    BY <1>1 DEF Clean
  <2>2. ASSUME NEW k \in packages
        PROVE  /\ PackageRefdes(k) \in DOMAIN packages_by_refdes'
               /\ packages_by_refdes'[PackageRefdes(k)] = k
    BY <1>1, <2>1
  <2>3. \A n \in nets : nets_by_name'[NetName(n)] = n
    BY <1>1, <2>1
  <2>4. (\A k : PackageRefdes(k)' = PackageRefdes(k)) /\ \A n : NetName(n)' = NetName(n)
    BY <1>1, PackagesSame
  <2> QED BY <1>1, <2>2, <2>3, <2>4 DEF Dictionaries
<1> QED
  BY <1>3, <1>4, <1>5

(* Every step of the netlister.                                            *)
LEMMA PkgStep ==
  ASSUME HierarchyInv, ResolvedInv, PackagesInv, [PackagesNext]_pvars
  PROVE  HierarchyInv' /\ ResolvedInv' /\ PackagesInv'
<1>1. HierarchyInv'
  BY InvPackages, InvStutter DEF pvars
<1>2. CASE Next /\ UNCHANGED <<given, packaging>>
  BY <1>1, <1>2, ResNext, PkgNext
<1>3. CASE GroupPackages \/ AssignNets \/ AssignConnections \/ RemoveUnconnected \/ CompileHashes
  <2>1. /\ UNCHANGED <<input, components, present, cpins, net_of, component, pins>>
        /\ nets' \subseteq nets
        /\ pc \notin {"hierarchy", "graphical"} /\ pc' \notin {"hierarchy", "graphical"}
    BY <1>3 DEF GroupPackages, AssignNets, AssignConnections, RemoveUnconnected, CompileHashes,
                lists, netlist, loop
  <2>2. Clean' => Clean
    BY <1>3 DEF GroupPackages, AssignNets, AssignConnections, RemoveUnconnected, CompileHashes,
                Clean
  <2>3. ResolvedInv'
    BY <2>1, <2>2, ResSame
  <2> QED BY <1>1, <1>3, <2>3, PkgGroup, PkgNets, PkgConnections, PkgUnconnected, PkgHashes
<1>4. CASE PackageCrash
  BY <1>1, <1>4 DEF PackageCrash, ResolvedInv, PackagesInv, Clean
<1>5. CASE UNCHANGED pvars
  BY <1>1, <1>5, ResStutter, PkgNext DEF pvars
<1> QED
  BY <1>2, <1>3, <1>4, <1>5 DEF PackagesNext

LEMMA PkgInit == PackagesInit => HierarchyInv /\ ResolvedInv /\ PackagesInv
<1> SUFFICES ASSUME PackagesInit PROVE HierarchyInv /\ ResolvedInv /\ PackagesInv
  OBVIOUS
<1>1. HierarchyInv /\ ResolvedInv
  BY InvInit, ResInit DEF PackagesInit
<1>2. pc = "hierarchy" /\ is_unconnected_pin = given.lonely
  BY DEF PackagesInit, Init
<1> QED
  BY <1>1, <1>2 DEF PackagesInv

(* With the packages, too, the hierarchy is resolved exactly before they   *)
(* are formed.                                                             *)
THEOREM PackagesHierarchyIsResolved == PackagesSpec => []HierarchyResolved
BY PkgInit, PkgStep, ResolvedMeans, PTL DEF PackagesSpec

(* The lookup of the pins of packages never fails if there are no errors,  *)
(* so forming packages is no other way to end with an exception without    *)
(* having reported an error.                                               *)
THEOREM PackagesCrashesAreReported == PackagesSpec => []CrashReported
<1>1. HierarchyInv /\ ResolvedInv /\ PackagesInv /\ CrashReported /\ [PackagesNext]_pvars
        => CrashReported'
  <2> SUFFICES ASSUME HierarchyInv, ResolvedInv, PackagesInv, CrashReported, [PackagesNext]_pvars
               PROVE  CrashReported'
    OBVIOUS
  <2>1. CASE Next \/ UNCHANGED pvars
    BY <2>1, CrashNext DEF pvars
  <2>2. CASE PackageCrash
    <3>1. ~Clean
      BY <2>2, AllKnown DEF PackageCrash
    <3> QED BY <2>2, <3>1 DEF PackageCrash, Clean, CrashReported
  <2>3. CASE GroupPackages \/ AssignNets \/ AssignConnections \/ RemoveUnconnected \/ CompileHashes
    BY <2>3 DEF GroupPackages, AssignNets, AssignConnections, RemoveUnconnected, CompileHashes,
                CrashReported
  <2> QED BY <2>1, <2>2, <2>3 DEF PackagesNext
<1>2. PackagesInit => CrashReported
  BY DEF PackagesInit, Init, CrashReported
<1> QED
  BY <1>1, <1>2, PkgInit, PkgStep, PTL DEF PackagesSpec

(* A net is connected to the pins of packages which have a pin on it.      *)
LEMMA ConnectionsExact ==
  ASSUME HierarchyInv, ResolvedInv, ConnectionsMade, Clean, pc = "finished"
  PROVE  \A n \in DOMAIN connections : \A k :
           k \in connections[n] <=> \E p \in AllPins : NetOf(p) = n /\ PpinOf(p) = k
<1> SUFFICES ASSUME NEW n \in DOMAIN connections, NEW k
             PROVE  k \in connections[n] <=> \E p \in AllPins : NetOf(p) = n /\ PpinOf(p) = k
  OBVIOUS
<1>1. n \in Net /\ connections[n] = {PpinOf(p) : p \in PackagedPins(component_pins[n])}
  BY DEF ConnectionsMade
<1>2. \A p : p \in PackagedPins(component_pins[n]) <=> p \in AllPins /\ NetOf(p) = n
  BY <1>1, PinsOnNets, AllPinsFacts DEF PackagedPins
<1> QED
  BY <1>1, <1>2

(* If there are no errors, the components of each package are those which  *)
(* end up with its refdes, and each of their pins is connected to the net  *)
(* of the package's pin and to no other net.                               *)
LEMMA PackagesMean == HierarchyInv /\ ResolvedInv /\ PackagesInv => PackagesExact
<1> SUFFICES ASSUME HierarchyInv, ResolvedInv, PackagesInv, pc = "finished", ~failed
             PROVE  /\ \A c \in WithRefdes(components) :
                         /\ ComponentRefdes(c) \in DOMAIN packages_by_refdes
                         /\ packages_by_refdes[ComponentRefdes(c)] = PackageOf(c)
                    /\ \A c, d \in WithRefdes(components) :
                         PackageOf(c) = PackageOf(d) <=> ComponentRefdes(c) = ComponentRefdes(d)
                    /\ \A p \in AllPins : {n \in DOMAIN connections : PpinOf(p) \in connections[n]}
                                            = {ppin_net[PpinOf(p)]}
  BY DEF PackagesExact, AllPins
<1>1. Clean /\ PackagesFormed /\ NetsAssigned /\ ConnectionsMade /\ Dictionaries
  BY DEF PackagesInv, Clean
<1>2. \A c : ComponentRefdes(c) = PackageRefdes(PackageOf(c))
  BY DEF ComponentRefdes, PackageRefdes, PackageOf, PackageNamespace
<1>3. \A c \in WithRefdes(components) :
        /\ ComponentRefdes(c) \in DOMAIN packages_by_refdes
        /\ packages_by_refdes[ComponentRefdes(c)] = PackageOf(c)
  BY <1>1, <1>2 DEF PackagesFormed, Dictionaries
<1>4. ASSUME NEW p \in AllPins
      PROVE  {n \in DOMAIN connections : PpinOf(p) \in connections[n]} = {ppin_net[PpinOf(p)]}
  <2>1. ppin_net[PpinOf(p)] = NetOf(p)
    BY <1>1, FirstPin DEF NetsAssigned
  <2>2. NetOf(p) \in DOMAIN connections
    BY <1>1 DEF ConnectionsMade
  <2>3. PpinOf(p) \in connections[NetOf(p)]
    BY <1>1, <2>2, ConnectionsExact
  <2>4. ASSUME NEW n \in DOMAIN connections, PpinOf(p) \in connections[n] PROVE n = NetOf(p)
    <3>1. PICK q \in AllPins : NetOf(q) = n /\ PpinOf(q) = PpinOf(p)
      BY <1>1, <2>4, ConnectionsExact
    <3>2. PpinOf(p) \in DOMAIN cpins_of /\ {p, q} \subseteq cpins_of[PpinOf(p)]
      BY <1>1, <3>1, FirstPin
    <3> QED BY <1>1, <3>1, <3>2 DEF NetsAssigned
  <2> QED BY <2>1, <2>2, <2>3, <2>4
<1> QED
  BY <1>2, <1>3, <1>4

(* A set with two elements has more than one.                              *)
LEMMA TwoElements ==
  ASSUME NEW S, IsFiniteSet(S), NEW x \in S, NEW y \in S, x # y
  PROVE  ~(Cardinality(S) <= 1)
<1>1. IsFiniteSet({x}) /\ Cardinality({x}) = 1
  BY FS_Singleton
<1>2. IsFiniteSet({x} \cup {y}) /\ Cardinality({x} \cup {y}) = 2
  <2>1. /\ IsFiniteSet({x} \cup {y})
        /\ Cardinality({x} \cup {y}) = IF y \in {x} THEN Cardinality({x}) ELSE Cardinality({x}) + 1
    BY ONLY <1>1, FS_AddElement
  <2>2. y \notin {x}
    OBVIOUS
  <2> QED BY <1>1, <2>1, <2>2
<1>3. {x} \cup {y} \in SUBSET S
  OBVIOUS
<1>4. Cardinality({x} \cup {y}) <= Cardinality(S) /\ Cardinality(S) \in Nat
  BY ONLY <1>3, IsFiniteSet(S), FS_Subset, FS_CardinalityType
<1> QED
  BY <1>2, <1>4

(* If there are no errors, nets which connect pins of packages are in the  *)
(* netlist.                                                                *)
LEMMA NothingLostMeans == HierarchyInv /\ ResolvedInv /\ PackagesInv => NothingLost
<1> SUFFICES ASSUME HierarchyInv, ResolvedInv, PackagesInv, pc = "finished", ~failed
             PROVE  /\ \A p, q \in AllPins :
                         NetOf(p) = NetOf(q) /\ PpinOf(p) # PpinOf(q) =>
                           /\ NetOf(p) \in nets
                           /\ nets_by_name[NetName(NetOf(p))] = NetOf(p)
                           /\ {PpinOf(p), PpinOf(q)} \subseteq connections[NetOf(p)]
                    /\ \A n \in DOMAIN connections \ nets :
                         \E p \in Pin : /\ NetOf(p) = n
                                        /\ input.net[input.local_net[p]] \in given.lonely
  BY DEF NothingLost, AllPins
<1>1. Clean /\ PackagesFormed /\ NetsAssigned /\ ConnectionsMade /\ Dictionaries
  BY DEF PackagesInv, Clean
<1>2. ASSUME NEW p \in AllPins, NEW q \in AllPins, NetOf(p) = NetOf(q), PpinOf(p) # PpinOf(q)
      PROVE  /\ NetOf(p) \in nets
             /\ nets_by_name[NetName(NetOf(p))] = NetOf(p)
             /\ {PpinOf(p), PpinOf(q)} \subseteq connections[NetOf(p)]
  <2>1. PICK n : n = NetOf(p)
    OBVIOUS
  <2>2. n \in DOMAIN connections
    BY <1>1, <2>1 DEF ConnectionsMade
  <2>3. PpinOf(p) \in connections[n] /\ PpinOf(q) \in connections[n]
    BY <1>1, <1>2, <2>1, <2>2, ConnectionsExact
  <2>4. IsFiniteSet(connections[n])
    <3>1. PICK P : P = {r \in AllPins : NetOf(r) = n}
      OBVIOUS
    <3>2. PICK f : f = [r \in P |-> PpinOf(r)]
      OBVIOUS
    <3>3. f \in Surjection(P, connections[n])
      BY <1>1, <2>2, <3>1, <3>2, ConnectionsExact DEF Surjection
    <3>4. IsFiniteSet(P)
      <4>1. IsFiniteSet(AllPins) /\ P \in SUBSET AllPins
        BY <3>1, AllPinsFacts
      <4> QED BY ONLY <4>1, FS_Subset
    <3> QED BY ONLY <3>3, <3>4, FS_Surjection
  <2>5. ~(Cardinality(connections[n]) <= 1)
    BY ONLY <1>2, <2>3, <2>4, TwoElements
  <2>6. n \in nets
    BY <1>1, <2>2, <2>5 DEF ConnectionsMade
  <2> QED BY <1>1, <2>1, <2>3, <2>6 DEF Dictionaries
<1>3. ASSUME NEW n \in DOMAIN connections \ nets
      PROVE  \E p \in Pin : NetOf(p) = n /\ input.net[input.local_net[p]] \in given.lonely
  BY <1>1 DEF ConnectionsMade
<1> QED
  BY <1>2, <1>3

(* Without errors, components are in the same package if and only if they  *)
(* end up with the same refdes, and every pin is on the net of its pin of  *)
(* the package, whatever pages and levels the components are on.           *)
THEOREM PackagesAreExact == PackagesSpec => []PackagesExact
BY PkgInit, PkgStep, PackagesMean, PTL DEF PackagesSpec

(* Without errors, no connection between two pins of packages is lost when *)
(* unconnected pins are taken out of the netlist and nets are looked up by *)
(* their names.                                                            *)
THEOREM NothingIsLost == PackagesSpec => []NothingLost
BY PkgInit, PkgStep, NothingLostMeans, PTL DEF PackagesSpec
=============================================================================
