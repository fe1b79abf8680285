-------------------------- MODULE ConnectionMapProofs --------------------------
(***************************************************************************)
(* Proofs about ConnectionMap, for pages of any size: what is connected is *)
(* what touches, and the traversal collects exactly the pieces.            *)
(***************************************************************************)
EXTENDS ConnectionMap, SequenceTheorems, TLAPS

-----------------------------------------------------------------------------
(* What connections are, from the coordinates.                             *)
Linked(i, j) == j \in Found(i) \/ i \in Found(j)

(* The bounds of the span between two numbers.                             *)
LEMMA SpanBounds ==
  ASSUME NEW a \in Int, NEW b \in Int
  PROVE  /\ Min({a, b}) = IF a <= b THEN a ELSE b
         /\ Max({a, b}) = IF a <= b THEN b ELSE a
<1>1. CASE a <= b
  <2>1. \A x \in {a, b} : (\A y \in {a, b} : x <= y) <=> x = a
    BY <1>1
  <2>2. \A x \in {a, b} : (\A y \in {a, b} : x >= y) <=> x = b
    BY <1>1
  <2> QED BY <1>1, <2>1, <2>2 DEF Min, Max
<1>2. CASE ~(a <= b)
  <2>1. \A x \in {a, b} : (\A y \in {a, b} : x <= y) <=> x = b
    BY <1>2
  <2>2. \A x \in {a, b} : (\A y \in {a, b} : x >= y) <=> x = a
    BY <1>2
  <2> QED BY <1>2, <2>1, <2>2 DEF Min, Max
<1> QED
  BY <1>1, <1>2

(* Instances have two ends with coordinates, and symbols only have pins.   *)
LEMMA InstanceFacts ==
  ASSUME sheet \in Sheets, NEW i \in Instances
  PROVE  /\ i.ob \in LineType
         /\ i.path # NoComponent => i.ob.is_pin
         /\ endpoints(i)[1] \in Int \X Int /\ endpoints(i)[2] \in Int \X Int
<1>1. sheet.nets \subseteq LineType /\ sheet.components \subseteq ComponentType
  BY ConnectionMapAssumption
<1>2. i.ob \in LineType /\ (i.path # NoComponent => i.path \in ComponentType /\ i.ob.is_pin)
  <2>1. CASE i \in {[path |-> NoComponent, ob |-> ob] : ob \in sheet.nets}
    BY <1>1, <2>1
  <2>2. CASE i \in UNION {{[path |-> c, ob |-> ob] : ob \in c.symbol} : c \in sheet.components}
    <3>1. PICK c \in sheet.components : \E ob \in c.symbol : i = [path |-> c, ob |-> ob]
      BY <2>2
    <3>2. c \in ComponentType /\ c.symbol \subseteq {line \in LineType : line.is_pin}
      BY <1>1 DEF ComponentType
    <3> QED BY <3>1, <3>2
  <2> QED BY <2>1, <2>2 DEF Instances
<1>3. PICK x, y, u, v : /\ x = i.ob.x /\ u = i.ob.x + i.ob.width
                        /\ y = i.ob.y /\ v = i.ob.y + i.ob.height
  OBVIOUS
<1>4. x \in Int /\ y \in Int /\ u \in Int /\ v \in Int
  BY <1>2, <1>3 DEF LineType
<1>5. PICK a, b : a = <<x, y>> /\ b = <<u, v>>
  OBVIOUS
<1>6. a \in Int \X Int /\ b \in Int \X Int
  BY <1>4, <1>5
<1>7. CASE i.path = NoComponent
  <2>1. endpoints(i) = <<a, b>>
    BY <1>3, <1>5, <1>7 DEF endpoints
  <2> QED BY <1>2, <1>6, <1>7, <2>1
<1>8. CASE i.path # NoComponent
  <2>1. ASSUME NEW p \in Int \X Int PROVE Placed(p, i.path) \in Int \X Int
    <3>1. i.path.x \in Int /\ i.path.y \in Int /\ i.path.angle \in {0, 90, 180, 270}
      BY <1>2, <1>8 DEF ComponentType
    <3>2. PICK q : q = IF i.path.mirror THEN <<-p[1], p[2]>> ELSE p
      OBVIOUS
    <3>3. q \in Int \X Int
      BY <3>2
    <3> QED BY <3>1, <3>2, <3>3 DEF Placed
  <2>2. endpoints(i) = [w \in 1..2 |-> Placed(<<a, b>>[w], i.path)]
    BY <1>3, <1>5, <1>8 DEF endpoints
  <2>3. endpoints(i)[1] = Placed(a, i.path) /\ endpoints(i)[2] = Placed(b, i.path)
    BY <2>2
  <2> QED BY <1>2, <1>6, <1>8, <2>1, <2>3
<1> QED
  BY <1>7, <1>8

(* Something is connected to an instance at its ends or between them.      *)
LEMMA PointsFacts ==
  ASSUME sheet \in Sheets, NEW j \in Instances, NEW p \in Int \X Int
  PROVE  p \in Points(j) <=> p \in Ends(j) \/ (~j.ob.is_pin /\ s_conn_check_midpoint(j, p))
<1>1. PICK e : e = endpoints(j)
  OBVIOUS
<1>2. PICK a \in Int, b \in Int : e[1] = <<a, b>>
  BY <1>1, InstanceFacts
<1>3. PICK c \in Int, d \in Int : e[2] = <<c, d>>
  BY <1>1, InstanceFacts
<1>4. PICK x \in Int, y \in Int : p = <<x, y>>
  OBVIOUS
<1>5. PICK lox, hix, loy, hiy :
        lox = Min({a, c}) /\ hix = Max({a, c}) /\ loy = Min({b, d}) /\ hiy = Max({b, d})
  OBVIOUS
<1>6. /\ lox = (IF a <= c THEN a ELSE c) /\ hix = (IF a <= c THEN c ELSE a)
      /\ loy = (IF b <= d THEN b ELSE d) /\ hiy = (IF b <= d THEN d ELSE b)
  BY <1>5, SpanBounds
<1>7. Ends(j) = IF j.ob.is_pin THEN {<<a, b>>} ELSE {<<a, b>>, <<c, d>>}
  BY <1>1, <1>2, <1>3 DEF Ends
<1>8. Points(j) = IF j.ob.is_pin \/ ~(a = c \/ b = d) THEN Ends(j) ELSE (lox..hix) \X (loy..hiy)
  BY <1>1, <1>2, <1>3, <1>5 DEF Points
<1>9. s_conn_check_midpoint(j, p) <=> \/ a = x /\ c = x /\ loy < y /\ y < hiy
                                      \/ b = y /\ d = y /\ lox < x /\ x < hix
  BY <1>1, <1>2, <1>3, <1>4, <1>5 DEF s_conn_check_midpoint
<1>10. CASE ~j.ob.is_pin /\ (a = c \/ b = d)
  <2>1. p \in Points(j) <=> lox <= x /\ x <= hix /\ loy <= y /\ y <= hiy
    BY <1>4, <1>6, <1>8, <1>10
  <2>2. p \in Ends(j) <=> (x = a /\ y = b) \/ (x = c /\ y = d)
    BY <1>4, <1>7, <1>10
  <2>3. (lox <= x /\ x <= hix /\ loy <= y /\ y <= hiy) <=>
          \/ (x = a /\ y = b) \/ (x = c /\ y = d)
          \/ a = x /\ c = x /\ loy < y /\ y < hiy
          \/ b = y /\ d = y /\ lox < x /\ x < hix
    BY <1>6, <1>10
  <2> QED BY <1>9, <1>10, <2>1, <2>2, <2>3
<1>11. CASE j.ob.is_pin \/ ~(a = c \/ b = d)
  BY <1>8, <1>9, <1>11
<1> QED
  BY <1>10, <1>11

(* On a regular page, what is connected is what touches.                   *)
LEMMA LinkedTouch ==
  ASSUME sheet \in Sheets, Regular, NEW i \in Instances, NEW j \in Instances, i # j
  PROVE  Linked(i, j) <=> Touch(i, j)
<1>1. ASSUME NEW k \in Instances, NEW l \in Instances
      PROVE  Ends(k) \cap Points(l) # {} <=>
               \/ Ends(k) \cap Ends(l) # {}
               \/ ~l.ob.is_pin /\ \E p \in Ends(k) : s_conn_check_midpoint(l, p)
  <2>1. Ends(k) \subseteq Int \X Int
    BY InstanceFacts DEF Ends
  <2>2. \A p \in Ends(k) : p \in Points(l) <=>
          p \in Ends(l) \/ (~l.ob.is_pin /\ s_conn_check_midpoint(l, p))
    BY <2>1, PointsFacts
  <2> QED BY <2>2
<1>2. ASSUME NEW k \in Instances, NEW l \in Instances PROVE CanConnect(k, l)
  BY InstanceFacts DEF CanConnect
<1>3. ASSUME NEW k \in Instances, NEW l \in Instances, k.ob # l.ob
      PROVE  l \in Found(k) <=> k.ob.is_bus = l.ob.is_bus /\ Ends(k) \cap Points(l) # {}
  <2>1. l \in Found(k) <=> EndsMeet(k, l) \/ EndsInMiddle(k, l)
    BY <1>2, <1>3 DEF Found
  <2>2. EndsInMiddle(k, l) <=>
          /\ ~l.ob.is_pin /\ k.ob.is_bus = l.ob.is_bus
          /\ \E p \in Ends(k) : s_conn_check_midpoint(l, p)
    BY DEF Regular, EndsInMiddle
  <2> QED BY <1>1, <2>1, <2>2 DEF EndsMeet
<1>4. CASE i.ob = j.ob
  BY <1>4 DEF Regular, Linked, Found
<1>5. CASE i.ob # j.ob
  BY <1>3, <1>5 DEF Linked, Touch
<1> QED
  BY <1>4, <1>5

-----------------------------------------------------------------------------

(* The traversal: an instance which has been reached is in the piece it has*)
(* been entered for, like all it is connected with, unless it is still on  *)
(* the stack; and a piece can't be divided.                                *)
CallsKept ==
  /\ sheet \in Sheets
  /\ netsY \in Seq(SUBSET Instances) /\ stack \in Seq(Instances)
  /\ Reached \subseteq Instances
  /\ \A i \in Reached : netsY_by_instance[i] \in 1..Len(netsY)
  /\ \A n \in 1..Len(netsY) : netsY[n] = {i \in Reached : netsY_by_instance[i] = n}
  /\ \A k \in 1..Len(stack) : stack[k] \in netsY[Len(netsY)]
  /\ stack # <<>> => netsY # <<>>

ConnsKept ==
  /\ pc \in {"connect", "traverse", "done", "crashed"}
  /\ pc = "connect" => conns = {} /\ stack = <<>> /\ netsY = <<>> /\ Reached = {}
  /\ pc # "connect" => \A i, j \in Instances : <<i, j>> \in conns <=> Linked(i, j)
  /\ pc \in {"done", "crashed"} => stack = <<>> /\ Instances \subseteq Reached
  /\ pc = "crashed" => ~Uniform

NeighboursKept ==
  \A i \in Reached, j \in Instances : <<i, j>> \in conns =>
    IF j \in Reached THEN netsY_by_instance[j] = netsY_by_instance[i]
    ELSE \E k \in 1..Len(stack) : stack[k] = i

Undivided(S) == \A i \in S, j \in Instances : <<i, j>> \in conns => j \in S

PiecesKept ==
  \A S \in SUBSET Instances : Undivided(S) =>
    \A n \in 1..Len(netsY) : S \cap netsY[n] # {} => netsY[n] \subseteq S

TraversalInv == CallsKept /\ ConnsKept /\ NeighboursKept /\ PiecesKept

(* What the instances are only depends on the page.                        *)
LEMMA PageSame ==
  ASSUME sheet' = sheet
  PROVE  /\ Instances' = Instances
         /\ \A i, j : Linked(i, j)' <=> Linked(i, j)
<1>1. Instances' = Instances
  BY DEF Instances
<1>2. \A i : Found(i)' = Found(i)
  BY <1>1 DEF Found
<1> QED
  BY <1>1, <1>2 DEF Linked

LEMMA TraversalInit == Init => TraversalInv
<1> SUFFICES ASSUME Init PROVE TraversalInv
  OBVIOUS
<1>1. /\ sheet \in Sheets /\ conns = {} /\ stack = <<>> /\ netsY = <<>> /\ netsY_by_instance = <<>>
      /\ pc = "connect"
  BY DEF Init
<1>2. Reached = {} /\ Len(netsY) = 0 /\ Len(stack) = 0
  BY <1>1 DEF Reached
<1>3. 1..0 = {}
  OBVIOUS
<1>4. CallsKept
  BY <1>1, <1>2, <1>3 DEF CallsKept
<1>5. ConnsKept
  BY <1>1, <1>2 DEF ConnsKept
<1>6. NeighboursKept /\ PiecesKept
  BY <1>2, <1>3 DEF NeighboursKept, PiecesKept
<1> QED
  BY <1>4, <1>5, <1>6 DEF TraversalInv

(* Both ends of a connection know about it.                                *)
LEMMA TraversalConnect == TraversalInv /\ goto => TraversalInv'
<1> SUFFICES ASSUME TraversalInv, goto PROVE TraversalInv'
  OBVIOUS
<1>1. /\ pc = "connect" /\ pc' = "traverse"
      /\ UNCHANGED <<sheet, stack, netsY, netsY_by_instance>>
  BY DEF goto
<1>2. CallsKept /\ stack = <<>> /\ netsY = <<>> /\ Reached = {}
  BY <1>1 DEF TraversalInv, ConnsKept
<1>3. Instances' = Instances /\ (\A i, j : Linked(i, j)' <=> Linked(i, j)) /\ Reached' = Reached
  BY <1>1, PageSame DEF Reached
<1>4. \A i, j \in Instances : <<i, j>> \in conns' <=> Linked(i, j)
  <2>1. PICK found : found = UNION {{i} \X Found(i) : i \in Instances}
    OBVIOUS
  <2>2. conns' = found \cup {<<c[2], c[1]>> : c \in found}
    BY <2>1 DEF goto
  <2>3. \A i, j \in Instances : <<i, j>> \in found <=> j \in Found(i)
    BY <2>1
  <2>4. \A i, j \in Instances : <<j, i>> \in found => <<i, j>> \in {<<c[2], c[1]>> : c \in found}
    <3> SUFFICES ASSUME NEW i \in Instances, NEW j \in Instances, <<j, i>> \in found
                 PROVE  \E c \in found : <<i, j>> = <<c[2], c[1]>>
      OBVIOUS
    <3> WITNESS <<j, i>> \in found
    <3> QED OBVIOUS
  <2>5. \A i, j \in Instances : <<i, j>> \in {<<c[2], c[1]>> : c \in found} => <<j, i>> \in found
    <3> SUFFICES ASSUME NEW i \in Instances, NEW j \in Instances, NEW c \in found,
                        <<i, j>> = <<c[2], c[1]>>
                 PROVE  <<j, i>> \in found
      OBVIOUS
    <3>1. PICK k \in Instances : \E l \in Found(k) : c = <<k, l>>
      BY <2>1
    <3> QED BY <3>1
  <2> QED BY <2>2, <2>3, <2>4, <2>5 DEF Linked
<1>5. CallsKept'
  BY <1>1, <1>2, <1>3 DEF CallsKept
<1>6. ConnsKept'
  BY <1>1, <1>3, <1>4 DEF ConnsKept
<1>7. NeighboursKept' /\ PiecesKept'
  <2>1. Len(netsY') = 0
    BY <1>1, <1>2
  <2> QED BY <1>2, <1>3, <2>1 DEF NeighboursKept, PiecesKept
<1> QED
  BY <1>5, <1>6, <1>7 DEF TraversalInv

(* An instance is entered: either it is the first one of a new piece, and  *)
(* nothing which has been reached is connected to it; or it is connected to*)
(* one in the last piece, and to no other piece.                           *)
LEMMA TraversalReach ==
  ASSUME TraversalInv, pc = "traverse", UNCHANGED <<sheet, conns, pc>>,
         NEW n \in Nat \ {0}, NEW i \in Instances \ Reached, Reach(i, n),
         netsY' \in Seq(SUBSET Instances), Len(netsY') = n, Len(netsY) <= n,
         \A m \in 1..n : netsY'[m] = (IF m \in 1..Len(netsY) THEN netsY[m] ELSE {})
                                       \cup (IF m = n THEN {i} ELSE {}),
         \/ Len(netsY) < n /\ stack = <<>>
         \/ Len(netsY) = n /\ \E t \in netsY[n] : <<t, i>> \in conns
  PROVE  TraversalInv'
<1>1. CallsKept /\ ConnsKept /\ NeighboursKept /\ PiecesKept
  BY DEF TraversalInv
<1>2. /\ \A l, m \in Instances : <<l, m>> \in conns <=> Linked(l, m)
      /\ \A l, m \in Instances : <<l, m>> \in conns <=> <<m, l>> \in conns
  BY <1>1 DEF ConnsKept, Linked
<1>3. Instances' = Instances /\ \A l, m : Linked(l, m)' <=> Linked(l, m)
  BY PageSame
<1>4. /\ Reached' = Reached \cup {i}
      /\ \A j \in Reached' : netsY_by_instance'[j] = IF j = i THEN n ELSE netsY_by_instance[j]
  BY DEF Reach, Reached
<1>5. /\ stack' \in Seq(Instances) /\ Len(stack') = Len(stack) + 1 /\ Len(stack) \in Nat
      /\ \A k \in 1..Len(stack) : stack'[k] = stack[k]
      /\ stack'[Len(stack')] = i
  BY <1>1, AppendProperties, LenProperties DEF Reach, CallsKept
<1>6. Len(netsY) \in Nat /\ \A j \in Reached : netsY_by_instance[j] \in 1..Len(netsY)
  BY <1>1, LenProperties DEF CallsKept
<1>7. \A k \in 1..Len(stack) : stack[k] \in Reached /\ netsY_by_instance[stack[k]] = n
  <2>1. CASE stack = <<>>
    <3>1. 1..Len(stack) = {}
      BY <2>1
    <3> QED BY <3>1
  <2>2. CASE stack # <<>>
    <3>1. Len(netsY) = n
      BY <2>2
    <3> QED BY <1>1, <3>1 DEF CallsKept
  <2> QED BY <2>1, <2>2
<1>8. CallsKept'
  <2>1. \A m \in 1..n : netsY'[m] = {j \in Reached' : netsY_by_instance'[j] = m}
    <3> SUFFICES ASSUME NEW m \in 1..n
                 PROVE  netsY'[m] = {j \in Reached' : netsY_by_instance'[j] = m}
      OBVIOUS
    <3>1. CASE m \in 1..Len(netsY)
      BY <1>1, <1>4, <3>1 DEF CallsKept
    <3>2. CASE m \notin 1..Len(netsY)
      BY <1>4, <1>6, <3>2
    <3> QED BY <3>1, <3>2
  <2>2. \A j \in Reached' : netsY_by_instance'[j] \in 1..n
    BY <1>4, <1>6
  <2>3. ASSUME NEW k \in 1..Len(stack') PROVE stack'[k] \in netsY'[n]
    <3>1. stack'[k] \in Reached' /\ netsY_by_instance'[stack'[k]] = n
      <4>1. CASE k \in 1..Len(stack)
        BY <1>4, <1>5, <1>7, <4>1
      <4>2. CASE k = Len(stack')
        BY <1>4, <1>5, <4>2
      <4> QED BY <1>5, <4>1, <4>2
    <3> QED BY <2>1, <3>1
  <2> QED BY <1>1, <1>3, <1>4, <1>5, <2>1, <2>2, <2>3 DEF CallsKept
<1>9. ConnsKept'
  BY <1>1, <1>3 DEF ConnsKept
<1>10. NeighboursKept'
  <2> SUFFICES ASSUME NEW l \in Reached', NEW j \in Instances, <<l, j>> \in conns
               PROVE  IF j \in Reached' THEN netsY_by_instance'[j] = netsY_by_instance'[l]
                      ELSE \E k \in 1..Len(stack') : stack'[k] = l
    BY <1>3 DEF NeighboursKept
  <2>1. ASSUME NEW m \in Reached, <<m, i>> \in conns PROVE netsY_by_instance[m] = n
    <3>1. \E k \in 1..Len(stack) : stack[k] = m
      BY <1>1, <2>1 DEF NeighboursKept
    <3> QED BY <1>7, <3>1
  <2>2. CASE l = i
    <3>1. \E k \in 1..Len(stack') : stack'[k] = l
      BY <1>5, <2>2
    <3>2. CASE j \in Reached
      <4>1. <<j, i>> \in conns
        BY <1>2, <2>2
      <4> QED BY <1>4, <2>1, <2>2, <3>2, <4>1
    <3> QED BY <1>4, <2>2, <3>1, <3>2
  <2>3. CASE l # i /\ j = i
    BY <1>4, <2>1, <2>3
  <2>4. CASE l # i /\ j # i
    <3>1. l \in Reached /\ (j \in Reached' <=> j \in Reached)
      BY <1>4, <2>4
    <3>2. CASE j \in Reached
      BY <1>1, <1>4, <2>4, <3>1, <3>2 DEF NeighboursKept
    <3>3. CASE j \notin Reached
      <4>1. PICK k \in 1..Len(stack) : stack[k] = l
        BY <1>1, <3>1, <3>3 DEF NeighboursKept
      <4>2. k \in 1..Len(stack') /\ stack'[k] = l
        BY <1>5, <4>1
      <4> QED BY <3>1, <3>3, <4>2
    <3> QED BY <3>2, <3>3
  <2> QED BY <2>2, <2>3, <2>4
<1>11. PiecesKept'
  <2> SUFFICES ASSUME NEW S \in SUBSET Instances, Undivided(S), NEW m \in 1..n,
                      S \cap netsY'[m] # {}
               PROVE  netsY'[m] \subseteq S
    BY <1>3 DEF PiecesKept, Undivided
  <2>1. CASE m # n
    BY <1>1, <2>1 DEF PiecesKept
  <2>2. CASE m = n /\ Len(netsY) < n
    BY <2>2
  <2>3. CASE m = n /\ Len(netsY) = n
    <3>1. PICK t \in netsY[n] : <<t, i>> \in conns
      BY <2>3
    <3>2. t \in Instances /\ <<i, t>> \in conns
      BY <1>1, <1>2, <2>3, <3>1 DEF CallsKept
    <3>3. S \cap netsY[n] # {}
      BY <2>3, <3>1, <3>2 DEF Undivided
    <3>4. netsY[n] \subseteq S
      BY <1>1, <2>3, <3>3 DEF PiecesKept
    <3> QED BY <2>3, <3>1, <3>4 DEF Undivided
  <2> QED BY <2>1, <2>2, <2>3
<1> QED
  BY <1>8, <1>9, <1>10, <1>11 DEF TraversalInv

LEMMA TraversalStart == TraversalInv /\ StartNet => TraversalInv'
<1> SUFFICES ASSUME TraversalInv, StartNet PROVE TraversalInv'
  OBVIOUS
<1>1. PICK i \in Instances \ Reached : netsY' = Append(netsY, {i}) /\ Reach(i, Len(netsY) + 1)
  BY DEF StartNet
<1>2. pc = "traverse" /\ stack = <<>> /\ UNCHANGED <<sheet, conns, pc>>
  BY DEF StartNet
<1>3. netsY \in Seq(SUBSET Instances) /\ {i} \in SUBSET Instances
  BY DEF TraversalInv, CallsKept
<1>4. PICK n : n = Len(netsY) + 1
  OBVIOUS
<1>5. n \in Nat \ {0} /\ Len(netsY) \in Nat /\ Len(netsY) < n /\ Len(netsY) <= n
  BY <1>3, <1>4, LenProperties
<1>6. /\ netsY' \in Seq(SUBSET Instances) /\ Len(netsY') = n
      /\ \A m \in 1..Len(netsY) : netsY'[m] = netsY[m]
      /\ netsY'[n] = {i}
  BY <1>1, <1>3, <1>4, AppendProperties
<1>7. \A m \in 1..n : netsY'[m] = (IF m \in 1..Len(netsY) THEN netsY[m] ELSE {})
                                    \cup (IF m = n THEN {i} ELSE {})
  BY <1>4, <1>5, <1>6
<1>8. Reach(i, n)
  BY <1>1, <1>4
<1> QED
  BY <1>2, <1>5, <1>6, <1>7, <1>8, TraversalReach

LEMMA TraversalEnter == TraversalInv /\ Enter => TraversalInv'
<1> SUFFICES ASSUME TraversalInv, Enter PROVE TraversalInv'
  OBVIOUS
<1>1. PICK i \in Unreached :
        netsY' = [netsY EXCEPT ![Len(netsY)] = @ \cup {i}] /\ Reach(i, Len(netsY))
  BY DEF Enter
<1>2. pc = "traverse" /\ stack # <<>> /\ UNCHANGED <<sheet, conns, pc>>
  BY DEF Enter
<1>3. PICK t : t = stack[Len(stack)]
  OBVIOUS
<1>4. i \in Instances \ Reached /\ <<t, i>> \in conns
  BY <1>1, <1>3 DEF Unreached
<1>5. PICK n : n = Len(netsY)
  OBVIOUS
<1>6. /\ CallsKept /\ netsY \in Seq(SUBSET Instances) /\ Len(netsY) \in Nat
      /\ Len(stack) \in 1..Len(stack)
  BY <1>2, LenProperties, EmptySeq DEF TraversalInv, CallsKept
<1>7. t \in netsY[n]
  BY <1>3, <1>5, <1>6 DEF CallsKept
<1>8. n \in 1..Len(netsY) /\ n \in Nat \ {0}
  BY <1>2, <1>5, <1>6, EmptySeq DEF CallsKept
<1>9. netsY[n] \cup {i} \in SUBSET Instances
  BY <1>4, <1>6, <1>8, ElementOfSeq
<1>10. /\ netsY' \in Seq(SUBSET Instances) /\ Len(netsY') = n
       /\ \A m \in 1..Len(netsY) : netsY'[m] = IF m = n THEN netsY[n] \cup {i} ELSE netsY[m]
  BY <1>1, <1>5, <1>6, <1>8, <1>9, ExceptSeq
<1>11. \A m \in 1..n : netsY'[m] = (IF m \in 1..Len(netsY) THEN netsY[m] ELSE {})
                                     \cup (IF m = n THEN {i} ELSE {})
  BY <1>5, <1>10
<1>12. Reach(i, n) /\ Len(netsY) <= n
  BY <1>1, <1>5, <1>6
<1> QED
  BY <1>2, <1>4, <1>5, <1>7, <1>8, <1>10, <1>11, <1>12, TraversalReach

(* Everything an instance is connected with has been reached when the      *)
(* traversal goes back.                                                    *)
LEMMA TraversalReturn == TraversalInv /\ Return => TraversalInv'
<1> SUFFICES ASSUME TraversalInv, Return PROVE TraversalInv'
  OBVIOUS
<1>1. /\ pc = "traverse" /\ stack # <<>> /\ Unreached = {}
      /\ stack' = SubSeq(stack, 1, Len(stack) - 1)
      /\ UNCHANGED <<sheet, conns, netsY, netsY_by_instance, pc>>
  BY DEF Return
<1>2. CallsKept /\ ConnsKept /\ NeighboursKept /\ PiecesKept
  BY DEF TraversalInv
<1>3. Instances' = Instances /\ (\A l, m : Linked(l, m)' <=> Linked(l, m)) /\ Reached' = Reached
  BY <1>1, PageSame DEF Reached
<1>4. PICK n : n = Len(stack)
  OBVIOUS
<1>5. n \in Nat \ {0} /\ \A k \in 1..n : stack[k] \in Instances
  BY <1>1, <1>2, <1>4, EmptySeq, ElementOfSeq DEF CallsKept
<1>6. /\ stack' \in Seq(Instances) /\ Len(stack') = n - 1
      /\ \A k \in 1..(n - 1) : stack'[k] = stack[k]
  <2>1. \A k \in 1..(n - 1) : stack[k] \in Instances
    BY <1>5
  <2>2. 1 \in Int /\ n - 1 \in Int /\ (n - 1) - 1 + 1 = n - 1 /\ (1 <= n - 1 \/ n - 1 = 0)
    BY <1>5
  <2>3. /\ SubSeq(stack, 1, n - 1) \in Seq(Instances)
        /\ Len(SubSeq(stack, 1, n - 1)) = IF 1 <= n - 1 THEN (n - 1) - 1 + 1 ELSE 0
        /\ \A k \in 1..((n - 1) - 1 + 1) : SubSeq(stack, 1, n - 1)[k] = stack[1 + k - 1]
    BY ONLY <2>1, <2>2, SubSeqProperties
  <2> QED BY <1>1, <1>4, <1>5, <2>2, <2>3
<1>7. CallsKept'
  BY <1>1, <1>2, <1>3, <1>4, <1>5, <1>6 DEF CallsKept
<1>8. ConnsKept' /\ PiecesKept'
  BY <1>1, <1>2, <1>3 DEF ConnsKept, PiecesKept, Undivided
<1>9. NeighboursKept'
  <2> SUFFICES ASSUME NEW l \in Reached, NEW j \in Instances, <<l, j>> \in conns
               PROVE  IF j \in Reached THEN netsY_by_instance[j] = netsY_by_instance[l]
                      ELSE \E k \in 1..Len(stack') : stack'[k] = l
    BY <1>1, <1>3 DEF NeighboursKept
  <2>1. CASE j \in Reached
    BY <1>2, <2>1 DEF NeighboursKept
  <2>2. CASE j \notin Reached
    <3>1. PICK k \in 1..n : stack[k] = l
      BY <1>2, <1>4, <2>2 DEF NeighboursKept
    <3>2. k # n
      BY <1>1, <1>4, <2>2, <3>1 DEF Unreached
    <3>3. k \in 1..(n - 1)
      BY <1>5, <3>2
    <3>4. k \in 1..Len(stack') /\ stack'[k] = l
      BY <1>6, <3>1, <3>3
    <3> QED BY <2>2, <3>4
  <2> QED BY <2>1, <2>2
<1> QED
  BY <1>7, <1>8, <1>9 DEF TraversalInv

LEMMA TraversalStep == TraversalInv /\ [Next]_vars => TraversalInv'
<1> SUFFICES ASSUME TraversalInv, [Next]_vars PROVE TraversalInv'
  OBVIOUS
<1>1. CASE MakeNets \/ AssertionFails \/ UNCHANGED vars
  <2>1. /\ UNCHANGED <<sheet, conns, stack, netsY, netsY_by_instance>>
        /\ \/ pc' = pc
           \/ /\ pc = "traverse" /\ stack = <<>> /\ Instances \subseteq Reached
              /\ pc' = "done" \/ (pc' = "crashed" /\ ~Uniform)
    BY <1>1 DEF MakeNets, AssertionFails, vars
  <2>2. Instances' = Instances /\ (\A l, m : Linked(l, m)' <=> Linked(l, m)) /\ Reached' = Reached
    BY <2>1, PageSame DEF Reached
  <2>3. Uniform' <=> Uniform
    BY <2>1 DEF Uniform
  <2>4. CallsKept' /\ NeighboursKept' /\ PiecesKept'
    BY <2>1, <2>2 DEF TraversalInv, CallsKept, NeighboursKept, PiecesKept, Undivided
  <2>5. ConnsKept'
    BY <2>1, <2>2, <2>3 DEF TraversalInv, ConnsKept
  <2> QED BY <2>4, <2>5 DEF TraversalInv
<1> QED
  BY <1>1, TraversalConnect, TraversalStart, TraversalEnter, TraversalReturn DEF Next, Traverse

(* When everything has been reached, no piece has a neighbour.             *)
LEMMA TraversalMeans == TraversalInv => PiecesTouch
<1> SUFFICES ASSUME TraversalInv PROVE PiecesTouch
  OBVIOUS
<1>1. CallsKept /\ ConnsKept /\ NeighboursKept /\ PiecesKept
  BY DEF TraversalInv
<1>2. DOMAIN netsY = 1..Len(netsY) /\ DOMAIN stack = 1..Len(stack)
  BY <1>1, LenProperties DEF CallsKept
<1>3. ASSUME pc \in {"done", "crashed"}, Regular
      PROVE  /\ pc = "done"
             /\ \A n \in DOMAIN netsY :
                  /\ Closed(netsY[n])
                  /\ \A S \in SUBSET netsY[n] : S # {} /\ Closed(S) => S = netsY[n]
  <2>1. /\ \A i, j \in Instances : <<i, j>> \in conns <=> Linked(i, j)
        /\ stack = <<>> /\ Reached = Instances
    BY <1>1, <1>3 DEF ConnsKept, CallsKept
  <2>2. \A i, j \in Instances : i # j => (Touch(i, j) <=> <<i, j>> \in conns)
    BY <1>1, <1>3, <2>1, LinkedTouch DEF CallsKept
  <2>3. ASSUME NEW n \in DOMAIN netsY PROVE Closed(netsY[n])
    <3> SUFFICES ASSUME NEW i \in netsY[n], NEW j \in Instances, Touch(i, j) PROVE j \in netsY[n]
      BY DEF Closed
    <3>1. i \in Reached /\ netsY_by_instance[i] = n
      BY <1>1, <1>2 DEF CallsKept
    <3>2. CASE i # j
      <4>1. netsY_by_instance[j] = n
        BY <1>1, <2>1, <2>2, <3>1, <3>2 DEF NeighboursKept
      <4> QED BY <1>1, <1>2, <2>1, <4>1 DEF CallsKept
    <3> QED BY <3>2
  <2>4. ASSUME NEW n \in DOMAIN netsY, NEW S \in SUBSET netsY[n], S # {}, Closed(S)
        PROVE  S = netsY[n]
    <3>1. S \in SUBSET Instances
      BY <1>1, <1>2 DEF CallsKept
    <3>2. Undivided(S)
      <4> SUFFICES ASSUME NEW i \in S, NEW j \in Instances, <<i, j>> \in conns PROVE j \in S
        BY DEF Undivided
      <4>1. CASE i # j
        BY <2>2, <2>4, <3>1, <4>1 DEF Closed
      <4> QED BY <4>1
    <3>3. S \cap netsY[n] # {}
      BY <2>4
    <3> QED BY <1>1, <1>2, <3>1, <3>2, <3>3 DEF PiecesKept
  <2>5. Uniform
    <3> SUFFICES ASSUME NEW n \in DOMAIN netsY, NEW i \in netsY[n], NEW j \in netsY[n]
                 PROVE  i.ob.is_bus = j.ob.is_bus
      BY DEF Uniform
    <3>1. PICK S : S = {k \in netsY[n] : k.ob.is_bus = i.ob.is_bus}
      OBVIOUS
    <3>2. Closed(S)
      <4>1. Closed(netsY[n])
        BY <2>3
      <4> QED BY <3>1, <4>1 DEF Closed, Touch
    <3>3. S = netsY[n]
      BY <2>4, <3>1, <3>2
    <3> QED BY <3>1, <3>3
  <2>6. pc = "done"
    BY <1>1, <1>3, <2>5 DEF ConnsKept
  <2> QED BY <2>3, <2>4, <2>6
<1> QED
  BY <1>1, <1>2, <1>3 DEF PiecesTouch, CallsKept

(* For pages of any size, the nets found in a schematic are what touches,  *)
(* in whatever order its contents are visited; and the assertion that there*)
(* are no buses in nets only fails if a net ends in the middle of a bus or *)
(* the same pin object is in two places which touch.                       *)
THEOREM PiecesAlwaysTouch == Spec => []PiecesTouch
BY TraversalInit, TraversalStep, TraversalMeans, PTL DEF Spec
=============================================================================
