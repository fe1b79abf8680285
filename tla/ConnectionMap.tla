---------------------------- MODULE ConnectionMap ----------------------------
(***************************************************************************)
(* src/gaf/netlist/conn.py and the constructor of Schematic in             *)
(* src/gaf/netlist/blueprint.py: the net segments and pins of a schematic  *)
(* page are connected by their coordinates, and the connections traversed  *)
(* to collect visually connected net pieces.                               *)
(*                                                                         *)
(* A net or pin is a record of its geometry, which also serves as its      *)
(* identity.  Two components with the same symbol share the pin objects of *)
(* the symbol; an instance of a pin is a pair of a component and a pin.    *)
(***************************************************************************)
EXTENDS Integers, Sequences, FiniteSets, FiniteSetsExt

CONSTANTS Sheets,       \* the schematic pages to be considered
          NoComponent   \* the path of an object which isn't inside a symbol

LineType == [x: Int, y: Int, width: Int, height: Int, is_pin: BOOLEAN, is_bus: BOOLEAN]

(* A component; its symbol only contains pins (blueprint.py:192).          *)
ComponentType ==
  [x: Int, y: Int, angle: {0, 90, 180, 270}, mirror: BOOLEAN,
   symbol: SUBSET {line \in LineType : line.is_pin}]

ASSUME ConnectionMapAssumption ==
  Sheets \subseteq [nets: SUBSET LineType, components: SUBSET ComponentType]

VARIABLES
  sheet,
  conns,                \* the connections in the ConnectionMap, as pairs
  stack,                \* the calls of traverse_net in progress, innermost last
  netsY,                \* the net pieces found, as sets
  netsY_by_instance,    \* for the instances which have been reached
  pc

vars == <<sheet, conns, stack, netsY, netsY_by_instance, pc>>

(* all_net_instances_in_revision                                           *)
Instances ==
  {[path |-> NoComponent, ob |-> ob] : ob \in sheet.nets}
    \cup UNION {{[path |-> c, ob |-> ob] : ob \in c.symbol} : c \in sheet.components}

Placed(p, c) ==
  LET q == IF c.mirror THEN <<-p[1], p[2]>> ELSE p
      r == CASE c.angle = 0   -> q
             [] c.angle = 90  -> <<-q[2], q[1]>>
             [] c.angle = 180 -> <<-q[1], -q[2]>>
             [] c.angle = 270 -> <<q[2], -q[1]>>
  IN <<r[1] + c.x, r[2] + c.y>>

endpoints(i) ==
  LET ends == <<<<i.ob.x, i.ob.y>>, <<i.ob.x + i.ob.width, i.ob.y + i.ob.height>>>>
  IN IF i.path = NoComponent THEN ends ELSE [w \in 1..2 |-> Placed(ends[w], i.path)]

(* A pin only connects with its first end.                                 *)
Ends(i) == LET e == endpoints(i) IN IF i.ob.is_pin THEN {e[1]} ELSE {e[1], e[2]}

s_conn_check_midpoint(i, p) ==
  LET e == endpoints(i)
      Between(d) == Min({e[1][d], e[2][d]}) < p[d] /\ p[d] < Max({e[1][d], e[2][d]})
  IN \/ e[1][1] = p[1] /\ e[2][1] = p[1] /\ Between(2)
     \/ e[1][2] = p[2] /\ e[2][2] = p[2] /\ Between(1)

(* can_connect: an object inside a symbol must be a pin, unless both are   *)
(* inside the same symbol; then the second one must be.                    *)
CanConnect(i, j) ==
  LET inside(k) == k.path # NoComponent
  IN CASE inside(i) /\ inside(j) -> j.ob.is_pin /\ (i.path # j.path => i.ob.is_pin)
       [] inside(i) /\ ~inside(j) -> i.ob.is_pin
       [] ~inside(i) /\ inside(j) -> j.ob.is_pin
       [] OTHER -> TRUE

EndsMeet(i, j) == i.ob.is_bus = j.ob.is_bus /\ Ends(i) \cap Ends(j) # {}

EndsInMiddle(i, j) ==
  /\ ~j.ob.is_pin
  /\ i.ob.is_bus = j.ob.is_bus \/ (~i.ob.is_pin /\ ~i.ob.is_bus /\ j.ob.is_bus)
  /\ \E p \in Ends(i) : s_conn_check_midpoint(j, p)

(* The instances to which s_conn_update_line_object connects instance i.   *)
(* Objects are compared, not instances.                                    *)
Found(i) ==
  {j \in Instances : i.ob # j.ob /\ CanConnect(i, j) /\ (EndsMeet(i, j) \/ EndsInMiddle(i, j))}

Init ==
  /\ sheet \in Sheets
  /\ conns = {} /\ stack = <<>> /\ netsY = <<>> /\ netsY_by_instance = <<>>
  /\ pc = "connect"

ConnectedOneWay == \* Mutant of goto: only one of the two connections is kept
  /\ pc = "connect" /\ pc' = "traverse"
  /\ conns' = UNION {{i} \X Found(i) : i \in Instances}
  /\ UNCHANGED <<sheet, stack, netsY, netsY_by_instance>>

(* ConnectionMap.goto for the first, and only, revision.                   *)
goto ==
  /\ pc = "connect" /\ pc' = "traverse"
  /\ LET found == UNION {{i} \X Found(i) : i \in Instances}
     IN conns' = found \cup {<<c[2], c[1]>> : c \in found}
  /\ UNCHANGED <<sheet, stack, netsY, netsY_by_instance>>

Reached == DOMAIN netsY_by_instance

(* traverse_net enters an instance which hasn't been reached.              *)
Reach(i, n) ==
  /\ netsY_by_instance' =
       [j \in Reached \cup {i} |-> IF j = i THEN n ELSE netsY_by_instance[j]]
  /\ stack' = Append(stack, i)

(* The loop of the constructor starts another net piece.                   *)
StartNet ==
  /\ pc = "traverse" /\ stack = <<>>
  /\ \E i \in Instances \ Reached :
       netsY' = Append(netsY, {i}) /\ Reach(i, Len(netsY) + 1)
  /\ UNCHANGED <<sheet, conns, pc>>

Unreached == {j \in Instances \ Reached : <<stack[Len(stack)], j>> \in conns}

EnterReached == \* Mutant of Enter: instances are entered again
  /\ pc = "traverse" /\ stack # <<>> /\ Len(stack) < 4
  /\ \E j \in Instances :
       /\ <<stack[Len(stack)], j>> \in conns
       /\ netsY' = [netsY EXCEPT ![Len(netsY)] = @ \cup {j}] /\ Reach(j, Len(netsY))
  /\ UNCHANGED <<sheet, conns, pc>>

Enter ==
  /\ pc = "traverse" /\ stack # <<>>
  /\ \E j \in Unreached :
       netsY' = [netsY EXCEPT ![Len(netsY)] = @ \cup {j}] /\ Reach(j, Len(netsY))
  /\ UNCHANGED <<sheet, conns, pc>>

Return ==
  /\ pc = "traverse" /\ stack # <<>> /\ Unreached = {}
  /\ stack' = SubSeq(stack, 1, Len(stack) - 1)
  /\ UNCHANGED <<sheet, conns, netsY, netsY_by_instance, pc>>

(* What the constructor of Net asserts: the instances of a piece are all   *)
(* buses, or none is.                                                      *)
Uniform == \A n \in DOMAIN netsY : \A i, j \in netsY[n] : i.ob.is_bus = j.ob.is_bus

(* Everything has been reached; the constructor makes the nets and stores  *)
(* in each pin the net it is on.                                           *)
MakeNets ==
  /\ pc = "traverse" /\ stack = <<>> /\ Instances \subseteq Reached /\ Uniform
  /\ pc' = "done"
  /\ UNCHANGED <<sheet, conns, stack, netsY, netsY_by_instance>>

(* The constructor of one of the nets fails, and with it the netlister.    *)
AssertionFails ==
  /\ pc = "traverse" /\ stack = <<>> /\ Instances \subseteq Reached /\ ~Uniform
  /\ pc' = "crashed"
  /\ UNCHANGED <<sheet, conns, stack, netsY, netsY_by_instance>>

Traverse == StartNet \/ Enter \/ Return \/ MakeNets \/ AssertionFails
Next == goto \/ Traverse
Spec == Init /\ [][Next]_vars
FairSpec == Spec /\ WF_vars(Next)

-----------------------------------------------------------------------------
(* All points at which something can be connected to an instance.          *)
Points(i) ==
  LET e == endpoints(i)
      Span(d) == Min({e[1][d], e[2][d]})..Max({e[1][d], e[2][d]})
      orthogonal == e[1][1] = e[2][1] \/ e[1][2] = e[2][2]
  IN IF i.ob.is_pin \/ ~orthogonal THEN Ends(i) ELSE Span(1) \X Span(2)

(* One ends on the other, and both are buses or neither is.                *)
Touch(i, j) ==
  /\ i.ob.is_bus = j.ob.is_bus
  /\ Ends(i) \cap Points(j) # {} \/ Ends(j) \cap Points(i) # {}

Closed(S) == \A i \in S, j \in Instances : Touch(i, j) => j \in S

(* What the code doesn't provide for: the same object in two places which  *)
(* touch, and nets which end in the middle of a bus.                       *)
Regular ==
  /\ \A i, j \in Instances : i.ob = j.ob /\ Touch(i, j) => i = j
  /\ \A i, j \in Instances : EndsInMiddle(i, j) => i.ob.is_bus = j.ob.is_bus

(* The lists of instances and the dictionary of instances agree, at every  *)
(* moment of the traversal.  Two net segments or pins of a regular page are*)
(* in the same net piece if and only if they are connected by a chain of   *)
(* net segments and pins which touch, and as asserted when a net is made,  *)
(* all of a piece are buses, or none.                                      *)
PiecesTouch ==
  /\ \A n \in DOMAIN netsY : netsY[n] = {i \in Reached : netsY_by_instance[i] = n}
  /\ \A k \in DOMAIN stack : stack[k] \in netsY[Len(netsY)]
  /\ pc \in {"done", "crashed"} /\ Regular =>
       /\ pc = "done"
       /\ \A n \in DOMAIN netsY :
            /\ Closed(netsY[n])
            /\ \A S \in SUBSET netsY[n] : S # {} /\ Closed(S) => S = netsY[n]

(* The traversal ends, although the connections have cycles.               *)
TraversalEnds == <>(pc \in {"done", "crashed"})
=============================================================================
