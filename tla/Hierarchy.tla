------------------------------ MODULE Hierarchy ------------------------------
(***************************************************************************)
(* src/gaf/netlist/pp_hierarchy.py and pp_graphical.py: once all sheets    *)
(* have been instantiated and their local nets grouped, the pins of each   *)
(* composite component are connected with the ports on its subsheets, and  *)
(* composite components, ports and graphical components are taken out of   *)
(* the netlist.                                                            *)
(*                                                                         *)
(* Errors are reported and the netlister goes on; an exception ends it.    *)
(* Components are numbered in the order of netlist.components, pins in the *)
(* order of their components' lists.  Power symbols and net= attributes    *)
(* are left out: the code modelled only looks at them to report errors.    *)
(***************************************************************************)
EXTENDS Naturals, Sequences, FiniteSets, FiniteSetsExt, SequencesExt

CONSTANTS Component, Pin, LocalNet, Net,
          Sheet,
          Label,        \* the values of portname=, refdes= and pinlabel=
          Input,        \* the netlists to be considered
          None

InputType ==
  [sheet: [Component -> Sheet],
   parent: [Sheet -> Component \cup {None}], \* Sheet.instantiating_component
   composite: SUBSET Component,              \* with source= attributes
   graphical: SUBSET Component,
   portname: [Component -> Label \cup {None}],
   refdes: [Component -> Label \cup {None}],
   component: [Pin -> Component],
   pinlabel: [Pin -> Label \cup {None}],
   bus: SUBSET Pin,                          \* only blueprints have these
   local_net: [Pin -> LocalNet],
   net: [LocalNet -> Net]]                   \* the nets found by NetGrouping

(* A local net has pins on a single sheet, and a component is listed before*)
(* those on its subsheets (netlist.py: collect_components).                *)
ASSUME HierarchyAssumption ==
  /\ Component \subseteq Nat /\ IsFiniteSet(Component)
  /\ Pin \subseteq Nat /\ IsFiniteSet(Pin)
  /\ None \notin Component /\ None \notin Label
  /\ Input \subseteq InputType
  /\ \A i \in Input : \A p, q \in Pin :
       i.local_net[p] = i.local_net[q] => i.sheet[i.component[p]] = i.sheet[i.component[q]]
  /\ \A i \in Input : \A c \in Component :
       i.parent[i.sheet[c]] # None => i.parent[i.sheet[c]] < c

VARIABLES
  input,
  components,   \* netlist.components
  present,      \* components which are still on their sheets
  cpins,        \* per local net, LocalNet.cpins
  net_of,       \* per local net, LocalNet.net
  nets,         \* netlist.nets
  component_pins, graphical_component_pins, \* per net
  failed,       \* an error has been reported
  pc,
  todo,         \* components to which the loop hasn't come
  component, candidates, pins, labels, ports, dest_net, \* its local variables
  remove_components

lists == <<components, present, cpins>>
netlist == <<net_of, nets, component_pins>>
loop == <<component, candidates, labels, dest_net>>
vars == <<input, lists, netlist, graphical_component_pins, failed, pc, todo, loop, pins, ports,
          remove_components>>

IsPort(c) == input.portname[c] # None

(* Of components which are several things at once, some aren't traversed.  *)
Composite(c) == c \in input.composite \ input.graphical /\ ~IsPort(c)

Subsheets(c) == {s \in Sheet : input.parent[s] = c}

Pins(c) == {p \in Pin : input.component[p] = c}
Cpins(c) == Pins(c) \ input.bus

(* Errors about the symbols, which are found before the instantiation.     *)
BlueprintErrors ==
  \E c \in Component : IsPort(c) /\
    \/ input.refdes[c] # None \/ Cardinality(Pins(c)) # 1
    \/ c \in input.composite \/ c \in input.graphical

Init ==
  /\ input \in Input
  /\ components = Component /\ present = Component
  /\ cpins = [l \in LocalNet |-> {p \in Pin \ input.bus : input.local_net[p] = l}]
  /\ net_of = input.net
  /\ nets = {input.net[input.local_net[p]] : p \in Pin \ input.bus}
  /\ component_pins =
       [n \in Net |-> {p \in Pin \ input.bus : input.net[input.local_net[p]] = n}]
  /\ graphical_component_pins = [n \in Net |-> {}]
  /\ failed = BlueprintErrors
  /\ pc = "hierarchy" /\ todo = Component
  /\ component = None /\ candidates = {} /\ labels = {} /\ dest_net = None
  /\ pins = {} /\ ports = <<>> /\ remove_components = {}

(* The next composite component: potential old-style ports are collected.  *)
StartComposite ==
  /\ pc = "hierarchy" /\ component = None /\ \E c \in todo : Composite(c)
  /\ component' = Min({c \in todo : Composite(c)})
  /\ todo' = {c \in todo : c > component'}
  /\ candidates' = {c \in present : input.sheet[c] \in Subsheets(component')}
  /\ pins' = Cpins(component') /\ labels' = {}
  /\ UNCHANGED <<input, lists, netlist, graphical_component_pins, failed, pc, dest_net, ports,
                 remove_components>>

Listed(p, n) == p \in cpins[input.local_net[p]] /\ p \in component_pins[n]

NewPorts(label) ==
  {c \in Component : input.sheet[c] \in Subsheets(component) /\ input.portname[c] = label}
OldPorts(label) == {c \in candidates : input.refdes[c] = label}
Usable(c) == Cardinality(Cpins(c)) = 1
OldPortErrors(c) == Composite(c) \/ c \in input.graphical \/ ~Usable(c)

(* The components of a set, as they are listed.                            *)
InOrder(S) ==
  [k \in 1..Cardinality(S) |-> CHOOSE c \in S : Cardinality({d \in S : d <= c}) = k]

(* Mutant of Matched: a second pin may have the same label.                *)
MatchedAgain(p) == input.pinlabel[p] # None

Matched(p) == input.pinlabel[p] \notin labels \cup {None}

(* The pin is in both lists, and the ports are in the dictionary.          *)
Disconnectable(p) ==
  /\ Listed(p, net_of[input.local_net[p]])
  /\ Matched(p) => NewPorts(input.pinlabel[p]) \subseteq present

(* A pin of the composite component is disconnected, and the ports with    *)
(* its label are looked up.                                                *)
DisconnectPin ==
  /\ pc = "hierarchy" /\ pins # {} /\ ports = <<>> /\ Disconnectable(Min(pins))
  /\ LET p == Min(pins)
         l == input.local_net[p]
         label == input.pinlabel[p]
     IN /\ cpins' = [cpins EXCEPT ![l] = @ \ {p}]
        /\ component_pins' = [component_pins EXCEPT ![net_of[l]] = @ \ {p}]
        /\ dest_net' = net_of[l]
        /\ labels' = labels \cup ({label} \ {None})
        /\ ports' = IF Matched(p)
                    THEN InOrder(NewPorts(label)) \o InOrder({c \in OldPorts(label) : Usable(c)})
                    ELSE <<>>
        /\ failed' = (failed \/ ~Matched(p) \/ \E c \in OldPorts(label) : OldPortErrors(c))
        /\ pins' = pins \ {p}
  /\ UNCHANGED <<input, components, present, net_of, nets, graphical_component_pins, pc, todo,
                 component, candidates, remove_components>>

PortPin(port) == Min(Cpins(port))

(* The port has a pin, and neither has been removed.                       *)
Connectable(port) ==
  /\ Cpins(port) # {} /\ port \in present
  /\ Listed(PortPin(port), net_of[input.local_net[PortPin(port)]])

(* Mutant of Redirected: just one local net is moved.                      *)
RedirectedOne(src) ==
  LET l == input.local_net[PortPin(Head(ports))]
  IN [net_of EXCEPT ![l] = dest_net]

(* Net.merge_into, and the lists of pins.  A net is never merged with      *)
(* itself.                                                                 *)
Redirected(src) == [l \in LocalNet |-> IF net_of[l] = src THEN dest_net ELSE net_of[l]]

NetsLeft(src) == nets \ ({src} \ {dest_net})

(* Mutant of MergedPins: the pins of the net aren't moved with it.         *)
MergedPinsLeft(src) == component_pins

MergedPins(src) ==
  [n \in Net |-> IF n = dest_net THEN component_pins[n] \cup component_pins[src]
                 ELSE IF n = src THEN {} ELSE component_pins[n]]

(* The net of the port becomes part of the net of the pin, and the port is *)
(* removed.                                                                *)
ConnectPort ==
  /\ pc = "hierarchy" /\ ports # <<>> /\ Connectable(Head(ports))
  /\ LET port == Head(ports)
         q == PortPin(port)
         l == input.local_net[q]
         src == net_of[l]
     IN /\ net_of' = Redirected(src)
        /\ nets' = NetsLeft(src)
        /\ component_pins' = [MergedPins(src) EXCEPT ![dest_net] = @ \ {q}]
        /\ cpins' = [cpins EXCEPT ![l] = @ \ {q}]
        /\ present' = present \ {port}
        /\ remove_components' = remove_components \cup {port}
  /\ ports' = Tail(ports)
  /\ UNCHANGED <<input, components, graphical_component_pins, failed, pc, todo, loop, pins>>

FinishComposite ==
  /\ pc = "hierarchy" /\ component # None /\ pins = {} /\ ports = <<>>
  /\ component \in present
  /\ present' = present \ {component}
  /\ remove_components' = remove_components \cup {component}
  /\ component' = None
  /\ UNCHANGED <<input, components, cpins, netlist, graphical_component_pins, failed, pc, todo,
                 candidates, labels, dest_net, pins, ports>>

(* Something isn't in a list or dictionary where it is looked for.         *)
Crash ==
  /\ pc = "hierarchy" /\ component # None
  /\ CASE ports # <<>> -> ~Connectable(Head(ports))
       [] ports = <<>> /\ pins # {} -> ~Disconnectable(Min(pins))
       [] OTHER -> component \notin present
  /\ pc' = "crashed"
  /\ UNCHANGED <<input, lists, netlist, graphical_component_pins, failed, todo, loop, pins, ports,
                 remove_components>>

Remaining == components \ remove_components

(* The components are removed from the netlist; ports which remain are     *)
(* errors.                                                                 *)
FinishHierarchy ==
  /\ pc = "hierarchy" /\ component = None /\ \A c \in todo : ~Composite(c)
  /\ components' = Remaining
  /\ failed' = (failed \/ \E c \in components' : IsPort(c))
  /\ pc' = "graphical" /\ todo' = components' \cap input.graphical
  /\ remove_components' = {}
  /\ UNCHANGED <<input, present, cpins, netlist, graphical_component_pins, loop, pins, ports>>

RemoveGraphical ==
  /\ pc = "graphical" /\ todo # {}
  /\ LET c == Min(todo)
         AllOn(n) == {p \in Cpins(c) : net_of[input.local_net[p]] = n}
     IN /\ todo' = todo \ {c}
        /\ present' = present \ {c}
        /\ remove_components' = remove_components \cup {c}
        /\ cpins' = [l \in LocalNet |-> cpins[l] \ Cpins(c)]
        /\ component_pins' = [n \in Net |-> component_pins[n] \ AllOn(n)]
        /\ graphical_component_pins' = [n \in Net |-> graphical_component_pins[n] \cup AllOn(n)]
  /\ UNCHANGED <<input, components, net_of, nets, failed, pc, loop, pins, ports>>

FinishGraphical ==
  /\ pc = "graphical" /\ todo = {}
  /\ components' = Remaining
  /\ pc' = "done"
  /\ UNCHANGED <<input, present, cpins, netlist, graphical_component_pins, failed, todo, loop,
                 pins, ports, remove_components>>

Next ==
  \/ StartComposite \/ DisconnectPin \/ ConnectPort \/ FinishComposite \/ Crash
  \/ FinishHierarchy \/ RemoveGraphical \/ FinishGraphical

Spec == Init /\ [][Next]_vars

-----------------------------------------------------------------------------
(* The phases of the netlister, those of the modules which extend this one *)
(* included.                                                               *)
Phases == {"hierarchy", "graphical", "done", "ppins", "connections", "unconnected", "names",
           "finished", "crashed", "read", "exited"}

(* The types of the variables; the input never changes.                    *)
TypeOK ==
  /\ components \cup present \cup todo \cup candidates \cup remove_components \subseteq Component
  /\ nets \subseteq Net /\ net_of \in [LocalNet -> Net]
  /\ pc \in Phases

(* The two lists a pin is in, of its local net and of its net, never       *)
(* disagree, whatever errors have been reported; and a local net with pins *)
(* is on a net which is in the netlist, until unconnected pins are taken   *)
(* out of it.                                                              *)
PinsListed ==
  /\ TypeOK
  /\ pc \notin {"names", "finished", "read", "exited"} =>
       \A l \in LocalNet : cpins[l] # {} => net_of[l] \in nets
  /\ \A n \in Net : component_pins[n] = UNION {cpins[l] : l \in {m \in LocalNet : net_of[m] = n}}

(* The ports which belong to a pin of a composite component.               *)
PortsOf(p) ==
  {c \in Component : /\ input.parent[input.sheet[c]] = input.component[p]
                     /\ input.pinlabel[p] \in {input.portname[c], input.refdes[c]} \ {None}}

Joined(l, m) ==
  \/ input.net[l] = input.net[m]
  \/ \E p \in Pin \ input.bus : \E c \in PortsOf(p) : \E q \in Cpins(c) :
       Composite(input.component[p]) /\ {l, m} = {input.local_net[p], input.local_net[q]}

Closed(S) == \A l \in S, m \in LocalNet : Joined(l, m) => m \in S

(* Two local nets are in the same net if and only if names, pins and ports *)
(* connect them, through any number of levels.                             *)
JoinedByPorts ==
  \A n \in Net :
    LET joined == {l \in LocalNet : net_of[l] = n}
    IN Closed(joined) /\ \A S \in SUBSET joined : S # {} /\ Closed(S) => S = joined

(* What remains are the other components, their pins are on exactly one net*)
(* each, and no other pins are.                                            *)
AllResolved ==
  /\ components = present
  /\ \A c \in components : ~Composite(c) /\ ~IsPort(c) /\ c \notin input.graphical
  /\ UNION {component_pins[n] : n \in nets} = UNION {Cpins(c) : c \in components}
  /\ \A m, n \in Net : m # n => component_pins[m] \cap component_pins[n] = {}

(* If there are no errors, composite components are replaced by what is on *)
(* their subsheets, however their labels and levels are combined: exactly  *)
(* the local nets which are connected are joined, and nothing else remains.*)
HierarchyResolved == pc = "done" /\ ~failed => JoinedByPorts /\ AllResolved

(* The netlister only ends with an exception after it has reported an      *)
(* error, with one exception: there is an I/O symbol whose pin is a bus.   *)
CrashReported ==
  pc = "crashed" => failed \/ \E c \in Component : IsPort(c) /\ Pins(c) \cap input.bus # {}
=============================================================================
