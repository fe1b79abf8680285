------------------------------- MODULE Packages -------------------------------
(***************************************************************************)
(* src/gaf/netlist/package.py and the last part of the Netlist constructor *)
(* in netlist.py: when the hierarchy has been resolved, components with    *)
(* the same refdes are grouped into packages, unconnected pins are taken   *)
(* out of the netlist, and the names of packages and nets are mangled.     *)
(*                                                                         *)
(* A name is the sequence of its parts between separators ("/"), so that   *)
(* one found in a schematic may look like a mangled one.  A package is     *)
(* known by its namespace and unmangled refdes, a pin of a package by the  *)
(* package and the pin's number.                                           *)
(***************************************************************************)
EXTENDS Hierarchy

CONSTANTS Number,      \* the values of pinnumber=
          Given(_)     \* what else the netlister is given, per netlist

GivenType ==
  [number: [Pin -> Number \cup {None}],
   name: [Net -> Label],           \* Net.unmangled_name
   from: [Net -> Sheet],           \* the sheet whose namespace is Net.namespace
   unnamed: SUBSET Net,            \* nets whose name has been made up
   lonely: SUBSET Net,             \* those of them which have a single pin
   flat: BOOLEAN]                  \* flat_package_namespace

ASSUME PackagesAssumption ==
  \A i \in Input : Given(i) \subseteq GivenType

VARIABLES
  given,
  is_unconnected_pin, \* the nets which have this flag
  packages,           \* netlist.packages
  cpins_of,           \* per pin of a package, PackagePin.cpins
  ppin_net,           \* per pin of a package, PackagePin.net
  connections,        \* per net, Net.connections
  packages_by_refdes,
  nets_by_name

packaging == <<is_unconnected_pin, packages, cpins_of, ppin_net, connections,
               packages_by_refdes, nets_by_name>>
pvars == <<vars, given, packaging>>

PackagesInit ==
  /\ Init
  /\ given \in Given(input)
  /\ is_unconnected_pin = given.lonely
  /\ packages = {} /\ cpins_of = <<>> /\ ppin_net = <<>> /\ connections = <<>>
  /\ packages_by_refdes = <<>> /\ nets_by_name = <<>>

(* Sheet.namespace: the refdes of all components which instantiate it.     *)
Namespaces ==
  LET namespace[s \in Sheet] ==
        LET c == input.parent[s]
        IN IF c = None THEN <<>> ELSE Append(namespace[input.sheet[c]], input.refdes[c])
  IN namespace

(* Mutant of PackageNamespace: sheets aren't told apart.                   *)
PackageNamespaceTop(c) == IF given.flat THEN None ELSE <<>>

PackageNamespace(c) == IF given.flat THEN None ELSE Namespaces[input.sheet[c]]

PackageOf(c) == <<PackageNamespace(c), input.refdes[c]>>
PpinOf(p) == <<PackageOf(input.component[p]), given.number[p]>>

WithRefdes(C) == {c \in C : input.refdes[c] # None}
PackagedPins(P) == {p \in P : input.refdes[input.component[p]] # None}

(* The component pins of all components are put into packages.             *)
GroupPackages ==
  /\ pc = "done"
  /\ packages' = {PackageOf(c) : c \in WithRefdes(components)}
  /\ LET all == PackagedPins(UNION {Cpins(c) : c \in components})
     IN cpins_of' = [k \in {PpinOf(p) : p \in all} |-> {p \in all : PpinOf(p) = k}]
  /\ pc' = "ppins"
  /\ UNCHANGED <<input, lists, netlist, graphical_component_pins, failed, todo, loop, pins, ports,
                 remove_components, given, is_unconnected_pin, ppin_net, connections,
                 packages_by_refdes, nets_by_name>>

NetOf(p) == net_of[input.local_net[p]]

(* The first net found is the net of the pin; it should be the only one.   *)
AssignNets ==
  /\ pc = "ppins"
  /\ ppin_net' = [k \in DOMAIN cpins_of |-> NetOf(Min(cpins_of[k]))]
  /\ failed' = (failed \/ \E k \in DOMAIN cpins_of : \E p, q \in cpins_of[k] : NetOf(p) # NetOf(q))
  /\ pc' = "connections"
  /\ UNCHANGED <<input, lists, netlist, graphical_component_pins, todo, loop, pins, ports,
                 remove_components, given, is_unconnected_pin, packages, cpins_of, connections,
                 packages_by_refdes, nets_by_name>>

(* Each pin on a net is looked up, though it may belong to a component     *)
(* which has been removed.                                                 *)
Known == \A n \in nets : \A p \in PackagedPins(component_pins[n]) : PpinOf(p) \in DOMAIN cpins_of

AssignConnections ==
  /\ pc = "connections" /\ Known
  /\ connections' = [n \in nets |-> {PpinOf(p) : p \in PackagedPins(component_pins[n])}]
  /\ pc' = "unconnected"
  /\ UNCHANGED <<input, lists, netlist, graphical_component_pins, failed, todo, loop, pins, ports,
                 remove_components, given, is_unconnected_pin, packages, cpins_of, ppin_net,
                 packages_by_refdes, nets_by_name>>

PackageCrash ==
  /\ pc = "connections" /\ ~Known
  /\ pc' = "crashed"
  /\ UNCHANGED <<input, lists, netlist, graphical_component_pins, failed, todo, loop, pins, ports,
                 remove_components, given, packaging>>

(* Mutant of StillUnconnected: nets aren't looked at again.                *)
StillUnconnectedAll == is_unconnected_pin

StillUnconnected ==
  {n \in is_unconnected_pin : n \in nets => Cardinality(connections[n]) <= 1}

RemoveUnconnected ==
  /\ pc = "unconnected"
  /\ is_unconnected_pin' = StillUnconnected
  /\ nets' = nets \ is_unconnected_pin'
  /\ pc' = "names"
  /\ UNCHANGED <<input, lists, net_of, component_pins, graphical_component_pins, failed, todo, loop,
                 pins, ports, remove_components, given, packages, cpins_of, ppin_net, connections,
                 packages_by_refdes, nets_by_name>>

(* command/netlist.py: mangle(), with the default options.                 *)
Mangle(basename, namespace) == IF namespace = None THEN basename ELSE FlattenSeq(namespace) \o basename

NetName(n) == Mangle(given.name[n], Namespaces[given.from[n]])
PackageRefdes(package) == Mangle(package[2], package[1])
ComponentRefdes(c) ==
  Mangle(input.refdes[c], IF given.flat THEN None ELSE Namespaces[input.sheet[c]])

(* If packages or nets have the same name, the last of them is in the      *)
(* dictionary; the order of their lists isn't modelled.                    *)
CompileHashes ==
  /\ pc = "names"
  /\ packages_by_refdes' \in
       {f \in [{PackageRefdes(k) : k \in packages} -> packages] :
          \A x \in DOMAIN f : PackageRefdes(f[x]) = x}
  /\ nets_by_name' \in
       {f \in [{NetName(n) : n \in nets} -> nets] : \A x \in DOMAIN f : NetName(f[x]) = x}
  /\ failed' = \/ failed
               \/ \E j, k \in packages : j # k /\ PackageRefdes(j) = PackageRefdes(k)
               \/ \E m, n \in nets : m # n /\ NetName(m) = NetName(n)
  /\ pc' = "finished"
  /\ UNCHANGED <<input, lists, netlist, graphical_component_pins, todo, loop, pins, ports,
                 remove_components, given, is_unconnected_pin, packages, cpins_of, ppin_net,
                 connections>>

PackagesNext ==
  \/ Next /\ UNCHANGED <<given, packaging>>
  \/ GroupPackages \/ AssignNets \/ AssignConnections \/ PackageCrash
  \/ RemoveUnconnected \/ CompileHashes

PackagesSpec == PackagesInit /\ [][PackagesNext]_pvars

-----------------------------------------------------------------------------
(* If there are no errors, components are in the same package if and only  *)
(* if they end up with the same refdes, which leads to the package; and    *)
(* whatever page they are on, each of their pins is connected to the net   *)
(* of the package's pin with its number, and to no other net.              *)
PackagesExact ==
  pc = "finished" /\ ~failed =>
    /\ \A c \in WithRefdes(components) :
         /\ ComponentRefdes(c) \in DOMAIN packages_by_refdes
         /\ packages_by_refdes[ComponentRefdes(c)] = PackageOf(c)
    /\ \A c, d \in WithRefdes(components) :
         PackageOf(c) = PackageOf(d) <=> ComponentRefdes(c) = ComponentRefdes(d)
    /\ \A p \in PackagedPins(UNION {Cpins(c) : c \in components}) :
         {n \in DOMAIN connections : PpinOf(p) \in connections[n]} = {ppin_net[PpinOf(p)]}

(* If there are no errors, two pins of packages which names, pins and      *)
(* ports connect are on one net of the netlist, found under its name; only *)
(* nets which don't connect anything are left out, and pins on these were  *)
(* alone on their net or were connected with nothing but ports.            *)
NothingLost ==
  pc = "finished" /\ ~failed =>
    LET packaged == PackagedPins(UNION {Cpins(c) : c \in components})
    IN /\ \A p, q \in packaged :
            NetOf(p) = NetOf(q) /\ PpinOf(p) # PpinOf(q) =>
              /\ NetOf(p) \in nets
              /\ nets_by_name[NetName(NetOf(p))] = NetOf(p)
              /\ {PpinOf(p), PpinOf(q)} \subseteq connections[NetOf(p)]
       /\ \A n \in DOMAIN connections \ nets :
            \E p \in Pin : NetOf(p) = n /\ input.net[input.local_net[p]] \in given.lonely
=============================================================================
