----------------------------- MODULE NetGrouping -----------------------------
(***************************************************************************)
(* src/gaf/netlist/net.py: postproc_instances() groups the local nets of   *)
(* all sheets which have a name in common into nets, names the nets which  *)
(* don't have a name, and drops the nets without pins.                     *)
(*                                                                         *)
(* Nets are numbered in the order in which they are created.  They are     *)
(* only ever added to the end of netlist.nets and taken out of it, so the  *)
(* positions of two nets in the list compare like their numbers, until the *)
(* list is put in its final order, which isn't modelled.  A mangled name   *)
(* is a pair of a namespace and a name, a generated name a pair of a       *)
(* template and a counter.                                                 *)
(***************************************************************************)
EXTENDS Naturals, Sequences, FiniteSets, FiniteSetsExt, SequencesExt

CONSTANTS LocalNet,     \* the local nets 1..n, in the order of their sheets
          Pin,          \* the component pins 1..k, in the order of their components
          Namespace,    \* the namespaces of the sheets
          Name,         \* the names found in schematics
          Input,        \* what postproc_instances() may be given
          Flat,         \* the namespace of names which are common to all sheets
          None

Label == [name: Name, from_netattrib: BOOLEAN]

InputType ==
  [labels: [LocalNet -> Seq(Label)],    \* netname= attributes, then net= attributes
   namespace: [LocalNet -> Namespace],  \* of the sheet the local net is on
   segments: SUBSET LocalNet,           \* local nets with net segments
   pin_net: [Pin -> LocalNet],
   flat: [BOOLEAN -> BOOLEAN],          \* flat_namespace
   prefer: BOOLEAN]                     \* prefer_netname_attribute

ASSUME NetGroupingAssumption ==
  /\ IsFiniteSet(LocalNet) /\ LocalNet = 1..Cardinality(LocalNet)
  /\ IsFiniteSet(Pin) /\ Pin = 1..Cardinality(Pin)
  /\ None \notin Nat /\ Flat \notin Namespace
  /\ Input \subseteq InputType

VARIABLES
  input,
  next_net, next_label, \* where the loops over local nets and their labels are
  net_of,       \* per local net, LocalNet.net
  nets,         \* netlist.nets
  made,         \* how many nets have been made
  local_nets, names, \* per net, Net.local_nets and Net.names
  net_dict,     \* the net of a mangled name
  chosen,       \* per net, its namespace and unmangled name
  unconnected,  \* nets for which is_unconnected_pin is set
  counter,      \* per template, the next number to try
  pc, next_pin  \* where postproc_instances() is, and the loop over the pins

group == <<net_of, nets, made, local_nets, names, net_dict>>
naming == <<chosen, unconnected, counter>>
position == <<next_net, next_label>>
vars == <<input, position, group, naming, pc, next_pin>>

Net == 1..made

PinsOf(l) == {p \in Pin : input.pin_net[p] = l}

Mangled(l, b, name) ==
  <<IF input.flat[b] THEN Flat ELSE input.namespace[l], name>>

(* The mangled name a label gives a local net.                             *)
LabelName(l, label) == Mangled(l, label.from_netattrib, label.name)

Init ==
  /\ input \in Input
  /\ next_net = 1 /\ next_label = 1
  /\ net_of = [l \in LocalNet |-> None]
  /\ nets = {} /\ made = 0
  /\ local_nets = <<>> /\ names = <<>>
  /\ net_dict = <<>> /\ chosen = <<>>
  /\ unconnected = {}
  /\ counter = [t \in {"unnamed_net", "unconnected_pin"} |-> 1]
  /\ pc = "group" /\ next_pin = 1

NoNames == [b \in BOOLEAN |-> <<>>]

(* The elements of t are appended to s one by one, but for those which it  *)
(* contains.                                                               *)
AppendNew(s, t) ==
  LET appended[i \in 0..Len(t)] ==
        IF i = 0 THEN s
        ELSE IF Contains(appended[i - 1], t[i]) THEN appended[i - 1]
             ELSE Append(appended[i - 1], t[i])
  IN appended[Len(t)]

(* The function, or dictionary, f after f[x] has been set to y.            *)
Put(f, x, y) == [z \in DOMAIN f \cup {x} |-> IF z = x THEN y ELSE f[z]]

RedirectedNot(dict, removed, dst) == \* Mutant of Redirected: net_dict isn't updated
  dict

(* net_dict when the net with the given names is merged into net dst.      *)
Redirected(dict, removed, dst) ==
  [x \in DOMAIN dict |->
     IF \E b \in BOOLEAN : Contains(removed[b], x) THEN dst ELSE dict[x]]

MergedApart(members, dst) == \* Mutant of Merged: LocalNet.net isn't updated
  net_of

(* LocalNet.net when the net with the given members is merged into net dst.*)
Merged(members, dst) == [l \in LocalNet |-> IF l \in members THEN dst ELSE net_of[l]]

(* The local net l, which has the name of net n, becomes part of it; if it *)
(* is part of another net already, the later one is merged into the        *)
(* earlier one.  ns, members, nm and dict are nets, local_nets, names and  *)
(* net_dict with n.                                                        *)
Join(l, n, ns, members, nm, dict) ==
  IF net_of[l] \in {n, None}
  THEN /\ net_of' = [net_of EXCEPT ![l] = n]
       /\ local_nets' = [members EXCEPT ![n] = @ \cup {l}]
       /\ nets' = ns /\ names' = nm /\ net_dict' = dict
  ELSE LET dst == Min({net_of[l], n})
           src == Max({net_of[l], n})
       IN /\ net_dict' = Redirected(dict, nm[src], dst)
          /\ net_of' = Merged(members[src], dst)
          /\ local_nets' = [members EXCEPT ![dst] = @ \cup members[src], ![src] = {}]
          /\ names' = [nm EXCEPT ![dst] = [b \in BOOLEAN |-> AppendNew(@[b], nm[src][b])],
                                 ![src] = NoNames]
          /\ nets' = ns \ {src}

(* One iteration of the inner loop of "Naming nets".                       *)
HandleLabel ==
  /\ pc = "group" /\ next_net \in LocalNet /\ next_label \in DOMAIN input.labels[next_net]
  /\ LET label == input.labels[next_net][next_label]
         name == LabelName(next_net, label)
         known == name \in DOMAIN net_dict
         n == IF known THEN net_dict[name] ELSE made + 1
         nm == IF known THEN names ELSE Put(names, n, NoNames)
     IN /\ made' = IF known THEN made ELSE n
        /\ Join(next_net, n, nets \cup {n},
                IF known THEN local_nets ELSE Put(local_nets, n, {}),
                [nm EXCEPT ![n][label.from_netattrib] = AppendNew(@, <<name>>)],
                Put(net_dict, name, n))
  /\ next_label' = next_label + 1
  /\ UNCHANGED <<input, next_net, naming, pc, next_pin>>

(* The local net has no more labels.                                       *)
NextLocalNet ==
  /\ pc = "group" /\ next_net \in LocalNet /\ next_label \notin DOMAIN input.labels[next_net]
  /\ next_net' = next_net + 1 /\ next_label' = 1
  /\ UNCHANGED <<input, group, naming, pc, next_pin>>

PreferredName(n, prio) ==
  LET preferred == names[n][prio]
  IN IF preferred = <<>> THEN Last(names[n][~prio]) ELSE Last(preferred)

(* "prioritize net names"; a net without a name would be an assertion      *)
(* failure here.                                                           *)
Prioritize ==
  /\ pc = "group" /\ next_net \notin LocalNet
  /\ chosen' = [n \in nets |-> PreferredName(n, ~input.prefer)]
  /\ pc' = "name"
  /\ UNCHANGED <<input, position, group, unconnected, counter, next_pin>>

CounterTaken(l, t) == \* Mutant of FreeNumber: names in use aren't avoided
  counter[t]

(* The first number from which the template makes a name not in net_dict.  *)
FreeNumber(l, t) ==
  CHOOSE k \in counter[t]..counter[t] + Cardinality(DOMAIN net_dict) :
    /\ Mangled(l, FALSE, <<t, k>>) \notin DOMAIN net_dict
    /\ \A j \in counter[t]..k - 1 : Mangled(l, FALSE, <<t, j>>) \in DOMAIN net_dict

LonelyPin(l) == \E p \in Pin : PinsOf(l) = {p} /\ l \notin input.segments

NamePin ==
  /\ pc = "name" /\ next_pin \in Pin
  /\ next_pin' = next_pin + 1
  /\ LET l == input.pin_net[next_pin]
         t == IF LonelyPin(l) THEN "unconnected_pin" ELSE "unnamed_net"
         k == FreeNumber(l, t)
         n == made + 1
         name == Mangled(l, FALSE, <<t, k>>)
     IN IF net_of[l] # None
        THEN UNCHANGED <<group, naming>>
        ELSE /\ made' = n /\ nets' = nets \cup {n}
             /\ net_of' = [net_of EXCEPT ![l] = n]
             /\ local_nets' = Put(local_nets, n, {l})
             /\ names' = Put(names, n, NoNames)
             /\ unconnected' = IF LonelyPin(l) THEN unconnected \cup {n} ELSE unconnected
             /\ counter' = [counter EXCEPT ![t] = k + 1]
             /\ chosen' = Put(chosen, n, name)
             /\ net_dict' = Put(net_dict, name, n)
  /\ UNCHANGED <<input, position, pc>>

(* "reorder nets": only nets which have pins are kept.                     *)
Reorder ==
  /\ pc = "name" /\ next_pin \notin Pin
  /\ nets' = {net_of[input.pin_net[p]] : p \in Pin}
  /\ pc' = "done"
  /\ UNCHANGED <<input, position, net_of, made, local_nets, names, net_dict, naming, next_pin>>

Next == HandleLabel \/ NextLocalNet \/ Prioritize \/ NamePin \/ Reorder

Spec == Init /\ [][Next]_vars

-----------------------------------------------------------------------------
(* A name leads to the net which has it, so that the assertion on net_dict *)
(* holds when nets are merged, and nets have names until they are named.   *)
DictAgrees ==
  pc = "group" =>
    /\ \A x \in DOMAIN net_dict :
         /\ net_dict[x] \in nets
         /\ \E b \in BOOLEAN : Contains(names[net_dict[x]][b], x)
    /\ \A n \in Net, b \in BOOLEAN : \A x \in ToSet(names[n][b]) :
         x \in DOMAIN net_dict /\ net_dict[x] = n
    /\ \A n \in nets : \E b \in BOOLEAN : names[n][b] # <<>>

(* LocalNet.net and Net.local_nets describe the same grouping, and the     *)
(* last assertion holds: the nets which are kept are those with pins.      *)
MembershipAgrees ==
  /\ \A n \in Net : local_nets[n] = {l \in LocalNet : net_of[l] = n}
  /\ pc = "done" => \A n \in nets : \E l \in local_nets[n] : PinsOf(l) # {}

(* The names of a local net, mangled.                                      *)
NamesOf(l) == {LabelName(l, label) : label \in ToSet(input.labels[l])}

(* A set of local nets from which no shared name leads out.                *)
Closed(S) == \A l \in S, m \in LocalNet : NamesOf(l) \cap NamesOf(m) # {} => m \in S

SharesNet(l, m) == \A S \in SUBSET LocalNet : l \in S /\ Closed(S) => m \in S

(* Two pins are on the same net if and only if a chain of shared names     *)
(* leads from one to the other, whatever the order of sheets and names.    *)
GroupedByName ==
  pc = "done" => \A l, m \in {k \in LocalNet : PinsOf(k) # {}} :
    net_of[l] = net_of[m] <=> SharesNet(l, m)

(* No two nets in the netlist have the same namespace and name, also if a  *)
(* schematic uses names which look like generated ones.                    *)
NamesDistinct ==
  pc = "done" => \A m, n \in nets : chosen[m] = chosen[n] => m = n

(* The names of a net which come from net= attributes, or don't.           *)
KindOf(n, b) ==
  UNION {{LabelName(l, label) : label \in {x \in ToSet(input.labels[l]) : x.from_netattrib = b}}
         : l \in local_nets[n]}

(* Documented for prefer_netname_attribute: a net which has names of both  *)
(* kinds gets one of the kind which is preferred.                          *)
NamePreferred ==
  pc = "done" => \A n \in nets :
    KindOf(n, ~input.prefer) # {} => chosen[n] \in KindOf(n, ~input.prefer)

(* Both together: the name of a net is its own.                            *)
NamesRight == NamesDistinct /\ NamePreferred

(* The types of the variables.                                             *)
TypeOK ==
  /\ input \in Input
  /\ made \in Nat
  /\ nets \subseteq 1..made
  /\ \A l \in LocalNet :
       net_of[l] \in nets \cup {None} \/ (pc = "done" /\ PinsOf(l) = {})
  /\ pc \in {"group", "name", "done"}

(* The assertions in net.py hold, whatever the order in which nets are     *)
(* merged: the dictionary leads to the net which has a name, local nets    *)
(* refer to nets in the netlist, which list them, and no net without pins  *)
(* is left.                                                                *)
GroupsConsistent == TypeOK /\ DictAgrees /\ MembershipAgrees
=============================================================================
