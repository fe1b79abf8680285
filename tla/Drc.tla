---------------------------------- MODULE Drc ----------------------------------
(***************************************************************************)
(* src/backend/gnet_drc2.py: the design rules checker, with its default    *)
(* configuration, finds the set of errors and warnings it reports, whether *)
(* it marks the netlist as failed on the way, and whether it ends with an  *)
(* exception.  The names of pin types are compared without regard to case; *)
(* here they are in lower case already.                                    *)
(***************************************************************************)
EXTENDS Attributes, Integers

CONSTANT IntOf          \* what int() makes of strings, where it doesn't fail

pintype_names ==
  <<"unknown", "in", "out", "io", "oc", "oe", "pas", "tp", "tri", "clk", "pwr", "unconnected">>

Connected == 1..11      \* all types but the last
UNDEFINED == 12

(* Per type, the types before it, or the same, to which it mustn't be      *)
(* connected, and those with which this leads to a warning.                *)
Forbidden ==
  [t \in Connected |->
     CASE pintype_names[t] = "out" -> {"out"}
       [] pintype_names[t] = "oc"  -> {"out", "oc"}
       [] pintype_names[t] = "oe"  -> {"out", "oe"}
       [] pintype_names[t] = "tp"  -> {"out", "oc", "oe", "tp"}
       [] pintype_names[t] = "tri" -> {"out", "tp"}
       [] pintype_names[t] = "pwr" -> {"out", "oc", "oe", "tp", "tri", "clk"}
       [] OTHER -> {}]

Doubtful ==
  [t \in Connected |->
     CASE pintype_names[t] = "io" -> {"out"}
       [] pintype_names[t] \in {"oc", "oe", "tp", "pwr"} -> {"io"}
       [] OTHER -> {}]

can_drive == {"unknown", "out", "io", "oc", "oe", "pas", "tp", "tri", "pwr"}

get_drc_matrix_element(row, column) ==
  LET r == Max({row, column})
      c == Min({row, column})
  IN CASE r = UNDEFINED -> "error"
       [] r # UNDEFINED /\ pintype_names[c] \in Forbidden[r] -> "error"
       [] r # UNDEFINED /\ pintype_names[c] \in Doubtful[r] -> "warning"
       [] OTHER -> "ignore"

(* get_slots: a bad slot number is an error, and left out.                 *)
get_slots(k) ==
  LET slots == [i \in DOMAIN ComponentsOf(k) |->
                  LET slot == AllValues(k, "slot")[i] IN IF slot = None THEN "1" ELSE slot]
      numbers == SelectSeq(slots, LAMBDA slot : slot \in DOMAIN IntOf)
  IN [i \in DOMAIN numbers |-> IntOf[numbers[i]]]

BadSlots(k) ==
  \E i \in DOMAIN AllValues(k, "slot") : AllValues(k, "slot")[i] \notin DOMAIN IntOf \cup {None}

get_unique_slots(k) == ToSet(get_slots(k))

Complaint(severity, about) == [severity |-> severity, about |-> about]
Error(about) == Complaint("error", about)

non_numbered ==
  {Error(<<"not numbered", k>>) :
     k \in {j \in packages : ToSet(PackageRefdes(j)) \cap Placeholder # {}}}

duplicated_references ==
  {Error(<<"duplicated reference", k>>) :
     k \in {j \in packages :
              Cardinality({c \in WithRefdes(components) : ComponentRefdes(c) = PackageRefdes(j)})
                > Cardinality(get_unique_slots(j))}}

directives(n) == GraphicalValues(n, "device", "DRC_Directive", "value")

connected_noconnects ==
  {Error(<<"connected noconnect", n>>) :
     n \in {m \in nets : "NoConnection" \in directives(m) /\ Cardinality(connections[m]) > 1}}

single_nets ==
  {Error(<<"single net", n>>) :
     n \in {m \in nets : "NoConnection" \notin directives(m) /\ Cardinality(connections[m]) <= 1}}

PinType(ppin) == PpinValue(ppin, "pintype", "unknown")

(* Mutant of count_pintypes_of_net: pins of the same type are counted once.*)
CountOnce(n) ==
  [t \in 1..12 |-> IF \E ppin \in connections[n] : PinType(ppin) = pintype_names[t] THEN 1 ELSE 0]

(* Types which aren't known at all aren't counted.                         *)
count_pintypes_of_net(n) ==
  [t \in 1..12 |-> Cardinality({ppin \in connections[n] : PinType(ppin) = pintype_names[t]})]

pintypes_of_single_net(n) ==
  LET count == count_pintypes_of_net(n)
      pairs == {<<type1, type2>> \in Connected \X Connected :
                  /\ type1 <= type2 /\ count[type1] > 0 /\ count[type2] > 0
                  /\ type1 = type2 => count[type1] > 1}
  IN {c \in {Complaint(get_drc_matrix_element(x[1], x[2]),
                       <<"connection", n, pintype_names[x[1]], pintype_names[x[2]]>>) : x \in pairs} :
        c.severity # "ignore"}

if_net_is_driven(n) ==
  \E t \in Connected : count_pintypes_of_net(n)[t] > 0 /\ pintype_names[t] \in can_drive

pintypes_of_nets ==
  UNION {pintypes_of_single_net(n) : n \in {m \in nets : "DontCheckPintypes" \notin directives(m)}}
  \cup {Error(<<"not driven", n>>) :
          n \in {m \in nets : /\ {"DontCheckIfDriven", "NoConnection"} \cap directives(m) = {}
                              /\ ~if_net_is_driven(m)}}

Unconnected == {ppin \in DOMAIN cpins_of : ppin_net[ppin] \in is_unconnected_pin}

(* The matrix has no element for a type which isn't known.                 *)
DrcCrashes == \E ppin \in Unconnected : PinType(ppin) \notin ToSet(pintype_names)

unconnected_pins == {Error(<<"unconnected pin", ppin>>) : ppin \in Unconnected}

numslots(k) == PackageValue(k, "numslots", "unknown")

(* check_slots: one complaint at most, unless slots are out of range.      *)
slots_of(k) ==
  LET slot == IF AllValues(k, "slot")[1] = None THEN "unknown" ELSE AllValues(k, "slot")[1]
  IN CASE slot = "unknown" /\ numslots(k) \in {"unknown", "0"} -> {}
       [] slot \notin DOMAIN IntOf \cup {"unknown"} -> {Error(<<"bad slot", k>>)}
       [] OTHER ->
            IF numslots(k) \notin DOMAIN IntOf THEN {Error(<<"bad numslots", k>>)}
            ELSE IF slot = "unknown" THEN {Error(<<"no slot", k>>)}
            ELSE {Error(<<"out of range", k, n>>) :
                    n \in {m \in get_unique_slots(k) : m > IntOf[numslots(k)] \/ m < 1}}

slots == UNION {slots_of(k) : k \in packages}

duplicated_slots ==
  {Error(<<"duplicated slot", k>>) :
     k \in {j \in packages : Cardinality(get_unique_slots(j)) < Len(get_slots(j))}}

unused_slots ==
  UNION {{Complaint("warning", <<"unused slot", k, n>>) : n \in 1..IntOf[numslots(k)] \ get_unique_slots(k)} :
           k \in {j \in packages : numslots(j) \in DOMAIN IntOf}}

Complaints ==
  non_numbered \cup duplicated_references \cup connected_noconnects \cup single_nets
    \cup pintypes_of_nets \cup unconnected_pins \cup slots \cup duplicated_slots \cup unused_slots

(* The values which are asked for don't agree, or aren't slot numbers.     *)
DrcFails ==
  \/ \E k \in packages : ComponentsFail(k, "slot") \/ PackageFails(k, "numslots") \/ BadSlots(k)
  \/ \E n \in nets : \/ GraphicalFails(n, "device", "DRC_Directive", "value")
                     \/ \E ppin \in connections[n] : PpinFails(ppin, "pintype")
  \/ \E ppin \in Unconnected : PpinFails(ppin, "pintype")

-----------------------------------------------------------------------------
Bad(t, u, table) ==
  \E i \in Connected : \/ pintype_names[i] = t /\ u \in table[i]
                       \/ pintype_names[i] = u /\ t \in table[i]

Reported(complaints, severity, n, t, u) ==
  {Complaint(severity, <<"connection", n, t, u>>), Complaint(severity, <<"connection", n, u, t>>)}
    \cap complaints # {}

About(complaints, k) ==
  {c \in complaints : Len(c.about) > 1 /\ c.about[1] \in {"bad slot", "bad numslots", "no slot",
     "out of range", "duplicated slot", "unused slot"} /\ c.about[2] = k}

(* Any two pins of packages which are connected, but mustn't be, are       *)
(* reported unless a directive says otherwise, and no others are.          *)
PairsReported(complaints) ==
  \A n \in nets, t, u \in ToSet(pintype_names) :
    LET exists == \E p, q \in DOMAIN cpins_of : /\ p # q /\ ppin_net[p] = n /\ ppin_net[q] = n
                                               /\ PinType(p) = t /\ PinType(q) = u
        checked == exists /\ "DontCheckPintypes" \notin directives(n)
    IN /\ Reported(complaints, "error", n, t, u) <=> checked /\ Bad(t, u, Forbidden)
       /\ Reported(complaints, "warning", n, t, u) <=>
            checked /\ Bad(t, u, Doubtful) /\ ~Bad(t, u, Forbidden)

(* A pin of a package which isn't connected with another is reported, or   *)
(* said to be meant to be like this.                                       *)
LonelyReported(complaints) ==
  \A p \in DOMAIN cpins_of :
    \/ \E q \in DOMAIN cpins_of : p # q /\ ppin_net[p] = ppin_net[q]
    \/ Error(<<"unconnected pin", p>>) \in complaints
    \/ Error(<<"single net", ppin_net[p]>>) \in complaints
    \/ "NoConnection" \in directives(ppin_net[p])

(* If there is no complaint about the slots of a package which has a       *)
(* number of them, its components use each one once.                       *)
SlotsUsed(complaints) ==
  \A k \in packages :
    (/\ numslots(k) \in DOMAIN IntOf /\ IntOf[numslots(k)] > 0
     /\ About(complaints, k) = {}) =>
      /\ Len(ComponentsOf(k)) = IntOf[numslots(k)]
      /\ get_unique_slots(k) = 1..IntOf[numslots(k)]
===============================================================================
