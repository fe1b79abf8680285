------------------------------- MODULE BackEnds -------------------------------
(***************************************************************************)
(* src/command/netlist.py and the back-ends in src/backend/: when the      *)
(* netlist has been read, it is handed to a back-end which writes to a     *)
(* file.  The file only appears if there was no error, or errors are to be *)
(* ignored; standard output and the interactive mode are left out.         *)
(***************************************************************************)
EXTENDS NetlistFormats, Drc, PartsLists

CONSTANTS Backend,      \* the names of the back-ends to be considered
          Attribs       \* what there may be in the file "attribs", or None

ASSUME BackEndsAssumption == \A attribs \in Attribs \ {None} : attribs \in Seq(STRING)

VARIABLES
  ignore_errors,
  backend,
  status,               \* how the program ends, or None
  output                \* what is in the output file, or None

bvars == <<avars, ignore_errors, backend, status, output>>

(* netlist.packages, back to front                                         *)
FirstOf(k) == Min({c \in WithRefdes(components) : PackageOf(c) = k})
PackagesReversed == SetToSortSeq(packages, LAMBDA j, k : FirstOf(j) > FirstOf(k))

Row(k, names) ==
  <<PackageRefdes(k)>> \o [i \in DOMAIN names |-> PackageValue(k, names[i], "unknown")]

Lines(header, rows, wrong) ==
  [header |-> header, rows |-> rows, failed |-> wrong, crashed |-> FALSE]

columns == <<"device", "value", "footprint">>

get_parts_table ==
  LET listed == SelectSeq(PackagesReversed, LAMBDA k : PackageValue(k, "device", "unknown") # "include")
  IN [i \in DOMAIN listed |-> Row(listed[i], columns)]

(* Only the device of packages which aren't listed is asked for.           *)
PartsFail ==
  \/ Asked({"device"})
  \/ \E k \in packages : /\ PackageValue(k, "device", "unknown") # "include"
                         /\ PackageFails(k, "value") \/ PackageFails(k, "footprint")

sorted_parts == marge_sort_with_multikey(get_parts_table, <<2, 3, 4, 1>>)

(* The first list is in the order of the refdes, of which we don't care.   *)
partslist1 == Lines(columns, ToSet(get_parts_table), PartsFail)
partslist2 == Lines(columns, sorted_parts, PartsFail)
partslist3 == Lines(columns, count_same_parts(sorted_parts), PartsFail)

bom(attribs) ==
  LET listed == SelectSeq(PackagesReversed, LAMBDA k : PackageValue(k, "nobom", None) # "1")
  IN CASE attribs = None -> Lines(<<>>, <<>>, TRUE)
       [] attribs = <<>> -> Lines(<<>>, <<>>, FALSE)
       [] OTHER -> Lines(attribs, [i \in DOMAIN listed |-> Row(listed[i], attribs)],
                         Asked({"nobom"}) \/ \E k \in ToSet(listed), x \in ToSet(attribs) :
                                               PackageFails(k, x))

bom2(attribs) ==
  LET listed == SelectSeq(PackagesReversed, LAMBDA k : PackageValue(k, "nobom", None) = None)
  IN CASE attribs = None -> Lines(<<>>, <<>>, TRUE)
       [] attribs = <<>> -> Lines(<<>>, <<>>, FALSE)
       [] OTHER -> Lines(attribs, bomlist([i \in DOMAIN listed |-> Row(listed[i], attribs)]),
                         Asked({"nobom"}) \/ \E k \in ToSet(listed), x \in ToSet(attribs) :
                                               PackageFails(k, x))

(* gnet_drc: attributes which are missing, and nets with less than two pins*)
drc(attribs) ==
  IF attribs = None THEN Lines(<<>>, {}, TRUE)
  ELSE Lines(<<>>, {<<"missing", k, x>> : <<k, x>> \in
                {y \in packages \X ToSet(attribs) : PackageValue(y[1], y[2], None) = None}}
             \cup {<<"pins", n, Cardinality(connections[n])>> :
                     n \in {m \in nets : Cardinality(connections[m]) <= 1}},
             Asked(ToSet(attribs)))

drc2 == [complaints |-> Complaints, failed |-> DrcFails, crashed |-> DrcCrashes]

AttribsFor(name) == IF name \in {"bom", "bom2", "drc"} THEN Attribs ELSE {None}

(* What the back-end writes; it may need the file "attribs".               *)
Written(name, attribs) ==
  CASE name = "PCB" -> PCB             [] name = "liquidpcb" -> liquidpcb
    [] name = "redac" -> redac         [] name = "tango" -> tango
    [] name = "bae" -> bae             [] name = "maxascii" -> maxascii
    [] name = "osmond" -> osmond       [] name = "geda" -> geda
    [] name = "calay" -> calay         [] name = "protelII" -> protelII
    [] name = "allegro" -> allegro     [] name = "mathematica" -> mathematica
    [] name = "eagle" -> eagle         [] name = "pads" -> pads
    [] name = "pcbpins" -> pcbpins     [] name = "pcbfwd" -> pcbfwd
    [] name = "tedax" -> tedax         [] name = "futurenet2" -> futurenet2
    [] name = "ewnet" -> ewnet         [] name = "spice_sdb" -> repackage
    [] name = "partslist1" -> partslist1 [] name = "partslist2" -> partslist2
    [] name = "partslist3" -> partslist3 [] name = "drc2" -> drc2
    [] name = "bom" -> bom(attribs)    [] name = "bom2" -> bom2(attribs)
    [] name = "drc" -> drc(attribs)

(* Exceptions end the program with status 1 in the middle of the output,   *)
(* which doesn't replace the file then.                                    *)
Finish(written) ==
  LET wrong == failed \/ written.failed
  IN /\ failed' = wrong
     /\ CASE written.crashed -> status' = "1" /\ output' = None
          [] ~written.crashed /\ wrong /\ ~ignore_errors' -> status' = "3" /\ output' = None
          [] OTHER -> status' = "0" /\ output' = written

(* The back-end is only run if the netlist is all right, or errors are to  *)
(* be ignored.                                                             *)
Invoke ==
  /\ pc = "read" /\ pc' = "exited"
  /\ ignore_errors' \in BOOLEAN
  /\ backend' \in Backend
  /\ IF failed /\ ~ignore_errors' THEN failed' = TRUE /\ status' = "2" /\ output' = None
     ELSE \E attribs \in AttribsFor(backend') : Finish(Written(backend', attribs))
  /\ UNCHANGED <<input, lists, netlist, graphical_component_pins, todo, loop, pins, ports,
                 remove_components, given, packaging, texts, parameters>>

BackEndsInit ==
  AttributesInit /\ ignore_errors = FALSE /\ backend = None /\ status = None /\ output = None

BackEndsNext ==
  \/ AttributesNext /\ UNCHANGED <<ignore_errors, backend, status, output>>
  \/ Invoke

BackEndsSpec == BackEndsInit /\ [][BackEndsNext]_bvars

-----------------------------------------------------------------------------
Succeeded(names) == pc = "exited" /\ status = "0" /\ ~failed /\ backend \in names

(* If the design rules checker succeeds, the pins of packages which it     *)
(* says mustn't be connected are those which are; a pin which isn't        *)
(* connected is reported or said to be meant like this; and the slots of   *)
(* packages are used once each unless there is a complaint.                *)
DrcFinds ==
  Succeeded({"drc2"}) =>
    PairsReported(output.complaints) /\ LonelyReported(output.complaints)
      /\ SlotsUsed(output.complaints)

WithNets == {"PCB", "liquidpcb", "redac", "tango", "bae", "maxascii", "osmond", "geda", "calay",
             "protelII", "allegro", "mathematica", "eagle", "pads", "pcbfwd", "tedax",
             "futurenet2", "ewnet"}

PrintedAs(p) ==
  LET k == PackageOf(input.component[p])
  IN <<IF backend \in {"pads", "futurenet2"} THEN UpperRefdeses[k] ELSE Refdeses[k], given.number[p]>>

PrintedOn(p) == {x[2] : x \in {y \in output.connected : y[1] = PrintedAs(p)}} \ {<<"#f">>}

(* The pins which get a number from a schematic: back-ends which write the *)
(* pins of each package say "unknown" about the others.                    *)
Printable ==
  LET all == PackagedPins(UNION {Cpins(c) : c \in components})
  IN IF backend \in {"futurenet2", "ewnet"}
     THEN {p \in all : ~(cpins_of[PpinOf(p)] \subseteq texts.artificial)} ELSE all

(* Two pins are connected by the file if and only if they are connected by *)
(* the schematics, however names had to be changed for its format; pins    *)
(* which are not on any net of the file are not connected at all.          *)
PinsConnected ==
  Succeeded(WithNets) =>
    \A p, q \in Printable :
      /\ Cardinality(PrintedOn(p)) <= 1
      /\ PrintedAs(p) = PrintedAs(q) <=> PpinOf(p) = PpinOf(q)
      /\ PrintedOn(p) \cap PrintedOn(q) # {} => NetOf(p) = NetOf(q)
      /\ NetOf(p) = NetOf(q) /\ PpinOf(p) # PpinOf(q) => PrintedOn(p) \cap PrintedOn(q) # {}

(* Packages which have been formed anew consist of components of one       *)
(* package which agree about their slot, and don't change what is          *)
(* connected.                                                              *)
Repackaged ==
  Succeeded({"spice_sdb"}) =>
    LET refdes(c) == Mangle(get_refdes(c), PackageNamespace(c))
    IN /\ \A c, d \in WithRefdes(components) : refdes(c) = refdes(d) =>
            PackageOf(c) = PackageOf(d) /\ (HasSlot(c) => AttachedSlots(c) = AttachedSlots(d))
       /\ \A p \in PackagedPins(UNION {Cpins(c) : c \in components}) :
            {x[2] : x \in {y \in output.connected :
                             y[1] = <<refdes(input.component[p]), given.number[p]>>}} = {NetOf(p)}

PartsListed == {Row(k, columns) : k \in {j \in packages : PackageValue(j, "device", "unknown") # "include"}}

(* Values which only differ in the case of letters                         *)
Twins ==
  \E row, other \in PartsListed : \E i \in 2..4 :
    row[i] # other[i] /\ Rank(i, row[i]) = Rank(i, other[i])

(* The groups have each row once, under its own values, and no two groups  *)
(* have the same values.                                                   *)
Grouped(rows, groups, urefs, part) ==
  /\ UNION {{<<u>> \o g[part] : u \in ToSet(g[urefs])} : g \in ToSet(groups)} = rows
  /\ \A i, j \in DOMAIN groups : i # j => groups[i][part] # groups[j][part]
  /\ \A g \in ToSet(groups) : IsInjective(g[urefs])

(* A list of parts has each package which isn't exempted once, with its    *)
(* values; parts with the same values stand together, and are counted      *)
(* right, unless some values only differ in the case of letters.           *)
ListsExact ==
  /\ Succeeded({"partslist2"}) =>
       /\ ToSet(output.rows) = PartsListed /\ IsInjective(output.rows)
       /\ ~Twins => \A i, j, k \in DOMAIN output.rows :
            i < j /\ j < k /\ Tail(output.rows[i]) = Tail(output.rows[k]) =>
              Tail(output.rows[i]) = Tail(output.rows[j])
  /\ Succeeded({"partslist3"}) =>
       /\ UNION {ToSet(g.urefs) : g \in ToSet(output.rows)} = {row[1] : row \in PartsListed}
       /\ ~Twins => Grouped(PartsListed, output.rows, "urefs", "part")
       /\ \A g \in ToSet(output.rows) : g.quantity = Len(g.urefs)
  /\ Succeeded({"bom2"}) /\ output.header # <<>> =>
       Grouped({Row(k, output.header) : k \in {j \in packages : PackageValue(j, "nobom", None) = None}},
               output.rows, "refdes_list", "attribs")

(* If nothing has been reported, what is in the output file says the same  *)
(* as the schematics, whatever has been renamed, left out, sorted or       *)
(* regrouped for it.                                                       *)
OutputExact == PinsConnected /\ Repackaged /\ ListsExact

=============================================================================
