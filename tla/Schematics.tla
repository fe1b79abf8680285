------------------------------ MODULE Schematics ------------------------------
(***************************************************************************)
(* src/gaf/netlist/netlist.py: the first part of the Netlist constructor.  *)
(* It loads the schematics on the command line and those they refer to by  *)
(* source= attributes, makes several passes over what has been loaded      *)
(* (pp_power.py, pp_hierarchy.py, pp_slotting.py, pp_netattrib.py,         *)
(* pp_graphical.py, package.py), and instantiates each schematic as often  *)
(* as it is used.                                                          *)
(*                                                                         *)
(* A component is a blueprint, gaf.netlist.blueprint.Component, here; they *)
(* are numbered in the order of their schematics.  What their attributes   *)
(* say is part of the input.  A sheet is the path which leads to it: the   *)
(* position of a file on the command line, then a component and the        *)
(* position of a file in its source= attributes for each level.            *)
(***************************************************************************)
EXTENDS Integers, Sequences, FiniteSets, FiniteSetsExt, SequencesExt

CONSTANTS File, Component, Number, Name,
          Net,           \* the visible net pieces of all schematics
          Input,         \* what the netlister may be given
          RecursionLimit, \* of the Python interpreter, in levels of sheets
          None, Malformed

PinType == [pinnumber: Number \cup {None}, pinseq: Int \cup {None, Malformed}, net: Net]
SlotdefType == [slot: Int \cup {None}, numbers: Seq(Number)]
NetAttribType == [name: Name \cup {None}, numbers: Seq(Number), inherited: BOOLEAN]

InputType ==
  [toplevel: Seq(File),
   unreadable: SUBSET File,
   missing: SUBSET File,                   \* not found in the source library
   file: [Component -> File],
   source: [Component -> Seq(File)],
   graphical: SUBSET Component,
   refdes: [Component -> Name \cup {None}],
   netname: [Component -> Name \cup {None}],
   portname: [Component -> Name \cup {None}],
   pins: [Component -> Seq(PinType)],
   slot: [Component -> Int \cup {None, Malformed}],
   slotdef: [Component -> Seq(SlotdefType)], \* no slot: there is no colon
   net: [Component -> Seq(NetAttribType)]]   \* no name: there is no colon

ASSUME SchematicsAssumption ==
  /\ Component \subseteq Nat /\ RecursionLimit \in Nat
  /\ None \notin Component /\ None \notin Number /\ None \notin Name
  /\ Input \subseteq InputType

VARIABLES
  input,
  pc,
  loading,           \* the calls of load_schematic(): references which are left
  schematics,        \* the files loaded, in their order
  composite_sources, \* per component
  pins,              \* per component, Component.pins
  pins_by_number,    \* per component
  names,             \* per net, Net.names_from_net_attribute
  failed,            \* Netlist.failed
  traversal,         \* sheets which have yet to be made, with their files
  sheets             \* Netlist.sheets

vars == <<input, pc, loading, schematics, composite_sources, pins, pins_by_number, names, failed,
          traversal, sheets>>

Components(f) == SetToSortSeq({c \in Component : input.file[c] = f}, <)
Loaded == {c \in Component : input.file[c] \in ToSet(schematics)}
IsPower(c) == input.netname[c] # None
IsPort(c) == input.portname[c] # None

(* The references to other schematics in a schematic, in order.            *)
References(f) ==
  FlattenSeq([i \in DOMAIN Components(f) |->
    LET c == Components(f)[i]
    IN [k \in DOMAIN input.source[c] |-> [component |-> c, file |-> input.source[c][k]]]])

(* The sheets of the schematics on the command line.                      *)
Toplevel == [i \in DOMAIN input.toplevel |-> [path |-> <<<<None, i>>>>, file |-> input.toplevel[i]]]

Init ==
  /\ input \in Input
  /\ pc = "load"
  /\ loading = <<[i \in DOMAIN input.toplevel |->
                    [component |-> None, file |-> input.toplevel[i]]]>>
  /\ schematics = <<>>
  /\ composite_sources = [c \in Component |-> <<>>]
  /\ pins = [c \in Component |-> <<>>]
  /\ pins_by_number = [c \in Component |-> <<>>]
  /\ names = [n \in Net |-> {}]
  /\ failed = FALSE
  /\ traversal = Toplevel /\ sheets = <<>>

blueprints == <<pins, pins_by_number, names>>
instances == <<traversal, sheets>>

Reference == Head(Head(loading))

(* Mutant of Rest: the loop doesn't go on.                                 *)
RestSame == loading

(* The references which are left after this one.                           *)
Rest == <<Tail(Head(loading))>> \o Tail(loading)

(* Mutant of IsKnown: schematics are remembered when they are complete.    *)
IsKnownLate(f) ==
  /\ f \in ToSet(schematics)
  /\ \A i \in 2..Len(loading) : Head(loading[i]).file # f

IsKnown(f) == f \in ToSet(schematics)

(* The file isn't found in the source library.                             *)
SkipReference ==
  /\ pc = "load" /\ loading # <<>> /\ Head(loading) # <<>>
  /\ Reference.component # None /\ Reference.file \in input.missing
  /\ loading' = Rest
  /\ failed' = TRUE
  /\ UNCHANGED <<input, pc, schematics, composite_sources, blueprints, instances>>

Found == Reference.component = None \/ Reference.file \notin input.missing

(* load_schematic: the file is read, and the files it refers to are next.  *)
Load ==
  /\ pc = "load" /\ loading # <<>> /\ Head(loading) # <<>> /\ Found
  /\ ~IsKnown(Reference.file) /\ Reference.file \notin input.unreadable
  /\ schematics' = Append(schematics, Reference.file)
  /\ pins' = [c \in Component |->
                IF input.file[c] # Reference.file THEN pins[c]
                ELSE [k \in DOMAIN input.pins[c] |->
                        [number |-> None, net |-> input.pins[c][k].net,
                         has_netattrib |-> FALSE]]]
  /\ loading' = <<References(Reference.file)>> \o loading
  /\ UNCHANGED <<input, pc, composite_sources, pins_by_number, names, failed, instances>>

(* The program exits.                                                      *)
LoadFails ==
  /\ pc = "load" /\ loading # <<>> /\ Head(loading) # <<>> /\ Found
  /\ ~IsKnown(Reference.file) /\ Reference.file \in input.unreadable
  /\ pc' = "exited"
  /\ UNCHANGED <<input, loading, schematics, composite_sources, blueprints, failed, instances>>

(* A file which has been loaded is noted as a source of the component.     *)
Refer ==
  /\ pc = "load" /\ loading # <<>> /\ Head(loading) # <<>> /\ Found /\ IsKnown(Reference.file)
  /\ loading' = Rest
  /\ composite_sources' =
       IF Reference.component = None THEN composite_sources
       ELSE [composite_sources EXCEPT ![Reference.component] = Append(@, Reference.file)]
  /\ UNCHANGED <<input, pc, schematics, blueprints, failed, instances>>

Return ==
  /\ pc = "load" /\ loading # <<>> /\ Head(loading) = <<>>
  /\ loading' = Tail(loading)
  /\ pc' = IF Len(loading) = 1 THEN "power" ELSE pc
  /\ UNCHANGED <<input, schematics, composite_sources, blueprints, failed, instances>>

-----------------------------------------------------------------------------
(* A pass over all components, in which errors may be found.               *)
Pass(name, next, errors) ==
  /\ pc = name /\ pc' = next
  /\ failed' = (failed \/ errors)
  /\ UNCHANGED <<input, loading, schematics, instances>>

PowerError(c) ==
  /\ IsPower(c)
  /\ input.refdes[c] # None \/ input.net[c] # <<>> \/ Len(pins[c]) # 1

(* The name of a power symbol is given to the nets of its pins.            *)
Power ==
  /\ Pass("power", "ports", \E c \in Loaded : PowerError(c))
  /\ names' = [n \in Net |-> names[n] \cup
       {input.netname[c] : c \in {c \in Loaded : IsPower(c) /\ \E p \in ToSet(pins[c]) : p.net = n}}]
  /\ UNCHANGED <<composite_sources, pins, pins_by_number>>

PortError(c) ==
  /\ IsPort(c)
  /\ input.refdes[c] # None \/ input.net[c] # <<>> \/ Len(pins[c]) # 1

Ports ==
  /\ Pass("ports", "slotting", \E c \in Loaded : PortError(c))
  /\ UNCHANGED <<composite_sources, blueprints>>

SlotOf(c) ==
  CASE input.slot[c] = None -> 1
    [] input.slot[c] = Malformed -> 0
    [] OTHER -> input.slot[c]

(* get_slotdef: the first definition which is for this slot is used; one   *)
(* which isn't for any slot is an error and ends the search.               *)
Definitions(c) == {i \in DOMAIN input.slotdef[c] : input.slotdef[c][i].slot \in {None, SlotOf(c)}}

Slotdef(c) ==
  IF Definitions(c) = {} THEN <<>>
  ELSE LET definition == input.slotdef[c][Min(Definitions(c))]
       IN IF definition.slot = None THEN <<>> ELSE definition.numbers

SlotdefError(c) ==
  \/ input.slot[c] = Malformed
  \/ Definitions(c) # {} /\ Slotdef(c) = <<>>
  \/ Definitions(c) = {} /\ input.slot[c] # None

(* pins_by_pinseq, of which the first pin with a number has it.            *)
WithPinseq(c, i) == {k \in DOMAIN input.pins[c] : input.pins[c][k].pinseq = i}

PinseqError(c) ==
  \/ WithPinseq(c, Malformed) # {}
  \/ \E i \in DOMAIN Slotdef(c) : Cardinality(WithPinseq(c, i)) # 1

NumberOf(c, k) ==
  LET i == input.pins[c][k].pinseq
  IN IF i \in DOMAIN Slotdef(c) /\ k = Min(WithPinseq(c, i))
     THEN Slotdef(c)[i] ELSE input.pins[c][k].pinnumber

(* Mutant of ByNumber: the dictionary is made before the slots are known.  *)
ByNumberEarly(c) ==
  LET number(k) == input.pins[c][k].pinnumber
  IN [n \in {number(k) : k \in DOMAIN input.pins[c]} \ {None} |->
        Min({k \in DOMAIN input.pins[c] : number(k) = n})]

ByNumber(c) ==
  [n \in {NumberOf(c, k) : k \in DOMAIN input.pins[c]} \ {None} |->
     Min({k \in DOMAIN input.pins[c] : NumberOf(c, k) = n})]

NumberError(c) ==
  \/ ~IsPower(c) /\ ~IsPort(c) /\ \E k \in DOMAIN input.pins[c] : NumberOf(c, k) = None
  \/ /\ composite_sources[c] = <<>>
     /\ \E j, k \in DOMAIN input.pins[c] :
          j # k /\ NumberOf(c, j) = NumberOf(c, k) /\ NumberOf(c, k) # None

Slotting ==
  /\ Pass("slotting", "netattrib",
          \E c \in Loaded : SlotdefError(c) \/ PinseqError(c) \/ NumberError(c))
  /\ pins' = [c \in Component |-> [k \in DOMAIN pins[c] |->
                                     [pins[c][k] EXCEPT !.number = NumberOf(c, k)]]]
  /\ pins_by_number' = [c \in Component |-> IF c \in Loaded THEN ByNumber(c) ELSE <<>>]
  /\ UNCHANGED <<composite_sources, names>>

(* What the net= attributes say, those of the symbol first.                *)
Assignments(c) ==
  LET of(inherited) ==
        SelectSeq(input.net[c], LAMBDA a : a.name # None /\ a.inherited = inherited)
      all == of(TRUE) \o of(FALSE)
  IN FlattenSeq([i \in DOMAIN all |-> [j \in DOMAIN all[i].numbers |->
       [number |-> all[i].numbers[j], name |-> all[i].name, inherited |-> all[i].inherited]]])

Assigned(c) == {a.number : a \in ToSet(Assignments(c))}

(* Pins which don't exist are made, in the order they are mentioned.       *)
Artificial(c) ==
  FoldLeft(LAMBDA s, a : IF a.number \in DOMAIN pins_by_number[c] \cup ToSet(s)
                         THEN s ELSE Append(s, a.number),
           <<>>, Assignments(c))

(* The names for a pin; those inside the symbol only count if there are    *)
(* none outside.                                                           *)
NamesFor(c, n) ==
  LET attached == \E a \in ToSet(Assignments(c)) : a.number = n /\ ~a.inherited
  IN SelectSeq(Assignments(c), LAMBDA a : a.number = n /\ (attached => ~a.inherited))

NetAttribError(c) ==
  \/ \E a \in ToSet(input.net[c]) : a.name = None
  \/ \E n \in Assigned(c) : Len(NamesFor(c, n)) > 1

ArtificialNet(c, n) == <<c, n>>

(* Artificial pins are on nets of their own.                               *)
NetAttrib ==
  /\ Pass("netattrib", "graphical", \E c \in Loaded : NetAttribError(c))
  /\ LET made(c) == [i \in DOMAIN Artificial(c) |->
                       [number |-> Artificial(c)[i], net |-> ArtificialNet(c, Artificial(c)[i]),
                        has_netattrib |-> TRUE]]
         marked(c) == {pins_by_number[c][n] : n \in Assigned(c) \cap DOMAIN pins_by_number[c]}
         new == UNION {{ArtificialNet(c, n) : n \in ToSet(Artificial(c))} : c \in Loaded}
     IN /\ pins' = [c \in Component |->
                      [k \in DOMAIN pins[c] |->
                         [pins[c][k] EXCEPT !.has_netattrib = k \in marked(c)]] \o made(c)]
        /\ pins_by_number' = [c \in Component |->
             [n \in DOMAIN pins_by_number[c] \cup ToSet(Artificial(c)) |->
                IF n \in DOMAIN pins_by_number[c] THEN pins_by_number[c][n]
                ELSE Len(pins[c]) + CHOOSE i \in DOMAIN Artificial(c) : Artificial(c)[i] = n]]
        /\ names' = [net \in Net \cup new |->
             (IF net \in Net THEN names[net] ELSE {})
               \cup UNION {{a.name : a \in ToSet(NamesFor(c, n))} :
                      <<c, n>> \in {<<d, m>> \in Loaded \X Number :
                         m \in Assigned(d) /\ pins'[d][pins_by_number'[d][m]].net = net}}]
  /\ UNCHANGED composite_sources

(* graphical= with other values than 1 is left out.  The next pass looks   *)
(* for components without a refdes.                                        *)
RefdesError(c) ==
  /\ input.refdes[c] = None /\ c \notin input.graphical /\ ~IsPower(c) /\ ~IsPort(c)
  /\ \A p \in ToSet(pins[c]) : ~p.has_netattrib

Graphical ==
  /\ Pass("graphical", "conflicts", \E c \in Loaded : RefdesError(c))
  /\ UNCHANGED <<composite_sources, blueprints>>

(* Graphical components, power symbols and ports aren't traversed.         *)
Traversable(c) == c \notin input.graphical /\ ~IsPower(c) /\ ~IsPort(c)

ConflictError(c) ==
  \/ IsPower(c) /\ IsPort(c)
  \/ (IsPower(c) \/ IsPort(c)) /\ (c \in input.graphical \/ composite_sources[c] # <<>>)

Conflicts ==
  /\ Pass("conflicts", "traverse", \E c \in Loaded : ConflictError(c))
  /\ composite_sources' =
       [c \in Component |-> IF Traversable(c) THEN composite_sources[c] ELSE <<>>]
  /\ UNCHANGED blueprints

-----------------------------------------------------------------------------
(* The sheets right below another one, in their order.                     *)
Subsheets(sheet) ==
  FlattenSeq([i \in DOMAIN Components(sheet.file) |->
    LET c == Components(sheet.file)[i]
    IN [k \in DOMAIN composite_sources[c] |->
          [path |-> Append(sheet.path, <<c, k>>), file |-> composite_sources[c][k]]]])

(* Sheet.__init__, and the call of s_traverse_sheet1 for the sheet.        *)
Instantiate ==
  /\ pc = "traverse" /\ traversal # <<>> /\ Len(Head(traversal).path) <= RecursionLimit
  /\ sheets' = Append(sheets, Head(traversal))
  /\ traversal' = Subsheets(Head(traversal)) \o Tail(traversal)
  /\ UNCHANGED <<input, pc, loading, schematics, composite_sources, blueprints, failed>>

RecursionError ==
  /\ pc = "traverse" /\ traversal # <<>> /\ Len(Head(traversal).path) > RecursionLimit
  /\ pc' = "crashed"
  /\ UNCHANGED <<input, loading, schematics, composite_sources, blueprints, failed, instances>>

Finish ==
  /\ pc = "traverse" /\ traversal = <<>>
  /\ pc' = "done"
  /\ UNCHANGED <<input, loading, schematics, composite_sources, blueprints, failed, instances>>

Next ==
  \/ SkipReference \/ Load \/ LoadFails \/ Refer \/ Return
  \/ Power \/ Ports \/ Slotting \/ NetAttrib \/ Graphical \/ Conflicts
  \/ Instantiate \/ RecursionError \/ Finish

Spec == Init /\ [][Next]_vars /\ WF_vars(Next)

-----------------------------------------------------------------------------
(* The files a schematic refers to, and those of which it makes sheets.    *)
RefersTo(f) ==
  {g \in File \ input.missing :
     \E c \in Component : input.file[c] = f /\ g \in ToSet(input.source[c])}
Uses(f) ==
  {g \in RefersTo(f) :
     \E c \in Component : input.file[c] = f /\ Traversable(c) /\ g \in ToSet(input.source[c])}

ClosedUnderReferences(S) == \A f \in S : RefersTo(f) \subseteq S
ContainsItself(f) ==
  \E S \in SUBSET File \ {{}} : f \in S /\ \A g \in S : Uses(g) \cap S # {}

(* Each schematic which is referred to is loaded, and just once, even if   *)
(* schematics refer to each other in circles.  Each one in use has a sheet *)
(* for each path which leads to it, and there are no others; there is only *)
(* no end to that if a schematic contains itself.                          *)
SheetsUnfold ==
  LET files == ToSet(schematics)
      all == ToSet(sheets)
  IN /\ IsInjective(schematics)
     /\ pc = "power" =>
          /\ ToSet(input.toplevel) \subseteq files /\ ClosedUnderReferences(files)
          /\ \A S \in SUBSET files :
               ToSet(input.toplevel) \subseteq S /\ ClosedUnderReferences(S) => S = files
     /\ pc = "done" =>
          /\ IsInjective(sheets) /\ ToSet(Toplevel) \subseteq all
          /\ \A s \in all \ ToSet(Toplevel) : \E t \in all : s \in ToSet(Subsheets(t))
          /\ \A s \in all : {t.file : t \in {t \in all : Front(t.path) = s.path}} = Uses(s.file)
          /\ \A s \in all, c \in Component : input.file[c] = s.file /\ Traversable(c) =>
               Cardinality({t \in all : \E k \in DOMAIN input.source[c] : t.path = Append(s.path, <<c, k>>)})
                 = Len(SelectSeq(input.source[c], LAMBDA f : f \notin input.missing))
     /\ pc = "crashed" => \E f \in files : ContainsItself(f)

(* If there are no errors: the pins of a component which isn't composite   *)
(* have different numbers and are found by them; those in the definition   *)
(* of its slot are the pins with the numbers of their places; and each pin *)
(* in a net= attribute is there and on a net with this name, unless the    *)
(* component itself says otherwise about the pin.  A net has no other      *)
(* names than those of components with pins on it.                         *)
PinsNumbered ==
  pc = "done" /\ ~failed =>
    /\ \A c \in Loaded :
         /\ ~Traversable(c) \/ composite_sources[c] # <<>> \/
              \A j, k \in DOMAIN pins[c] :
                pins[c][j].number = pins[c][k].number => j = k
         /\ \A n \in DOMAIN pins_by_number[c] : pins[c][pins_by_number[c][n]].number = n
         /\ \A k \in DOMAIN pins[c] :
              pins[c][k].number \in DOMAIN pins_by_number[c] \/ ~Traversable(c)
         /\ \A d \in ToSet(input.slotdef[c]) :
              d.slot = SlotOf(c) /\ Cardinality(Definitions(c)) = 1 =>
                \A i \in DOMAIN d.numbers : \E k \in DOMAIN input.pins[c] :
                  input.pins[c][k].pinseq = i /\ pins[c][k].number = d.numbers[i]
         /\ \A a \in ToSet(input.net[c]) : \A n \in ToSet(a.numbers) :
              \/ a.inherited /\ \E b \in ToSet(input.net[c]) : ~b.inherited /\ n \in ToSet(b.numbers)
              \/ a.name \in names[pins[c][pins_by_number[c][n]].net]
    /\ \A net \in DOMAIN names : \A name \in names[net] :
         \E c \in Loaded : \E k \in DOMAIN pins[c] :
           /\ pins[c][k].net = net
           /\ \/ input.netname[c] = name
              \/ \E a \in ToSet(input.net[c]) :
                   a.name = name /\ pins[c][k].number \in ToSet(a.numbers)

(* Loading ends although schematics may refer to each other in circles,    *)
(* and so does everything else, if only at the recursion limit.            *)
Ends == <>(pc \in {"done", "exited", "crashed"})
=============================================================================
