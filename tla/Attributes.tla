------------------------------ MODULE Attributes ------------------------------
(***************************************************************************)
(* src/gaf/attrib.py, and how attributes are looked up in a netlist        *)
(* (src/gaf/netlist/blueprint.py, package.py and net.py): the values       *)
(* attached to a component hide those in its symbol, components of a       *)
(* package should agree on a value, and $(name) stands for a parameter of  *)
(* the component which instantiates the sheet.                             *)
(*                                                                         *)
(* A text is a pair of a name and a value, or else no attribute.  What the *)
(* texts are doesn't influence how the hierarchy is resolved and packages  *)
(* are formed, so they are chosen once this has been done.  Errors are     *)
(* found when a value is asked for; each lookup comes with an operator     *)
(* which tells whether it reports one.  Warnings are left out.             *)
(***************************************************************************)
EXTENDS Packages

CONSTANTS NoAttribute,  \* a text which isn't a valid attribute string
          Texts(_),     \* the texts there may be in the schematics, per netlist
          Reference,    \* per value which refers to a parameter, its name
          Placeholder   \* the parts of names which end with "?"

Text(value) == [name: STRING, value: value] \cup {NoAttribute}
Parameter == Text(STRING)

TextsType ==
  [attached: [Component -> Seq(Text(STRING))],
   inherited: [Component -> Seq(Text(STRING))], \* floating in the symbol
   params: [Component -> [attached: Seq(Parameter), inherited: Seq(Parameter)]],
   pin: [Pin -> Seq(Text(STRING))],
   artificial: SUBSET Pin]                      \* made for net= attributes

ASSUME AttributesAssumption ==
  /\ \A i \in Input : Texts(i) \subseteq TextsType
  /\ Placeholder \subseteq STRING

VARIABLES
  texts,
  parameters    \* per component, Component.parameters

avars == <<pvars, texts, parameters>>

is_attribute(text) == text # NoAttribute

search(attribs, name) ==
  LET found == SelectSeq(attribs, LAMBDA text : is_attribute(text) /\ text.name = name)
  IN [k \in DOMAIN found |-> found[k].value]

(* Mutant of ComponentValues: symbols are always searched.                 *)
ComponentValuesAll(c, name) ==
  search(texts.attached[c], name) \o search(texts.inherited[c], name)

(* Component.get_attributes: the attached values hide the inherited ones.  *)
ComponentValues(c, name) ==
  LET attached == search(texts.attached[c], name)
  IN IF attached # <<>> THEN attached ELSE search(texts.inherited[c], name)

Inconsistent(values) == Cardinality(ToSet(values)) > 1

(* Component.get_attribute; "unknown" un-sets an attribute of the symbol.  *)
ComponentValue(c, name) ==
  LET values == ComponentValues(c, name)
  IN IF values = <<>> \/ Inconsistent(values) \/ values[1] = "unknown" THEN None ELSE values[1]

ComponentFails(c, name) == Inconsistent(ComponentValues(c, name))

(* Component.get_attribute_names: later texts override earlier ones.       *)
ComponentNames(c, search_inherited) ==
  LET attribs == (IF search_inherited THEN SelectSeq(texts.inherited[c], is_attribute) ELSE <<>>)
                   \o texts.attached[c]
      Step(names, text) ==
        IF text.value # "unknown" THEN names \cup {text.name} ELSE names \ {text.name}
  IN FoldLeft(Step, {}, attribs)

(* The exception it means to catch has another name.                       *)
NamesCrash(c) == \E k \in DOMAIN texts.attached[c] : ~is_attribute(texts.attached[c][k])

(* Pin.get_attribute                                                       *)
PinValue(p, name) ==
  LET values == search(texts.pin[p], name)
  IN CASE p \in texts.artificial -> IF name = "pintype" THEN "pwr" ELSE None
       [] OTHER -> IF values = <<>> \/ Inconsistent(values) THEN None ELSE values[1]

PinFails(p, name) == p \notin texts.artificial /\ Inconsistent(search(texts.pin[p], name))

(* The valid param= attributes; the first one of each name counts.         *)
Defined(params) ==
  [name \in {params[k].name : k \in {j \in DOMAIN params : is_attribute(params[j])}} |->
     Head(search(params, name))]

Parameters(params) ==
  LET attached == Defined(params.attached)
      inherited == Defined(params.inherited)
  IN [name \in DOMAIN attached \cup DOMAIN inherited |->
        IF name \in DOMAIN attached THEN attached[name] ELSE inherited[name]]

ParameterErrors(list) ==
  \E k \in DOMAIN list : \/ ~is_attribute(list[k])
                         \/ Len(search(list, list[k].name)) > 1

(* What the constructors of Schematic and Netlist find out about texts.    *)
ReadAttributes ==
  /\ pc = "finished"
  /\ texts' \in Texts(input)
  /\ parameters' = [c \in Component |-> Parameters(texts'.params[c])]
  /\ failed' = \/ failed
               \/ \E c \in Component : \/ input.refdes[c] # None /\ Last(input.refdes[c]) \in Placeholder
                                       \/ ParameterErrors(texts'.params[c].attached)
                                       \/ ParameterErrors(texts'.params[c].inherited)
  /\ pc' = "read"
  /\ UNCHANGED <<input, lists, netlist, graphical_component_pins, todo, loop, pins, ports,
                 remove_components, given, packaging>>

(* Values of parameters which contain references again aren't considered.  *)
Substituted(c, value) ==
  LET instantiating == input.parent[input.sheet[c]]
      known == IF instantiating = None THEN {} ELSE DOMAIN parameters[instantiating]
  IN IF value \in DOMAIN Reference /\ Reference[value] \in known
     THEN parameters[instantiating][Reference[value]]
     ELSE value

(* Package.components                                                      *)
ComponentsOf(k) == InOrder({c \in WithRefdes(components) : PackageOf(c) = k})

(* Package.get_all_attributes                                              *)
AllValues(k, name) ==
  LET list == ComponentsOf(k)
  IN [i \in DOMAIN list |-> Substituted(list[i], ComponentValue(list[i], name))]

(* Package.get_attribute                                                   *)
PackageValue(k, name, default) ==
  LET values == ToSet(AllValues(k, name)) \ {None}
  IN IF Cardinality(values) = 1 THEN CHOOSE value \in values : TRUE ELSE default

ComponentsFail(k, name) == \E c \in ToSet(ComponentsOf(k)) : ComponentFails(c, name)

PackageFails(k, name) ==
  \/ ComponentsFail(k, name)
  \/ Cardinality(ToSet(AllValues(k, name)) \ {None}) > 1

(* PackagePin.get_attribute; k[2] is the pin's number.                     *)
PpinValue(k, name, default) ==
  LET values == {PinValue(p, name) : p \in cpins_of[k]} \ {None}
  IN CASE name = "pinnumber" -> IF cpins_of[k] \subseteq texts.artificial THEN default ELSE k[2]
       [] OTHER -> IF Cardinality(values) = 1 THEN CHOOSE value \in values : TRUE ELSE default

PpinFails(k, name) ==
  name # "pinnumber" /\ (\/ \E p \in cpins_of[k] : PinFails(p, name)
                         \/ Cardinality({PinValue(p, name) : p \in cpins_of[k]} \ {None}) > 1)

(* Net.graphical_objs_with_attrib_get_attrib                               *)
GraphicalComponents(n) == {input.component[p] : p \in graphical_component_pins[n]}

GraphicalValues(n, name, value, wanted) ==
  {ComponentValue(c, wanted) : c \in {d \in GraphicalComponents(n) : ComponentValue(d, name) = value}}
    \ {None}

GraphicalFails(n, name, value, wanted) ==
  \E c \in GraphicalComponents(n) :
    ComponentFails(c, name) \/ (ComponentValue(c, name) = value /\ ComponentFails(c, wanted))

AttributesInit == PackagesInit /\ texts = None /\ parameters = <<>>

AttributesNext ==
  \/ PackagesNext /\ UNCHANGED <<texts, parameters>>
  \/ ReadAttributes

-----------------------------------------------------------------------------
(* The values a component's texts give, whatever the code does: its own    *)
(* if it has any, or else its symbol's.                                    *)
GivenValues(c, name) ==
  LET among(list) == {text.value : text \in {t \in ToSet(list) : t # NoAttribute /\ t.name = name}}
  IN IF among(texts.attached[c]) # {} THEN among(texts.attached[c]) ELSE among(texts.inherited[c])

(* An error is reported exactly if a component's texts give different      *)
(* values.  Otherwise its value is the one they give, and it has one       *)
(* exactly if get_attribute_names() lists the name; and all components of  *)
(* a package which have a value give the one of the package, once          *)
(* references to parameters have been replaced.                            *)
LookupsAgree ==
  pc = "read" => \A name \in {"value", "device"} :
    /\ \A c \in Component : ComponentFails(c, name) <=> Cardinality(GivenValues(c, name)) > 1
    /\ \A c \in Component : ~ComponentFails(c, name) =>
         /\ ComponentValue(c, name) \in GivenValues(c, name) \cup {None}
         /\ ~NamesCrash(c) => (ComponentValue(c, name) # None <=> name \in ComponentNames(c, TRUE))
    /\ \A k \in packages : ~PackageFails(k, name) =>
         \A c \in ToSet(ComponentsOf(k)) : \A value \in GivenValues(c, name) \ {"unknown"} :
           Substituted(c, value) = PackageValue(k, name, None)
=============================================================================
