---------------------------- MODULE NetlistFormats ----------------------------
(***************************************************************************)
(* The back-ends in src/backend/ which print a netlist: which attributes   *)
(* of packages, and which pins under which name of a net, they write, as   *)
(* far as this doesn't depend on the layout of the file; util_alias.py,    *)
(* with which they adapt names to the format; and util_repackage.py.       *)
(*                                                                         *)
(* An attribute has the value None if nothing is printed in its place.  A  *)
(* back-end reports an error ("failed"), or ends with an exception         *)
(* ("crashed"), in which case what it has written doesn't matter.          *)
(***************************************************************************)
EXTENDS Attributes

CONSTANTS Upper, Dashed, \* the parts of names which str.upper() changes, and
                         \* str.replace("_", "-"), with what becomes of them
          Short          \* the names which are cut off after 8 characters

PackagePins(k) == {ppin \in DOMAIN cpins_of : ppin[1] = k}

In(translation, name) ==
  [i \in DOMAIN name |-> IF name[i] \in DOMAIN translation THEN translation[name[i]] ELSE name[i]]

NetNames == [n \in nets |-> NetName(n)]
UpperNetNames == [n \in nets |-> In(Upper, NetName(n))]
Refdeses == [k \in packages |-> PackageRefdes(k)]
UpperRefdeses == [k \in packages |-> In(Upper, PackageRefdes(k))]

(* Mutant of Collides: names may become the same unnoticed.                *)
CollidesNever(aliases) == FALSE

(* build_net_aliases and build_refdes_aliases; the latter means to report  *)
(* an error, too, but asks for an attribute which packages don't have.     *)
Collides(aliases) == \E x, y \in DOMAIN aliases : x # y /\ aliases[x] = aliases[y]

(* Pins under the names of their nets                                      *)
Connections(names, refdeses) ==
  UNION {{<<<<refdeses[ppin[1]], ppin[2]>>, names[n]>> : ppin \in connections[n]} : n \in nets}

AttributesOf(k, defaults) == [x \in DOMAIN defaults |-> PackageValue(k, x, defaults[x])]

Asked(names) == \E k \in packages, x \in names : PackageFails(k, x)

(* What most formats consist of                                            *)
NetsPrinted ==
  [parts |-> {}, names |-> {NetNames[n] : n \in nets},
   connected |-> Connections(NetNames, Refdeses), failed |-> FALSE, crashed |-> FALSE]

Netlist(defaults) ==
  [NetsPrinted EXCEPT
     !.parts = {[refdes |-> Refdeses[k], attributes |-> AttributesOf(k, defaults)] : k \in packages},
     !.failed = Asked(DOMAIN defaults)]

PCB == NetsPrinted
liquidpcb == NetsPrinted
redac == NetsPrinted
tango == Netlist([footprint |-> "PATTERN", device |-> "unknown", value |-> ""])
bae == Netlist([footprint |-> "unknown"])
maxascii == Netlist([footprint |-> "unknown"])
osmond == Netlist([footprint |-> "unknown"])
geda == Netlist([device |-> "unknown"])

calay ==
  LET aliases == [n \in nets |-> In(Dashed, NetName(n))]
  IN [NetsPrinted EXCEPT !.names = {aliases[n] : n \in nets},
                         !.connected = Connections(aliases, Refdeses), !.failed = Collides(aliases)]

(* The value of the first of some attributes which has one                 *)
FirstValue(k, names, default) ==
  LET values == [i \in DOMAIN names |-> PackageValue(k, names[i], None)]
      found == SelectSeq(values, LAMBDA value : value # None)
  IN IF found = <<>> THEN default ELSE found[1]

(* Those which precede it have been asked for, too.                        *)
FirstFails(k, names) ==
  \E i \in DOMAIN names : /\ PackageFails(k, names[i])
                          /\ \A j \in DOMAIN names : j < i => PackageValue(k, names[j], None) = None

protelII ==
  [Netlist([footprint |-> "unknown", value |-> None, device |-> "unknown"]) EXCEPT
     !.parts = {[refdes |-> Refdeses[k],
                 attributes |-> [footprint |-> PackageValue(k, "footprint", "unknown"),
                                 parttype |-> FirstValue(k, <<"value", "device">>, "unknown"),
                                 device |-> PackageValue(k, "device", "unknown")]] : k \in packages}]

(* The device files, which are written besides, aren't modelled.           *)
allegro ==
  [NetsPrinted EXCEPT
     !.parts = {[refdes |-> Refdeses[k],
                 attributes |-> [footprint |-> PackageValue(k, "footprint", None),
                                 device |-> PackageValue(k, "device", "unknown"),
                                 text |-> FirstValue(k, <<"value", "label", "device">>, "unknown")]] :
                  k \in packages},
     !.failed = Asked({"footprint", "device"})
                  \/ \E k \in packages : FirstFails(k, <<"value", "label", "device">>)]

(* A model is printed instead of device and value; the currents of all     *)
(* nets but GND add up to zero.                                            *)
mathematica ==
  [([equations |-> {{<<Refdeses[p[1]], p[2]>> : p \in connections[n]} :
                      n \in {m \in nets : NetName(m) # <<"GND">>}}] @@ NetsPrinted) EXCEPT
     !.parts = {[refdes |-> Refdeses[k],
                 attributes |->
                   IF PackageValue(k, "model", None) # None
                   THEN [model |-> PackageValue(k, "model", None)]
                   ELSE [device |-> PackageValue(k, "device", "unknown"),
                         value |-> PackageValue(k, "value", "refdes")]] : k \in packages},
     !.failed = \E k \in packages : \/ PackageFails(k, "model")
                                    \/ /\ PackageValue(k, "model", None) = None
                                       /\ PackageFails(k, "device") \/ PackageFails(k, "value")]

eagle ==
  [NetsPrinted EXCEPT
     !.parts = {[refdes |-> Refdeses[k],
                 attributes |-> [pattern |-> PackageValue(k, "pattern", None),
                                 footprint |-> PackageValue(k, "footprint", "unknown"),
                                 lib |-> PackageValue(k, "lib", "smd-ipc"),
                                 value |-> FirstValue(k, <<"value", "device">>, None)]] :
                  k \in packages},
     !.names = {UpperNetNames[n] : n \in nets},
     !.connected = Connections(UpperNetNames, Refdeses),
     !.failed = Collides(UpperNetNames) \/ Asked({"pattern", "lib", "footprint", "value", "device"})]

pads ==
  [NetsPrinted EXCEPT
     !.parts = {[refdes |-> UpperRefdeses[k],
                 attributes |-> AttributesOf(k, [pattern |-> None, footprint |-> "unknown"])] :
                  k \in packages},
     !.names = {UpperNetNames[n] : n \in nets},
     !.connected = Connections(UpperNetNames, UpperRefdeses),
     !.failed = Collides(UpperNetNames) \/ Asked({"pattern", "footprint"}),
     !.crashed = Collides(UpperRefdeses)]

(* The number and the label of each pin; either may be missing.            *)
PinNames(k, refdeses) ==
  {LET number == PpinValue(ppin, "pinnumber", "unknown")
   IN <<refdeses[k], number, PpinValue(ppin, "pinlabel", number)>> : ppin \in PackagePins(k)}

PinNamesFail == \E ppin \in DOMAIN cpins_of : PpinFails(ppin, "pinlabel")

(* Pins in the schematic which have no number, which has been reported.    *)
Unnumbered == {ppin \in DOMAIN cpins_of : PpinValue(ppin, "pinnumber", "unknown") = None}

pcbpins ==
  [NetsPrinted EXCEPT
     !.parts = {[refdes |-> Refdeses[k], pins |-> PinNames(k, Refdeses)] : k \in packages},
     !.names = {}, !.connected = {}, !.failed = PinNamesFail, !.crashed = Unnumbered # {}]

(* Nets without connections aren't mentioned.                              *)
pcbfwd ==
  LET defaults == [x \in {"footprint", "value", "device", "manufacturer", "manufacturer_part_number",
                          "vendor", "vendor_part_number"} |-> "unknown"]
  IN [Netlist(defaults) EXCEPT
        !.parts = {[refdes |-> Refdeses[k], attributes |-> AttributesOf(k, defaults),
                    pins |-> PinNames(k, Refdeses)] : k \in packages},
        !.names = {x[2] : x \in NetsPrinted.connected},
        !.failed = @ \/ PinNamesFail,
        !.crashed = \E ppin \in Unnumbered : PpinValue(ppin, "pinlabel", None) = None]

(* Packages about which there isn't anything to say aren't mentioned       *)
(* either.  Lines which are too long aren't considered.                    *)
tedax ==
  LET defaults == [x \in {"footprint", "value", "device", "footprints"} |-> None]
      pin_values(k, name) == {<<ppin[2], PpinValue(ppin, name, None)>> : ppin \in PackagePins(k)}
  IN [Netlist(defaults) EXCEPT
        !.parts = {[refdes |-> Refdeses[k], attributes |-> AttributesOf(k, defaults),
                    pins |-> [name \in {"pinlabel", "pinseq"} |->
                                {x \in pin_values(k, name) : x[2] # None}]] : k \in packages},
        !.names = {x[2] : x \in NetsPrinted.connected},
        !.failed = @ \/ \E ppin \in DOMAIN cpins_of : PpinFails(ppin, "pinlabel")
                                                      \/ PpinFails(ppin, "pinseq"),
        !.crashed = \E ppin \in DOMAIN cpins_of :
                      /\ ppin[2] = None
                      /\ \/ \E n \in nets : ppin \in connections[n]
                         \/ PpinValue(ppin, "pinlabel", None) # None
                         \/ PpinValue(ppin, "pinseq", None) # None]

(* Pins with the names of their nets, and how unconnected ones are marked  *)
PinsPrinted(names, refdeses) ==
  {<<<<refdeses[ppin[1]], PpinValue(ppin, "pinnumber", "unknown")>>,
     IF ppin_net[ppin] \in is_unconnected_pin THEN <<"#f">> ELSE names[ppin_net[ppin]]>> :
     ppin \in DOMAIN cpins_of}

futurenet2 ==
  LET map_net_names(n) ==
        LET name == IF n \in given.unnamed \ given.lonely THEN <<"NET">> \o given.name[n] ELSE NetName(n)
        IN In(Upper, IF name \in DOMAIN Short THEN Short[name] ELSE name)
      aliases == [n \in nets |-> map_net_names(n)]
  IN [NetsPrinted EXCEPT
        !.parts = {[refdes |-> UpperRefdeses[k],
                    attributes |-> [value |-> FirstValue(k, <<"value", "device">>, "unknown"),
                                    footprint |-> PackageValue(k, "footprint", "unknown")]] :
                     k \in packages},
        !.names = {aliases[n] : n \in nets},
        !.connected = PinsPrinted(aliases, UpperRefdeses),
        !.failed = \/ Collides(aliases) \/ Asked({"footprint"})
                   \/ \E k \in packages : FirstFails(k, <<"value", "device">>),
        !.crashed = Collides(UpperRefdeses) \/ Unnumbered # {}]

ewnet ==
  [NetsPrinted EXCEPT
     !.parts = {[refdes |-> Refdeses[k],
                 attributes |-> [footprint |-> PackageValue(k, "footprint", "unknown"),
                                 device |-> PackageValue(k, "device", "unknown"),
                                 value |-> FirstValue(k, <<"value", "device">>, "unknown")]] :
                  k \in packages},
     !.connected = PinsPrinted(NetNames, Refdeses),
     !.failed = Asked({"footprint", "device", "value"})]

(* gnet_spice_sdb: slots are packages of their own.  The rest of this      *)
(* back-end isn't modelled.                                                *)
AttachedSlots(c) == ToSet(search(texts.attached[c], "slot"))
HasSlot(c) == Cardinality(AttachedSlots(c)) = 1 /\ AttachedSlots(c) # {"unknown"}

get_refdes(c) ==
  IF HasSlot(c)
  THEN Front(input.refdes[c])
         \o <<Last(input.refdes[c]) \o "." \o (CHOOSE slot \in AttachedSlots(c) : TRUE)>>
  ELSE input.refdes[c]

blueprint_requires_refdes(c) ==
  c \notin input.graphical /\ ~IsPort(c) /\ Pins(c) \cap texts.artificial = {}

(* A warning isn't reported as it should be, neither is the second error.  *)
RepackageCrashes ==
  \/ \E c \in components \ WithRefdes(components) : HasSlot(c) \/ blueprint_requires_refdes(c)
  \/ \E c, d \in WithRefdes(components) :
       /\ <<PackageNamespace(c), get_refdes(c)>> # <<PackageNamespace(d), get_refdes(d)>>
       /\ Mangle(get_refdes(c), PackageNamespace(c)) = Mangle(get_refdes(d), PackageNamespace(d))

(* The pins of the new packages are those of their components; each one is *)
(* on the net of the first one of these, which should be the only one.     *)
repackage ==
  LET refdes(c) == Mangle(get_refdes(c), PackageNamespace(c))
      all == PackagedPins(UNION {Cpins(c) : c \in components})
      ppin(p) == <<refdes(input.component[p]), given.number[p]>>
      of == [k \in {ppin(p) : p \in all} |-> {p \in all : ppin(p) = k}]
  IN [parts |-> {[refdes |-> refdes(c)] : c \in WithRefdes(components)},
      names |-> {}, connected |-> {<<k, NetOf(Min(of[k]))>> : k \in DOMAIN of},
      failed |-> \/ \E c \in components : Cardinality(AttachedSlots(c)) > 1
                 \/ \E k \in DOMAIN of : \E p, q \in of[k] : NetOf(p) # NetOf(q),
      crashed |-> RepackageCrashes]

=============================================================================
