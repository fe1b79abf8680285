--------------------------- MODULE MCConnectionMap ---------------------------
(* Small instances of ConnectionMap.  Pins of different symbols differ in  *)
(* their geometry.                                                         *)
EXTENDS ConnectionMap

Line(x, y, width, height, is_bus) ==
  [x |-> x, y |-> y, width |-> width, height |-> height, is_pin |-> FALSE, is_bus |-> is_bus]

PinAt(x, y, is_bus) ==
  [x |-> x, y |-> y, width |-> 1, height |-> 0, is_pin |-> TRUE, is_bus |-> is_bus]

Place(x, y, angle, mirror, symbol) ==
  [x |-> x, y |-> y, angle |-> angle, mirror |-> mirror, symbol |-> symbol]

Resistor == {PinAt(0, 0, FALSE), PinAt(1, 0, FALSE)}
Connector == {PinAt(0, 1, FALSE), PinAt(0, 0, TRUE)}

(* Net segments and buses which meet, cross, end on one another, go        *)
(* backwards, and aren't orthogonal.                                       *)
Lines ==
  {Line(0, 0, 1, 0, FALSE), Line(2, 0, -2, 0, FALSE), Line(1, 0, 0, 1, FALSE),
   Line(0, 1, 2, 0, FALSE), Line(0, 0, 1, 1, FALSE), Line(1, 2, 0, -2, FALSE),
   Line(0, 0, 2, 0, TRUE), Line(1, 0, 0, 2, TRUE)}

Resistors == {{Place(1, 0, a, a = 90, Resistor)} : a \in {0, 90, 180, 270}}
Connectors == {{}, {Place(1, 0, 0, FALSE, Connector)}, {Place(2, 0, 90, TRUE, Connector)}}

(* Two resistors share the objects of their pins; on the second page some  *)
(* of these touch.                                                         *)
Pairs ==
  {{Place(0, 0, 0, FALSE, Resistor), Place(0, 1, 0, FALSE, Resistor)},
   {Place(0, 0, 0, FALSE, Resistor), Place(0, 0, 90, FALSE, Resistor)}}

(* Some of them aren't regular, as nets end in the middle of buses, too.   *)
MCSheets ==
  [nets: UNION {kSubset(k, Lines) : k \in 0..3},
   components: {r \cup c : r \in Resistors, c \in Connectors} \cup Pairs]
=============================================================================
