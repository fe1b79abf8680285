------------------------------ MODULE ObjectData ------------------------------
(* The data of schematic objects in the storage library: which type of object *)
(* has which attributes (attributes.cc), which values are valid (validate.cc) *)
(* and how a valid value is stored (obstate.cc).                              *)
(*                                                                            *)
(* An object is a function from the names of its simple attributes to their   *)
(* values.  Flags are 0 and 1; coordinates and widths are whole numbers, but  *)
(* for NotFinite, which stands for NaN, the infinities and the subnormals.    *)
EXTENDS Integers, FiniteSets, Functions, TLC

CONSTANT NotFinite   \* a number which is no coordinate
CONSTANT None        \* a missing value

ASSUME NotFiniteAssumption == NotFinite \in Int \ (-1000 .. 1000)

Type == {"arc", "box", "circle", "component", "line", "net", "path",
         "picture", "text"}

WithLine == {"arc", "box", "circle", "line", "path"}
WithFill == {"box", "circle", "path"}
Placed   == Type \ {"path"}
Sized    == {"box", "line", "net", "picture"}

\* The types of object each attribute is defined for, in the order of the code.
HaveFill ==
  [a \in {"fill", "fill_angle0", "fill_angle1", "fill_pitch0", "fill_pitch1",
          "fill_type", "fill_width"} |-> WithFill]
  @@ [alignment |-> {"text"}, angle |-> {"component", "picture", "text"},
      color |-> Type \ {"component", "picture"}]

HaveLine ==
  [a \in {"line", "line_cap_style", "line_dash_length", "line_dash_space",
          "line_dash_style", "line_width"} |-> WithLine]
  @@ [a \in {"is_bus", "is_inverted", "is_pin"} |-> {"net"}]

HavePlace ==
  [a \in {"pos", "pos_x", "pos_y"} |-> Placed]
  @@ [a \in {"size", "size_x", "size_y"} |-> Sized]
  @@ [mirror |-> {"component", "picture"}, pathdata |-> {"path"}]

HaveRest ==
  [a \in {"show_name_value", "text", "text_size", "visibility"} |-> {"text"}]
  @@ [a \in {"startangle", "sweepangle"} |-> {"arc"}]
  @@ [radius |-> {"arc", "circle"}, selectable |-> {"component"}]

HaveIn == HaveFill @@ HaveLine @@ HavePlace @@ HaveRest

\* Attributes made of others are set and compared as one.
Parts(a) ==
  CASE a = "pos"  -> {"pos_x", "pos_y"}
    [] a = "size" -> {"size_x", "size_y"}
    [] a = "line" -> {"line_cap_style", "line_dash_length", "line_dash_space",
                      "line_dash_style", "line_width"}
    [] a = "fill" -> {"fill_angle0", "fill_angle1", "fill_pitch0",
                      "fill_pitch1", "fill_type", "fill_width"}
    [] OTHER -> {a}

Simple == {a \in DOMAIN HaveIn : Parts(a) = {a}}

\* The pointers to symbols and pixmaps are no attributes of attributes.cc.
Fields(type) ==
  {a \in Simple : type \in HaveIn[a]} \cup
  CASE type = "component" -> {"type", "symbol"}
    [] type = "picture"   -> {"type", "pixmap"}
    [] OTHER              -> {"type"}

-----------------------------------------------------------------------------
(* validate.cc *)

double_is_valid(x) == x # NotFinite
double_is_valid_nonnegative(x) == double_is_valid(x) /\ x >= 0
angle_is_valid(x) == x \in {0, 90, 180, 270}

line_is_valid(o) ==
  /\ \A f \in {"line_width", "line_dash_length", "line_dash_space"} :
       double_is_valid_nonnegative(o[f])
  /\ o.line_cap_style \in 0 .. 2
  /\ o.line_dash_style \in 0 .. 4

fill_is_valid(o) ==
  /\ \A f \in {"fill_width", "fill_pitch0", "fill_pitch1"} :
       double_is_valid_nonnegative(o[f])
  /\ o.fill_type \in 0 .. 4

data_is_valid(o) ==
  LET Has(f) == f \in DOMAIN o
  IN /\ \A f \in {"pos_x", "pos_y", "size_x", "size_y"} \cap DOMAIN o :
          double_is_valid(o[f])
     /\ Has("radius") => double_is_valid_nonnegative(o.radius)
     /\ Has("color") => o.color \in 0 .. 20
     /\ o.type \in WithLine => line_is_valid(o)
     /\ o.type \in WithFill => fill_is_valid(o)
     /\ Has("angle") => angle_is_valid(o.angle)
     /\ o.type = "net" => o.is_pin = 1 \/ o.is_inverted = 0
     /\ o.type = "text" => /\ o.text_size >= 0
                           /\ o.show_name_value \in 0 .. 2
                           /\ o.alignment \in 0 .. 8

-----------------------------------------------------------------------------
(* obstate.cc *)

ZeroIn(o, fields) == [f \in DOMAIN o |-> IF f \in fields THEN 0 ELSE o[f]]

normalize_line_attr(o) ==
  ZeroIn(o, (IF o.line_dash_style \in {0, 1} THEN {"line_dash_length"} ELSE {})
       \cup (IF o.line_dash_style = 0 THEN {"line_dash_space"} ELSE {}))

normalize_fill_attr(o) ==
  ZeroIn(o, (IF o.fill_type \notin {2, 3}
             THEN {"fill_width", "fill_angle0", "fill_pitch0"} ELSE {})
       \cup (IF o.fill_type # 2 THEN {"fill_angle1", "fill_pitch1"} ELSE {}))

\* What the constructor of obstate keeps of the data.
obstate(o) ==
  LET lined == IF o.type \in WithLine THEN normalize_line_attr(o) ELSE o
  IN IF o.type \in WithFill THEN normalize_fill_attr(lined) ELSE lined

-----------------------------------------------------------------------------
(* attributes.cc: the functions for one attribute and the objects `objs' of a *)
(* selection which exist in the revision.                                     *)

Get(o, a) == Restrict(o, Parts(a))

\* Mutant of get_attr: the first value found isn't kept.
get_attr_cleared(objs, a) ==
  LET values == {Get(o, a) : o \in {o \in objs : o.type \in HaveIn[a]}}
  IN CASE values = {} -> <<"na">>
       [] Cardinality(values) = 1 -> <<"consistent", [f \in Parts(a) |-> 0]>>
       [] OTHER -> <<"inconsistent">>

\* <<"na">>, <<"inconsistent">>, or <<"consistent", value>>.
get_attr(objs, a) ==
  LET values == {Get(o, a) : o \in {o \in objs : o.type \in HaveIn[a]}}
  IN CASE values = {} -> <<"na">>
       [] Cardinality(values) = 1 -> <<"consistent", CHOOSE v \in values : TRUE>>
       [] OTHER -> <<"inconsistent">>

\* Mutant of set_attr: the value is stored without being checked.
set_attr_unchecked(o, a, value) ==
  IF o.type \in HaveIn[a] THEN obstate(value @@ o) ELSE o

\* An object which hasn't got the attribute, or for which the value isn't
\* valid, is skipped, and the function succeeds.
set_attr(o, a, value) ==
  IF o.type \in HaveIn[a] /\ data_is_valid(value @@ o) THEN obstate(value @@ o)
                                                       ELSE o

select_by_attr(rev, a, value) ==
  {ob \in DOMAIN rev : rev[ob].type \in HaveIn[a] /\ Get(rev[ob], a) = value}

-----------------------------------------------------------------------------

\* A value kept in an object state is one the code accepts, and two which mean
\* the same are equal: what a dash style or fill type doesn't use is zero, as
\* xorn_get_modified_objects and the comparison by memcmp rely on.
Stored(o) == data_is_valid(o) /\ obstate(o) = o
=============================================================================
