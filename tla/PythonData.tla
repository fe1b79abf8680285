------------------------------- MODULE PythonData -------------------------------
(* The data of objects as Python programs see it (cpython/storage/data_*.c    *)
(* and revision.c).  A Python object holds the struct which is handed to the  *)
(* storage library, and next to it references to Python objects for the line  *)
(* and fill style and for strings.  What the struct says of these is out of   *)
(* date, or points to memory which is no longer there, until it is prepared.  *)
EXTENDS ObjectData

\* The keyword arguments and members of the Python types, and the fields of the
\* struct or attributes of several fields which they stand for.
Pos   == [x |-> "pos_x", y |-> "pos_y"]
Size_ == [width |-> "size_x", height |-> "size_y"]
Same(names) == [name \in names |-> name]

Arc       == Pos @@ Same({"radius", "startangle", "sweepangle", "color", "line"})
Box       == Pos @@ Size_ @@ Same({"color", "line", "fill"})
Circle    == Pos @@ Same({"radius", "color", "line", "fill"})
Component == Pos @@ Same({"selectable", "angle", "mirror", "symbol"})
Line      == Pos @@ Size_ @@ Same({"color", "line"})
Net       == Pos @@ Size_ @@ Same({"color", "is_bus", "is_pin", "is_inverted"})
Path      == Same({"pathdata", "color", "line", "fill"})
Picture   == Pos @@ Size_ @@ Same({"angle", "mirror", "pixmap"})
Text      == Pos @@ Same({"color", "text_size", "visibility", "show_name_value",
                          "angle", "alignment", "text"})

LineAttr == [width |-> "line_width", cap_style |-> "line_cap_style",
             dash_style |-> "line_dash_style", dash_length |-> "line_dash_length",
             dash_space |-> "line_dash_space"]
FillAttr == [type |-> "fill_type", width |-> "fill_width", angle0 |-> "fill_angle0",
             pitch0 |-> "fill_pitch0", angle1 |-> "fill_angle1", pitch1 |-> "fill_pitch1"]

Members(type) ==
  CASE type = "arc" -> Arc             [] type = "box" -> Box
    [] type = "circle" -> Circle       [] type = "component" -> Component
    [] type = "line" -> Line           [] type = "net" -> Net
    [] type = "path" -> Path           [] type = "picture" -> Picture
    [] type = "text" -> Text

\* The attributes which are objects of their own.
Held(type) == Range(Members(type)) \cap {"line", "fill", "text", "pathdata"}
FieldsOf(a) == CASE a = "line" -> Range(LineAttr)
                 [] a = "fill" -> Range(FillAttr)
                 [] OTHER -> {a}

\* What is in the struct and the references of an object nothing is said about.
Blank(field) == CASE field = "text" -> <<<< >>>>
                  [] field = "pathdata" -> <<"">>
                  [] field \in {"symbol", "pixmap"} -> None
                  [] OTHER -> 0

\* Revision_get_object_data
construct(o) ==
  [data |-> o, held |-> [a \in Held(o.type) |-> Restrict(o, FieldsOf(a))]]

\* The constructors; the given members are functions of their fields.
New(type) ==
  construct([f \in Fields(type) |-> IF f = "type" THEN type ELSE Blank(f)])
SetMember(p, member, value) ==
  LET a == Members(p.data.type)[member]
  IN IF a \in DOMAIN p.held THEN [p EXCEPT !.held[a] = value]
                            ELSE [p EXCEPT !.data = value @@ @]
init(type, given) ==
  FoldFunctionOnSet(LAMBDA member, p : SetMember(p, member.name, member.value), New(type),
                    [m \in DOMAIN given |-> [name |-> m, value |-> given[m]]], DOMAIN given)

\* What a member is.
GetMember(p, member) ==
  LET a == Members(p.data.type)[member]
  IN IF a \in DOMAIN p.held THEN p.held[a] ELSE [f \in {a} |-> p.data[f]]

\* The struct as it is handed to the storage library.
prepare(p) ==
  LET From(f) == {a \in DOMAIN p.held : f \in FieldsOf(a)}
  IN [f \in DOMAIN p.data |-> IF From(f) = {} THEN p.data[f]
                              ELSE p.held[CHOOSE a \in From(f) : TRUE][f]]
=============================================================================
