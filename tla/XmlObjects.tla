------------------------------- MODULE XmlObjects -------------------------------
(* The elements which stand for objects in the XML file format: how they are  *)
(* written (gaf/xmlwrite.py) and read (gaf/xmlread.py).                       *)
(*                                                                            *)
(* An element has a name, a function from its attributes to their values, and *)
(* `more', its content: the characters and tags of a text, the lines of a     *)
(* path.  A number is the sequence of its characters.                         *)
EXTENDS PlainObjects, TextFormats

ENUM_BOOLEAN == <<"no", "yes">>
ENUM_CAPSTYLE == <<"none", "square", "round">>
ENUM_DASHSTYLE == <<"solid", "dotted", "dashed", "center", "phantom">>
ENUM_FILLTYPE == <<"hollow", "fill", "mesh", "hatch", "void">>
ENUM_SHOW_NAME_VALUE == <<"name-value", "value", "name">>
ENUM_ALIGNMENT == <<"lower-left", "middle-left", "upper-left", "lower-middle",
                    "middle-middle", "upper-middle", "lower-right",
                    "middle-right", "upper-right">>
ENUM_NETTYPE == <<"normal", "bus">>
ENUM_COLOR == <<"background", "pin", "net-endpoint", "graphic", "net",
                "attribute", "logic-bubble", "dots-grid", "detached-attribute",
                "text", "bus", "select", "boundingbox", "zoom-box", "stroke",
                "lock", "output-background", "freestyle1", "freestyle2",
                "freestyle3", "freestyle4">>

Empty == [x \in {} |-> x]

\* A text is an attribute if there is something, and no space, on both sides of
\* its first equals sign (gaf/attrib.py); here, the name mustn't hold a newline.
SplitAt(text) ==
  {p \in DOMAIN text[1] :
     /\ text[1][p] = "=" /\ \A q \in 1 .. p - 1 : text[1][q] # "="
     /\ p > 1 /\ text[1][p - 1] # " "
     /\ IF p = Len(text[1]) THEN Len(text) > 1 ELSE text[1][p + 1] # " "}

parse_string(text) ==
  LET p == CHOOSE p \in SplitAt(text) : TRUE
  IN [name |-> SubSeq(text[1], 1, p - 1),
      value |-> <<SubSeq(text[1], p + 1, Len(text[1]))>> \o Tail(text)]

-----------------------------------------------------------------------------
(* Writing: attributes which have their default value are left out. *)

fmt(x) == fixednum_format(x, 3)
str(n) == fixednum_format(n, 0)

Unless(default, key, value) == IF default THEN Empty ELSE key :> value

write_line(o) ==
  LET dash == o.line_dash_style
  IN Unless(o.line_width = 0, "linewidth", fmt(o.line_width))
     @@ Unless(o.line_cap_style = 0, "capstyle", ENUM_CAPSTYLE[o.line_cap_style + 1])
     @@ Unless(dash = 0, "dashstyle", ENUM_DASHSTYLE[dash + 1])
     @@ Unless(dash \in {0, 1}, "dashlength", fmt(o.line_dash_length))
     @@ Unless(dash = 0, "dashspace", fmt(o.line_dash_space))

write_fill(o) ==
  LET type == o.fill_type
  IN Unless(type = 0, "filltype", ENUM_FILLTYPE[type + 1])
     @@ (IF type \in {2, 3}
         THEN [fillwidth |-> fmt(o.fill_width), angle0 |-> str(o.fill_angle0),
               pitch0 |-> fmt(o.fill_pitch0)] ELSE Empty)
     @@ (IF type = 2
         THEN [angle1 |-> str(o.fill_angle1), pitch1 |-> fmt(o.fill_pitch1)] ELSE Empty)

Color_(o, default) == Unless(o.color = default, "color", ENUM_COLOR[o.color + 1])
Position(o) == [x |-> fmt(o.pos_x), y |-> fmt(o.pos_y)]
Size(o) == [width |-> fmt(o.size_x), height |-> fmt(o.size_y)]
LineEnds(o) == [x0 |-> fmt(o.pos_x), y0 |-> fmt(o.pos_y),
                x1 |-> fmt(o.pos_x + o.size_x), y1 |-> fmt(o.pos_y + o.size_y)]

NetElement(o) ==
  LET default_color == CASE o.is_pin = 1 -> 1
                         [] o.is_pin = 0 /\ o.is_bus = 1 -> 10
                         [] OTHER -> 4
  IN [name |-> IF o.is_pin = 1 THEN "pin" ELSE "net", more |-> << >>,
      attributes |-> LineEnds(o) @@ Color_(o, default_color)
        @@ Unless(o.is_bus = 0, "type", ENUM_NETTYPE[o.is_bus + 1])
        @@ Unless(o.is_pin = 0 \/ o.is_inverted = 0, "inverted",
                  ENUM_BOOLEAN[o.is_inverted + 1])]

TextElement(o) ==
  LET is_attribute == SplitAt(o.text) # {}
  IN [name |-> IF is_attribute THEN "attribute" ELSE "text",
      more |-> WrittenText(Join(IF is_attribute THEN parse_string(o.text).value
                                ELSE o.text, "\n")),
      attributes |-> Position(o) @@ [size |-> str(o.text_size)]
        @@ Unless(~is_attribute, "name", parse_string(o.text).name)
        @@ Color_(o, IF is_attribute THEN 5 ELSE 9)
        @@ Unless(~is_attribute /\ o.visibility = 1,
                  "visible", ENUM_BOOLEAN[o.visibility + 1])
        @@ Unless(~is_attribute /\ o.show_name_value = 0,
                  "show", ENUM_SHOW_NAME_VALUE[o.show_name_value + 1])
        @@ Unless(o.angle = 0, "angle", str(o.angle))
        @@ Unless(o.alignment = 0, "alignment", ENUM_ALIGNMENT[o.alignment + 1])]

\* The identifiers for symbols and pixmaps are chosen by write_rev.
ElementOf(o) ==
  CASE o.type = "net" -> NetElement(o)
    [] o.type = "text" -> TextElement(o)
    [] OTHER ->
       [name |-> o.type, more |-> IF o.type = "path" THEN o.pathdata ELSE << >>,
        attributes |->
          CASE o.type = "arc" ->
                 Position(o) @@ [radius |-> fmt(o.radius), startangle |-> str(o.startangle),
                                 sweepangle |-> str(o.sweepangle)]
                 @@ Color_(o, 3) @@ write_line(o)
            [] o.type = "box" ->
                 Position(o) @@ Size(o) @@ Color_(o, 3) @@ write_line(o) @@ write_fill(o)
            [] o.type = "circle" ->
                 Position(o) @@ [radius |-> fmt(o.radius)] @@ Color_(o, 3)
                 @@ write_line(o) @@ write_fill(o)
            [] o.type = "component" ->
                 Position(o) @@ [symbol |-> o.symbol]
                 @@ Unless(o.selectable = 1, "selectable", ENUM_BOOLEAN[o.selectable + 1])
                 @@ Unless(o.angle = 0, "angle", str(o.angle))
                 @@ Unless(o.mirror = 0, "mirror", ENUM_BOOLEAN[o.mirror + 1])
            [] o.type = "line" -> LineEnds(o) @@ Color_(o, 3) @@ write_line(o)
            [] o.type = "path" -> Color_(o, 3) @@ write_line(o) @@ write_fill(o)
            [] o.type = "picture" ->
                 Position(o) @@ Size(o) @@ [pixmap |-> o.pixmap]
                 @@ Unless(o.angle = 0, "angle", str(o.angle))
                 @@ Unless(o.mirror = 0, "mirrored", ENUM_BOOLEAN[o.mirror + 1])]

-----------------------------------------------------------------------------
(* Reading: what parse_attribute is given a text and a processor for. *)

parse(x) == fixednum_parse(x, 3)
int(x) == fixednum_parse(x, 0)      \* which takes spaces and a plus sign, too
parse_angle(x) == IF int(x) \in {0, 90, 180, 270} THEN int(x) ELSE Invalid

\* The value, or a guess of one for the data to be well-formed (after log.error).
\* What the processor makes of it is `value', if the attribute is there.
parse_attribute(attributes, key, default, value) ==
  IF key \notin DOMAIN attributes THEN IF default # None THEN default ELSE 0
  ELSE IF value = Invalid THEN 0 ELSE value

\* The same for enum.index.
IndexOf(attributes, key, default, enum) ==
  parse_attribute(attributes, key, default,
                  IF attributes[key] \in Range(enum)
                  THEN (CHOOSE i \in DOMAIN enum : enum[i] = attributes[key]) - 1 ELSE Invalid)

parse_line(a) ==
  LET dash_style == IndexOf(a, "dashstyle", 0, ENUM_DASHSTYLE)
  IN [line_width |-> parse_attribute(a, "linewidth", 0, parse(a.linewidth)),
      line_cap_style |-> IndexOf(a, "capstyle", 0, ENUM_CAPSTYLE),
      line_dash_style |-> dash_style,
      line_dash_length |-> IF dash_style \in {0, 1} THEN 0
                           ELSE parse_attribute(a, "dashlength", None, parse(a.dashlength)),
      line_dash_space |-> IF dash_style = 0 THEN 0
                          ELSE parse_attribute(a, "dashspace", None, parse(a.dashspace))]

parse_fill(a) ==
  LET type == IndexOf(a, "filltype", 0, ENUM_FILLTYPE)
      IfHatched(key, value) ==
        IF type \in {2, 3} THEN parse_attribute(a, key, None, value) ELSE 0
      IfMesh(key, value) ==
        IF type = 2 THEN parse_attribute(a, key, None, value) ELSE 0
  IN [fill_type |-> type,
      fill_width |-> IfHatched("fillwidth", parse(a.fillwidth)),
      fill_angle0 |-> IfHatched("angle0", int(a.angle0)),
      fill_pitch0 |-> IfHatched("pitch0", parse(a.pitch0)),
      fill_angle1 |-> IfMesh("angle1", int(a.angle1)),
      fill_pitch1 |-> IfMesh("pitch1", parse(a.pitch1))]

\* What several elements have in common.
ReadColor(a, default) == [color |-> IndexOf(a, "color", default, ENUM_COLOR)]
ReadPosition(a) == [pos_x |-> parse_attribute(a, "x", None, parse(a.x)),
                    pos_y |-> parse_attribute(a, "y", None, parse(a.y))]
ReadSize(a) == [size_x |-> parse_attribute(a, "width", None, parse(a.width)),
                size_y |-> parse_attribute(a, "height", None, parse(a.height))]
ReadEnds(a) ==
  LET At(key) == parse_attribute(a, key, None, parse(a[key]))
  IN [pos_x |-> At("x0"), pos_y |-> At("y0"),
      size_x |-> At("x1") - At("x0"), size_y |-> At("y1") - At("y0")]
ReadOrientation(a, mirror) ==
  [angle |-> parse_attribute(a, "angle", 0, parse_angle(a.angle)),
   mirror |-> IndexOf(a, mirror, 0, ENUM_BOOLEAN)]

ReadTextElement(e) ==
  LET a == e.attributes
      is_attribute == e.name = "attribute"
  IN [type |-> "text",
      text_size |-> parse_attribute(a, "size", None, int(a.size)),
      visibility |-> IndexOf(a, "visible", IF is_attribute THEN None ELSE 1, ENUM_BOOLEAN),
      show_name_value |-> IndexOf(a, "show", IF is_attribute THEN None ELSE 0, ENUM_SHOW_NAME_VALUE),
      angle |-> parse_attribute(a, "angle", 0, parse_angle(a.angle)),
      alignment |-> IndexOf(a, "alignment", 0, ENUM_ALIGNMENT),
      text |-> Split((IF is_attribute /\ "name" \in DOMAIN a THEN a.name \o <<"=">>
                      ELSE << >>) \o ReadText(e.more), "\n")]
     @@ ReadPosition(a) @@ ReadColor(a, IF is_attribute THEN 5 ELSE 9)

ReadNetElement(e) ==
  LET a == e.attributes
      is_bus == IndexOf(a, "type", 0, ENUM_NETTYPE)
      is_pin == IF e.name = "pin" THEN 1 ELSE 0
  IN [type |-> "net", is_bus |-> is_bus, is_pin |-> is_pin,
      is_inverted |-> IF is_pin = 0 THEN 0
                      ELSE IndexOf(a, "inverted", 0, ENUM_BOOLEAN)]
     @@ ReadEnds(a) @@ ReadColor(a, CASE is_pin = 1 -> 1
                                      [] is_pin = 0 /\ is_bus = 1 -> 10
                                      [] OTHER -> 4)

\* The symbol or pixmap is filled in when the file has been read.
ReadElement(e) ==
  LET a == e.attributes
      Styled_(more) == ReadColor(a, 3) @@ parse_line(a) @@ more
  IN CASE e.name \in {"text", "attribute"} -> ReadTextElement(e)
       [] e.name \in {"net", "pin"} -> ReadNetElement(e)
       [] e.name = "arc" ->
            [type |-> "arc", radius |-> parse_attribute(a, "radius", None, parse(a.radius)),
             startangle |-> parse_attribute(a, "startangle", None, int(a.startangle)),
             sweepangle |-> parse_attribute(a, "sweepangle", None, int(a.sweepangle))]
            @@ ReadPosition(a) @@ Styled_(Empty)
       [] e.name = "box" ->
            [type |-> "box"] @@ ReadPosition(a) @@ ReadSize(a) @@ Styled_(parse_fill(a))
       [] e.name = "circle" ->
            [type |-> "circle", radius |-> parse_attribute(a, "radius", None, parse(a.radius))]
            @@ ReadPosition(a) @@ Styled_(parse_fill(a))
       [] e.name = "component" ->
            [type |-> "component", symbol |-> IF "symbol" \in DOMAIN a THEN a.symbol ELSE None,
             selectable |-> IndexOf(a, "selectable", 1, ENUM_BOOLEAN)]
            @@ ReadPosition(a) @@ ReadOrientation(a, "mirror")
       [] e.name = "line" -> [type |-> "line"] @@ ReadEnds(a) @@ Styled_(Empty)
       [] e.name = "path" ->
            [type |-> "path", pathdata |-> e.more] @@ Styled_(parse_fill(a))
       [] e.name = "picture" ->
            [type |-> "picture", pixmap |-> IF "pixmap" \in DOMAIN a THEN a.pixmap ELSE None]
            @@ ReadPosition(a) @@ ReadSize(a) @@ ReadOrientation(a, "mirrored")
=============================================================================
