------------------------------ MODULE PlainObjects ------------------------------
(* The lines which stand for objects in the plain file format: how they are   *)
(* written (gaf/plainwrite.py) and read (gaf/plainread.py).                   *)
(*                                                                            *)
(* A line is a record of the columns the format strings name, and `letter',   *)
(* its first character.  What follows it in the file (the lines of a text or  *)
(* path, the file name and data of a picture) is the field `more'; a text is  *)
(* the sequence of its lines.  A symbol's name in the file is a sequence, too:*)
(* the word EMBEDDED may have been put before it.                             *)
EXTENDS Placement, Sequences

Failed == [type |-> "none"]    \* log.error has been called, None is returned

\* What the file format learned with the releases of gEDA/gaf, in this order; a
\* format is how many of them it has.
Features == <<"text alignment", "line and fill", "pins and buses", "multiple lines">>
FileFormat == 0 .. Len(Features)
Supports(format, feature) == \E i \in 1 .. format : Features[i] = feature

-----------------------------------------------------------------------------
(* Reading *)

LineColumns == {"line_width", "line_end", "line_type", "line_length", "line_space"}
FillColumns == {"fill_type", "fill_width", "angle1", "pitch1", "angle2", "pitch2"}

normalized_line(l) ==
  [line_width |-> l.line_width, line_cap_style |-> l.line_end,
   line_dash_style |-> l.line_type,
   line_dash_length |-> IF l.line_type \in {0, 1} THEN 0 ELSE l.line_length,
   line_dash_space |-> IF l.line_type = 0 THEN 0 ELSE l.line_space]

normalized_fill(l) ==
  LET hatched == l.fill_type \in {2, 3}
      mesh == l.fill_type = 2
  IN [fill_type |-> l.fill_type,
      fill_width |-> IF hatched THEN l.fill_width ELSE 0,
      fill_angle0 |-> IF hatched THEN l.angle1 ELSE 0,
      fill_pitch0 |-> IF hatched THEN l.pitch1 ELSE 0,
      fill_angle1 |-> IF mesh THEN l.angle2 ELSE 0,
      fill_pitch1 |-> IF mesh THEN l.pitch2 ELSE 0]

\* What the style is when the file has none.
NoStyle == [line_width |-> 0, line_end |-> 0, line_type |-> 0, line_length |-> -1,
            line_space |-> -1, fill_type |-> 0, fill_width |-> 0,
            angle1 |-> -1, pitch1 |-> -1, angle2 |-> -1, pitch2 |-> -1]

\* Too many columns are fine, too few are not.
sscanf(l, columns) == columns \subseteq DOMAIN l

\* The line with its style, or that of a file which has none.
Styled(l, format) == IF Supports(format, "line and fill") THEN l ELSE NoStyle @@ l
Style(format, columns) == IF Supports(format, "line and fill") THEN columns ELSE {}

\* Mutant of Color: one more colour is taken.
ColorOffByOne(color) == IF color \in 0 .. 21 THEN color ELSE 3

Color(color) == IF color \in 0 .. 20 THEN color ELSE 3
Angle(angle) == IF angle \in {0, 90, 180, 270} THEN angle ELSE 0
Flag(flag)   == IF flag \in {0, 1} THEN flag ELSE 0
Truth(int)   == IF int = 0 THEN 0 ELSE 1      \* PyObject_IsTrue

read_circle(l, format) ==
  IF ~sscanf(l, {"x1", "y1", "radius", "color"}
                \cup Style(format, LineColumns \cup FillColumns)) THEN Failed
  ELSE [type |-> "circle", pos_x |-> l.x1, pos_y |-> l.y1,
        radius |-> IF l.radius < 0 THEN 0 ELSE l.radius, color |-> Color(l.color)]
       @@ normalized_line(Styled(l, format)) @@ normalized_fill(Styled(l, format))

read_arc(l, format) ==
  IF ~sscanf(l, {"x1", "y1", "radius", "start_angle", "sweep_angle", "color"}
                \cup Style(format, LineColumns)) THEN Failed
  ELSE [type |-> "arc", pos_x |-> l.x1, pos_y |-> l.y1,
        radius |-> IF l.radius < 0 THEN 0 ELSE l.radius,
        startangle |-> l.start_angle, sweepangle |-> l.sweep_angle,
        color |-> Color(l.color)] @@ normalized_line(Styled(l, format))

read_box(l, format) ==
  IF ~sscanf(l, {"x1", "y1", "width", "height", "color"}
                \cup Style(format, LineColumns \cup FillColumns)) THEN Failed
  ELSE [type |-> "box", pos_x |-> l.x1, pos_y |-> l.y1,
        size_x |-> l.width, size_y |-> l.height, color |-> Color(l.color)]
       @@ normalized_line(Styled(l, format)) @@ normalized_fill(Styled(l, format))

Ends == {"x1", "y1", "x2", "y2", "color"}

\* The data which the columns x1 to color describe.
Span(l) == [pos_x |-> l.x1, pos_y |-> l.y1, size_x |-> l.x2 - l.x1,
            size_y |-> l.y2 - l.y1, color |-> Color(l.color)]

read_bus(l, format) ==
  IF ~sscanf(l, Ends \cup (IF Supports(format, "pins and buses")
                           THEN {"ripper_dir"} ELSE {})) THEN Failed
  ELSE [type |-> "net", is_bus |-> 1, is_pin |-> 0, is_inverted |-> 0] @@ Span(l)

read_complex(l, format) ==
  IF ~sscanf(l, {"x1", "y1", "selectable", "angle", "mirror", "basename"}) THEN Failed
  ELSE [type |-> "component", pos_x |-> l.x1, pos_y |-> l.y1,
        selectable |-> Truth(l.selectable), angle |-> Angle(l.angle),
        mirror |-> Flag(l.mirror),
        symbol |-> IF Head(l.basename) = "EMBEDDED"
                   THEN [basename |-> Tail(l.basename), embedded |-> 1]
                   ELSE [basename |-> l.basename, embedded |-> 0]]

read_line(l, format) ==
  IF ~sscanf(l, Ends \cup Style(format, LineColumns)) THEN Failed
  ELSE [type |-> "line"] @@ Span(l) @@ normalized_line(Styled(l, format))

read_net(l, format) ==
  IF ~sscanf(l, Ends) THEN Failed
  ELSE [type |-> "net", is_bus |-> 0, is_pin |-> 0, is_inverted |-> 0] @@ Span(l)

\* Style columns have always been there for paths, which are younger.
read_path(l, format) ==
  IF ~sscanf(l, {"color", "num_lines"} \cup LineColumns \cup FillColumns) THEN Failed
  ELSE [type |-> "path", pathdata |-> SubSeq(l.more, 1, l.num_lines),
        color |-> Color(l.color)] @@ normalized_line(l) @@ normalized_fill(l)

read_picture(l, format) ==
  IF ~sscanf(l, {"x1", "y1", "width", "height", "angle", "mirrored", "embedded"})
  THEN Failed
  ELSE [type |-> "picture", pos_x |-> l.x1, pos_y |-> l.y1,
        size_x |-> l.width, size_y |-> l.height, angle |-> Angle(l.angle),
        mirror |-> Flag(l.mirrored),
        pixmap |-> [filename |-> Head(l.more), embedded |-> Flag(l.embedded)]]

\* Mutant of read_pin: the ends of an inverted pin are left where they are.
read_pin_unswapped(l, format) ==
  IF ~sscanf(l, Ends \cup (IF Supports(format, "pins and buses")
                           THEN {"pin_type", "whichend"} ELSE {})) THEN Failed
  ELSE LET new == IF Supports(format, "pins and buses") THEN l
                  ELSE [pin_type |-> 0, whichend |-> -1] @@ l
       IN [type |-> "net", is_bus |-> Flag(new.pin_type), is_pin |-> 1,
           is_inverted |-> IF new.whichend = 1 THEN 1 ELSE 0] @@ Span(l)

\* The other end of an inverted pin comes first.
read_pin(l, format) ==
  IF ~sscanf(l, Ends \cup (IF Supports(format, "pins and buses")
                           THEN {"pin_type", "whichend"} ELSE {})) THEN Failed
  ELSE LET new == IF Supports(format, "pins and buses") THEN l
                  ELSE [pin_type |-> 0, whichend |-> -1] @@ l
           inverted == new.whichend = 1
       IN [type |-> "net", is_bus |-> Flag(new.pin_type), is_pin |-> 1,
           is_inverted |-> IF inverted THEN 1 ELSE 0]
          @@ Span(IF inverted THEN [l EXCEPT !.x1 = l.x2, !.y1 = l.y2,
                                             !.x2 = l.x1, !.y2 = l.y1] ELSE l)

read_text(l, format) ==
  IF ~sscanf(l, {"x", "y", "color", "size", "visibility", "show_name_value", "angle"}
                \cup (IF Supports(format, "text alignment") THEN {"alignment"} ELSE {})
                \cup (IF Supports(format, "multiple lines") THEN {"num_lines"} ELSE {}))
  THEN Failed
  ELSE LET new == l @@ [alignment |-> 0, num_lines |-> 1]
           alignment == IF Supports(format, "text alignment") THEN new.alignment ELSE 0
           num_lines == IF Supports(format, "multiple lines") THEN new.num_lines ELSE 1
       IN [type |-> "text", pos_x |-> l.x, pos_y |-> l.y, color |-> Color(l.color),
           text_size |-> l.size, visibility |-> Truth(l.visibility),
           show_name_value |-> l.show_name_value, angle |-> Angle(l.angle),
           alignment |-> IF alignment \in 0 .. 8 THEN alignment ELSE 0,
           text |-> SubSeq(l.more, 1, num_lines)]

ReadObject(l, format) ==
  CASE l.letter = "V" -> read_circle(l, format)
    [] l.letter = "A" -> read_arc(l, format)
    [] l.letter = "B" -> read_box(l, format)
    [] l.letter = "U" -> read_bus(l, format)
    [] l.letter = "C" -> read_complex(l, format)
    [] l.letter = "L" -> read_line(l, format)
    [] l.letter = "N" -> read_net(l, format)
    [] l.letter = "H" -> read_path(l, format)
    [] l.letter = "G" -> read_picture(l, format)
    [] l.letter = "P" -> read_pin(l, format)
    [] l.letter = "T" -> read_text(l, format)

-----------------------------------------------------------------------------
(* Writing *)

format_line(o) ==
  [line_width |-> o.line_width, line_end |-> o.line_cap_style,
   line_type |-> o.line_dash_style,
   line_length |-> IF o.line_dash_style \in {0, 1} THEN -1 ELSE o.line_dash_length,
   line_space |-> IF o.line_dash_style = 0 THEN -1 ELSE o.line_dash_space]

format_fill(o) ==
  LET hatched == o.fill_type \in {2, 3}
      mesh == o.fill_type = 2
  IN [fill_type |-> o.fill_type,
      fill_width |-> IF hatched THEN o.fill_width ELSE -1,
      angle1 |-> IF hatched THEN o.fill_angle0 ELSE -1,
      pitch1 |-> IF hatched THEN o.fill_pitch0 ELSE -1,
      angle2 |-> IF mesh THEN o.fill_angle1 ELSE -1,
      pitch2 |-> IF mesh THEN o.fill_pitch1 ELSE -1]

FromTo(o) == [x1 |-> o.pos_x, y1 |-> o.pos_y, x2 |-> o.pos_x + o.size_x,
              y2 |-> o.pos_y + o.size_y, color |-> o.color]

WriteNet(o, ripper_dir) ==
  CASE o.is_pin = 1 ->
         (IF o.is_inverted = 1
          THEN [x1 |-> o.pos_x + o.size_x, y1 |-> o.pos_y + o.size_y,
                x2 |-> o.pos_x, y2 |-> o.pos_y] @@ FromTo(o)
          ELSE FromTo(o))
         @@ [letter |-> "P", pin_type |-> o.is_bus, whichend |-> o.is_inverted]
    [] o.is_pin = 0 /\ o.is_bus = 1 ->
         FromTo(o) @@ [letter |-> "U", ripper_dir |-> ripper_dir]
    [] OTHER -> FromTo(o) @@ [letter |-> "N"]

WriteShape(o) ==
  CASE o.type = "line" -> FromTo(o) @@ format_line(o) @@ [letter |-> "L"]
    [] o.type = "box" ->
         [letter |-> "B", x1 |-> o.pos_x, y1 |-> o.pos_y, width |-> o.size_x,
          height |-> o.size_y, color |-> o.color] @@ format_line(o) @@ format_fill(o)
    [] o.type = "circle" ->
         [letter |-> "V", x1 |-> o.pos_x, y1 |-> o.pos_y, radius |-> o.radius,
          color |-> o.color] @@ format_line(o) @@ format_fill(o)
    [] o.type = "path" ->
         [letter |-> "H", color |-> o.color, num_lines |-> Len(o.pathdata),
          more |-> o.pathdata] @@ format_line(o) @@ format_fill(o)
    [] o.type = "arc" ->
         [letter |-> "A", x1 |-> o.pos_x, y1 |-> o.pos_y, radius |-> o.radius,
          start_angle |-> o.startangle, sweep_angle |-> o.sweepangle,
          color |-> o.color] @@ format_line(o)

\* The objects in an embedded symbol and attached objects are written after it.
write_object(o, ripper_dir) ==
  CASE o.type = "net" -> WriteNet(o, ripper_dir)
    [] o.type = "component" ->
         [letter |-> "C", x1 |-> o.pos_x, y1 |-> o.pos_y,
          selectable |-> o.selectable, angle |-> o.angle, mirror |-> o.mirror,
          basename |-> IF o.symbol.embedded = 1
                       THEN <<"EMBEDDED">> \o o.symbol.basename
                       ELSE o.symbol.basename]
    [] o.type = "text" ->
         [letter |-> "T", x |-> o.pos_x, y |-> o.pos_y, color |-> o.color,
          size |-> o.text_size, visibility |-> o.visibility,
          show_name_value |-> o.show_name_value, angle |-> o.angle,
          alignment |-> o.alignment, num_lines |-> Len(o.text), more |-> o.text]
    [] o.type = "picture" ->
         [letter |-> "G", x1 |-> o.pos_x, y1 |-> o.pos_y, width |-> o.size_x,
          height |-> o.size_y, angle |-> o.angle, mirrored |-> o.mirror,
          embedded |-> o.pixmap.embedded, more |-> <<o.pixmap.filename>>]
    [] OTHER -> WriteShape(o)
=============================================================================
