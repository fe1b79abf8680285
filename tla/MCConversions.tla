----------------------------- MODULE MCConversions -----------------------------
(* A small instance of Conversions for TLC. *)
EXTENDS Conversions, Sequences

Plain == [f \in {"line_width", "line_cap_style", "line_dash_style", "line_dash_length",
                 "line_dash_space", "fill_type", "fill_width", "fill_angle0",
                 "fill_pitch0", "fill_angle1", "fill_pitch1"} |-> 0]
Dashed == [line_width |-> 1, line_cap_style |-> 2, line_dash_style |-> 3,
           line_dash_length |-> 4, line_dash_space |-> 6, fill_type |-> 2,
           fill_width |-> 5, fill_angle0 |-> 45, fill_pitch0 |-> 7,
           fill_angle1 |-> 135, fill_pitch1 |-> 8]
Dotted == [Dashed EXCEPT !.line_dash_style = 1, !.line_dash_length = 0,
             !.fill_type = 3, !.fill_angle1 = 0, !.fill_pitch1 = 0]

Data(type, values) ==
  [type |-> type] @@ Restrict(values, Fields(type) \cap DOMAIN values)

Somewhere == [pos_x |-> 1, pos_y |-> 2, size_x |-> 5, size_y |-> -3, color |-> 4,
              radius |-> 3, startangle |-> 90, sweepangle |-> -30]

Placing == [angle |-> 90, mirror |-> 1, selectable |-> 0,
            symbol |-> [basename |-> <<"x.sym">>, embedded |-> 0],
            pixmap |-> [filename |-> "x.png", embedded |-> 1]]
Upright == [Placing EXCEPT !.angle = 0, !.mirror = 0, !.selectable = 1,
              !.symbol.embedded = 1, !.pixmap.embedded = 0]

Wording == [text_size |-> 10, visibility |-> 0, show_name_value |-> 1, angle |-> 90,
            alignment |-> 5, text |-> <<<<"a", "=", "b">>>>]
Plainly == [Wording EXCEPT !.visibility = 1, !.show_name_value = 0, !.angle = 0,
              !.alignment = 0, !.text = <<<<"a">>, <<>>>>]

Nets == {[is_bus |-> b, is_pin |-> p, is_inverted |-> i] : b, p, i \in {0, 1}}

MCSamples ==
  {Data(type, style @@ Somewhere @@ [pathdata |-> <<"M", "L">>]) :
     type \in WithLine, style \in {Plain, Dashed, Dotted}}
  \cup {Data("net", Somewhere @@ n) : n \in {n \in Nets : n.is_inverted <= n.is_pin}}
  \cup {Data(type, p @@ Somewhere) : type \in {"component", "picture"}, p \in {Placing, Upright}}
  \cup {Data("text", t @@ Somewhere) : t \in {Wording, Plainly}}

One(a, values) == {a :> v : v \in values}

MCValues(a) ==
  CASE a = "color" -> One(a, {5, 20, 21})
    [] a \in {"line_cap_style", "line_dash_style", "fill_type"} -> One(a, {0, 2, 4, 5})
    [] a = "angle" -> One(a, {0, 180, 45})
    [] a = "alignment" -> One(a, {1, 6, 9})
    [] a = "show_name_value" -> One(a, {0, 2, 3})
    [] a \in {"mirror", "is_bus", "is_pin", "is_inverted", "selectable", "visibility"} ->
         One(a, {0, 1})
    [] a = "text" ->
         One(a, {<<<<>>>>, <<<<"a", "=">>>>, <<<<"a", "=">>, <<"b">>>>, <<<<"=", "b">>>>,
                 <<<<"a", " ", "=", "b">>>>, <<<<"a", "=", "=", "b">>>>,
                 <<<<"a">>, <<"=", "b">>>>, <<<<"a", "=", "\\", "_", "b", "\\", "_">>>>,
                 <<<<"\\", "\\", "a">>>>})
    [] a = "pathdata" -> One(a, {<<>> \o <<"M">>})
    [] a = "line" -> {Restrict(Dashed, Parts(a)), [Restrict(Dotted, Parts(a)) EXCEPT !.line_width = -1]}
    [] a = "fill" -> {Restrict(Dashed, Parts(a)), Restrict(Plain, Parts(a))}
    [] a \in {"pos", "size"} -> {[f \in Parts(a) |-> 0]}
    [] a = "startangle" -> One(a, {0, 300})
    [] a \in {"sweepangle", "fill_angle0", "fill_angle1"} -> One(a, {0, 90, -90})
    [] a = "text_size" -> One(a, {0, -1})
    [] OTHER -> One(a, {0, -5, NotFinite})

MCOrigins == {[pos_x |-> 10, pos_y |-> 20]}

MCHandWritten == {-5, 2, 21, 45}

\* .5  -1  --  1.2345  90
MCHandNumbers == {<<".", "5">>, <<"-", "1">>, <<"-", "-">>,
                  <<"1", ".", "2", "3", "4", "5">>, <<"9", "0">>}
=============================================================================
