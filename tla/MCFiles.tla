-------------------------------- MODULE MCFiles --------------------------------
(* Files with an instance for TLC. *)
EXTENDS Files

Attribute(visible) == [name |-> "a", value |-> <<"v">>, visible |-> visible]
Plain(type, x, text) == ObjectLine(Object(type, x, text, None), None, FALSE)
Referring(type, x, name, embedded) == ObjectLine(Object(type, x, None, None), name, embedded)

MCLines ==
  {Plain("pin", 1, None), Plain("box", 2, None),
   Plain("text", 1, Attribute(TRUE)), Plain("text", 1, Attribute(FALSE)),
   Plain("text", 3, [name |-> None, value |-> <<"v", "\n", "\\_", "w", "\\_">>,
                     visible |-> FALSE]),
   Plain("path", 0, [name |-> None, value |-> <<"v", "\n", "w">>, visible |-> TRUE]),
   Referring("component", 1, "s", FALSE), Referring("component", 2, "s", TRUE),
   Referring("picture", 1, "p", FALSE), Referring("picture", 2, "p", TRUE),
   Line("{"), Line("}"), Line("["), Line("]"), Line("comment"), Line("garbage"),
   [kind |-> "version", new |-> TRUE]}

MCLibrarySymbol == <<Object("pin", 1, None, None), Object("text", 0, Attribute(TRUE), None)>>

MCWorlds ==
  {[load |-> TRUE, library |-> "found", readable |-> TRUE],
   [load |-> TRUE, library |-> "missing", readable |-> FALSE],
   [load |-> TRUE, library |-> "ambiguous", readable |-> TRUE],
   [load |-> FALSE, library |-> "missing", readable |-> FALSE]}
=============================================================================
