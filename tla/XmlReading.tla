------------------------------ MODULE XmlReading ------------------------------
(* xmlread.read_file: the handlers which make objects of what the XML parser   *)
(* reports (see XmlWriting for the form of this).  There is a stack of         *)
(* handlers, one for each element around.                                      *)
EXTENDS XmlWriting

Handler(kind) == [kind |-> kind]
RootHandler(rev) == [kind |-> "root", rev |-> rev, had_content |-> FALSE]
ContentHandler(rev, attached_to) ==
  [kind |-> "content", rev |-> rev, attached_to |-> attached_to]
TextHandler(rev, attached_to, object) ==
  [kind |-> "text", rev |-> rev, attached_to |-> attached_to, object |-> object]
PixmapHandler(pixmap, just_verify) ==
  [kind |-> "pixmap", pixmap |-> pixmap, just_verify |-> just_verify, f |-> << >>]

\* A LoadContext, with the handlers and what is left of an element's attributes.
LoadContext ==
  Blank @@ [stack |-> << >>, attributes |-> << >>, ids |-> {}, symbol_ids |-> << >>,
            pixmap_ids |-> << >>, refs |-> << >>]

Has(s, key) == key \in DOMAIN s.attributes
Pop(s, keys) ==
  [s EXCEPT !.attributes = [key \in DOMAIN @ \ keys |-> @[key]]]

\* Mutant of Push: attributes nobody asked for are ignored.
PushAny(s, handler) == [s EXCEPT !.stack = Append(@, handler), !.attributes = << >>]

\* The handler for an element has been found: there mustn't be attributes left.
Push(s, handler) ==
  [s EXCEPT !.stack = Append(@, handler), !.attributes = << >>,
            !.failed = @ \/ (handler.kind # "void" /\ DOMAIN s.attributes # {})]

Reject(s) == Push(Error(s), Handler("void"))

\* parse_attribute, for a coordinate and for a flag.
Coordinate(s) ==
  LET valid == Has(s, "x") /\ s.attributes["x"][1] = "number"
  IN [value |-> IF valid THEN s.attributes["x"][2] ELSE 0, valid |-> valid]

Visible(s, is_attribute) ==
  LET valid == Has(s, "visible") /\ s.attributes["visible"] \in {<<"no">>, <<"yes">>}
  IN [value |-> IF Has(s, "visible") THEN s.attributes["visible"] = <<"yes">>
                                     ELSE ~is_attribute,
      valid |-> valid \/ (~is_attribute /\ ~Has(s, "visible"))]

-------------------------------------------------------------------------------
\* ContentHandler.start_element

StartText(s, h, name) ==
  LET is_attribute == name = "attribute"
      x == IF name = "path" THEN [value |-> 0, valid |-> TRUE] ELSE Coordinate(s)
      visible == IF name = "path" THEN [value |-> TRUE, valid |-> TRUE]
                                  ELSE Visible(s, is_attribute)
      text == [name |-> IF is_attribute /\ Has(s, "name") THEN s.attributes["name"][1]
                                                          ELSE None,
               value |-> << >>, visible |-> visible.value]
      t == Pop(Check(s, x.valid /\ visible.valid /\ (is_attribute => Has(s, "name"))),
               CASE name = "path" -> {}
                 [] is_attribute -> {"x", "visible", "name"}
                 [] OTHER -> {"x", "visible"})
  IN Push(t, TextHandler(h.rev, h.attached_to,
                         Object(IF is_attribute THEN "text" ELSE name, x.value, text, None)))

\* The reference of a component or picture is looked up when all has been read.
StartObject(s, h, name) ==
  LET x == Coordinate(s)
      key == CASE name = "component" -> "symbol" [] name = "picture" -> "pixmap"
               [] OTHER -> None
      index == Len(s.revs[h.rev]) + 1
      t == [Check(s, x.valid) EXCEPT
              !.revs[h.rev] = Append(@, Object(name, x.value, None, None))]
      u == IF key = None THEN t
           ELSE IF ~Has(s, key) \/ s.attributes[key] = <<"">> THEN Error(t)
           ELSE [t EXCEPT !.refs = Append(@, [rev |-> h.rev, ob |-> index, type |-> name,
                                              id |-> s.attributes[key]])]
  IN Push(Pop(u, {"x", key}),
          IF name \in {"component", "pin"} THEN ContentHandler(h.rev, index)
                                           ELSE Handler("null"))

StartInContent(s, h, name) ==
  CASE name \in {"text", "attribute"} -> StartText(s, h, name)
    [] h.attached_to # None -> Reject(s)
    [] name = "path" -> StartText(s, h, name)
    [] name \in {"box", "component", "picture", "pin"} -> StartObject(s, h, name)
    [] OTHER -> Reject(s)

-------------------------------------------------------------------------------
\* RootElementHandler.start_element

StartContent(s, h) ==
  IF h.had_content THEN Reject(s)
  ELSE Push([s EXCEPT !.stack[Len(s.stack)].had_content = TRUE], ContentHandler(h.rev, None))

\* What a symbol or pixmap element says.  Just embedded ones needn't have a name.
ModeOf(s) == IF Has(s, "mode") THEN s.attributes["mode"][1] ELSE None
NameOf(s) == IF Has(s, "name") THEN s.attributes["name"][1] ELSE None
WellFormed(s) == /\ ModeOf(s) \in {"embedded", "referenced", "omitted"}
                 /\ Has(s, "name") \/ ModeOf(s) = "embedded"

Identified(s) ==
  Has(s, "id") /\ s.attributes["id"] # <<"">> /\ s.attributes["id"] \notin s.ids

\* A referenced symbol which isn't there is taken from the file.
StartSymbol(s, world) ==
  LET embedded == ModeOf(s) = "embedded"
      read_symbol == ModeOf(s) # "omitted"
      loaded == IF embedded THEN s ELSE load_symbol(s, world, NameOf(s), read_symbol)
      from_file == embedded \/ loaded.got = None
      t == IF from_file THEN AddSymbol(loaded, NameOf(s), None, embedded) ELSE loaded
      id == s.attributes["id"]
      u == Pop([t EXCEPT !.ids = @ \cup {id}, !.symbol_ids = (id :> t.got) @@ @],
               {"id", "mode", "name"})
      rev == Len(u.revs) + 1
      v == NewRevision(u, << >>)
  IN IF ~WellFormed(s) THEN Reject(s)
     ELSE IF ~Identified(s) THEN Reject(t)
     ELSE IF ~read_symbol THEN Push(u, Handler("null"))
     ELSE Push(IF from_file THEN [v EXCEPT !.symbols[t.got].prim_objs = rev] ELSE v,
               RootHandler(rev))

StartPixmap(s, world) ==
  LET embedded == ModeOf(s) = "embedded"
      read_pixmap == ModeOf(s) # "omitted"
      loaded == IF embedded THEN s ELSE load_pixmap(s, world, NameOf(s), read_pixmap)
      from_file == embedded \/ loaded.got = None
      t == IF from_file THEN AddPixmap(loaded, NameOf(s), None, embedded) ELSE loaded
      id == s.attributes["id"]
      u == Pop([t EXCEPT !.ids = @ \cup {id}, !.pixmap_ids = (id :> t.got) @@ @],
               {"id", "mode", "name"})
  IN IF ~WellFormed(s) THEN Reject(s)
     ELSE IF ~Identified(s) THEN Reject(t)
     ELSE Push(u, IF read_pixmap THEN PixmapHandler(t.got, ~from_file) ELSE Handler("null"))

-------------------------------------------------------------------------------
\* read_xml_file: the callbacks of the XML parser

StartRoot(s, name) ==
  IF name \notin {"symbol", "schematic"} THEN Reject(s)
  ELSE Push(Pop(Check(s, Has(s, "file-format-features") =>
                           s.attributes["file-format-features"] = <<"experimental">>),
                {"file-format-features"}),
            RootHandler(1))

\* TextHandler, PathHandler and OverbarHandler; the last adds to the text around.
AddPiece(s, piece) ==
  LET i == IF Last(s.stack).kind = "overbar" THEN Len(s.stack) - 1 ELSE Len(s.stack)
  IN [s EXCEPT !.stack[i].object.text.value = Append(@, piece)]

StartInText(s, h, name) ==
  CASE name = "br" -> Push(AddPiece(s, "\n"), Handler("null"))
    [] name = "overbar" /\ h.kind = "text" /\ h.object.type = "text" ->
         Push(AddPiece(s, "\\_"), Handler("overbar"))
    [] OTHER -> Reject(s)

StartElementHandler(s, world, event) ==
  LET t == [s EXCEPT !.attributes = event.attributes]
      h == Last(s.stack)
  IN CASE s.stack = << >> -> StartRoot(t, event.name)
       [] h.kind = "void" -> Push(t, h)
       [] h.kind = "content" -> StartInContent(t, h, event.name)
       [] h.kind \in {"text", "overbar"} -> StartInText(t, h, event.name)
       [] h.kind = "root" /\ event.name = "content" -> StartContent(t, h)
       [] h.kind = "root" /\ event.name = "symbol" -> StartSymbol(t, world)
       [] h.kind = "root" /\ event.name = "pixmap" -> StartPixmap(t, world)
       [] OTHER -> Reject(t)

\* xorn.base64.decode skips white space.
Decoded(f) ==
  LET chunks == SelectSeq(f, LAMBDA piece : piece # " ")
  IN CASE chunks = << >> -> "" [] chunks = <<"data">> -> "data" [] OTHER -> None

EndElementHandler(s) ==
  LET h == Last(s.stack)
      t == [s EXCEPT !.stack = Front(@)]
  IN CASE h.kind = "root" -> Check(t, h.had_content)
       [] h.kind = "overbar" -> [AddPiece(s, "\\_") EXCEPT !.stack = Front(@)]
       [] h.kind = "text" ->
            IF h.attached_to = None
            THEN [t EXCEPT !.revs[h.rev] = Append(@, h.object)]
            ELSE [t EXCEPT !.revs[h.rev][h.attached_to].attached = Append(@, h.object)]
       [] h.kind = "pixmap" ->
            IF h.just_verify THEN Check(t, Decoded(h.f) # None)
            ELSE [Check(t, Decoded(h.f) # None) EXCEPT !.pixmaps[h.pixmap].data = Decoded(h.f)]
       [] OTHER -> t

CharacterDataHandler(s, piece) ==
  LET h == Last(s.stack)
  IN CASE h.kind = "void" -> s
       [] h.kind \in {"text", "overbar"} -> AddPiece(s, piece)
       [] h.kind = "pixmap" -> [s EXCEPT !.stack[Len(s.stack)].f = Append(@, piece)]
       [] OTHER -> Check(s, piece = " ")

HandleEvent(s, world, event) ==
  CASE event.t = "start" -> StartElementHandler(s, world, event)
    [] event.t = "end" -> EndElementHandler(s)
    [] event.t = "data" -> CharacterDataHandler(s, event.piece)

\* What components and pictures refer to is looked up at last.
Resolve(s, ref) ==
  LET known == IF ref.type = "component" THEN s.symbol_ids ELSE s.pixmap_ids
  IN IF ref.id \notin DOMAIN known THEN Error(s)
     ELSE [s EXCEPT !.revs[ref.rev][ref.ob].ref = known[ref.id]]

ReadXmlFile(events, world) ==
  LET s == FoldLeft(LAMBDA s, event : HandleEvent(s, world, event), LoadContext, events)
  IN FoldLeft(Resolve, s, s.refs)
=============================================================================
