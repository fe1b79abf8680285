------------------------------ MODULE XmlWriting ------------------------------
(* xmlwrite.write_file on top of xorn.xml_writer.  What it writes is listed as *)
(* the XML parser will report it: start tags with their attributes, end tags,  *)
(* and character data, including white space put in for readability.           *)
EXTENDS Documents

StartTag(name) == [t |-> "start", name |-> name, attributes |-> << >>]
EndTag == [t |-> "end"]
Data(piece) == [t |-> "data", piece |-> piece]
Space == Data(" ")

XMLWriter ==
  [out |-> << >>, has_root_element |-> FALSE, stack |-> << >>, preserve_depth |-> None,
   state |-> "idle", current_attrs |-> {}, raised |-> FALSE]

Raise(w) == [w EXCEPT !.raised = TRUE]
is_done(w) == w.has_root_element /\ w.stack = << >>

Write(w, tags) == [w EXCEPT !.out = @ \o tags]
\* White space is written unless an element around has preserve_whitespace set.  It
\* means nothing outside of the root element.
Format(w) ==
  IF w.preserve_depth = None /\ w.stack # << >> THEN Write(w, <<Space>>) ELSE w

prepare_for_data(w) ==
  IF w.state # "start tag" THEN w
  ELSE [Format(w) EXCEPT !.current_attrs = {}, !.state = "idle"]

start_element(w, name, preserve_whitespace) ==
  LET v == Write(Format(prepare_for_data(w)), <<StartTag(name)>>)
  IN IF w.stack = << >> /\ w.has_root_element THEN Raise(w)
     ELSE [v EXCEPT !.has_root_element = TRUE,
                    !.preserve_depth =
                       IF preserve_whitespace /\ @ = None THEN Len(w.stack) ELSE @,
                    !.stack = Append(@, name),
                    !.state = "start tag"]

\* What end_element writes first: a closing tag, or the end of an empty one.
CloseTag(w) ==
  [Write(IF w.state = "start tag" THEN w ELSE Format(w), <<EndTag>>) EXCEPT
     !.state = "idle", !.stack = Front(@), !.current_attrs = {}]

end_element(w) ==
  IF w.stack = << >> THEN Raise(w)
  ELSE LET v == CloseTag(w)
       IN Format(IF v.preserve_depth = Len(v.stack)
                 THEN [v EXCEPT !.preserve_depth = None] ELSE v)

write_attribute(w, name, value) ==
  IF w.state # "start tag" \/ name \in w.current_attrs THEN Raise(w)
  ELSE [w EXCEPT !.current_attrs = @ \cup {name},
                 !.out[Len(w.out)].attributes = (name :> value) @@ @]

write_character_data(w, pieces) ==
  IF w.stack = << >> THEN Raise(w)
  ELSE LET v == prepare_for_data(w)
       IN [Write(IF v.state = "idle" THEN Format(v) ELSE v,
                 [i \in DOMAIN pieces |-> Data(pieces[i])])
             EXCEPT !.state = "character data"]

-------------------------------------------------------------------------------
\* xmlwrite.Writer: an XMLWriter with the ids given to symbols and pixmaps.

Writer(omit) == XMLWriter @@ [symbol_ids |-> << >>, pixmap_ids |-> << >>, omit |-> omit]

write_attributes(w, attributes) ==
  FoldLeft(LAMBDA v, a : write_attribute(v, a[1], a[2]), w, attributes)

\* Text is a sequence of pieces: words, line ends and overbar marks.  All
\* between two marks is in an overbar element.
write_piece(w, piece) ==
  CASE piece = "\n" -> end_element(start_element(w, "br", FALSE))
    [] piece = "\\_" -> IF Last(w.stack) = "overbar" THEN end_element(w)
                        ELSE start_element(w, "overbar", FALSE)
    [] OTHER -> write_character_data(w, <<piece>>)

write_text(w, o) ==
  LET name == IF IsAttribute(o) THEN "attribute" ELSE o.type
      visible == <<"visible", <<IF o.text.visible THEN "yes" ELSE "no">>>>
      attributes ==
        CASE IsAttribute(o) -> <<<<"name", <<o.text.name>>>>, <<"x", <<"number", o.x>>>>, visible>>
          [] name = "path" -> << >>
          [] OTHER -> <<<<"x", <<"number", o.x>>>>>>
                      \o (IF o.text.visible THEN << >> ELSE <<visible>>)
      v == FoldLeft(write_piece, write_attributes(start_element(w, name, TRUE), attributes),
                    o.text.value)
  IN end_element(IF Last(v.stack) = "overbar" THEN end_element(v) ELSE v)

write_object(w, o) ==
  LET reference == CASE o.ref = None -> << >>
                     [] o.type = "component" -> <<<<"symbol", w.symbol_ids[o.ref]>>>>
                     [] o.type = "picture" -> <<<<"pixmap", w.pixmap_ids[o.ref]>>>>
      v == write_attributes(start_element(w, o.type, FALSE),
                            <<<<"x", <<"number", o.x>>>>>> \o reference)
  IN IF o.type \in {"text", "path"} THEN write_text(w, o)
     ELSE end_element(FoldLeft(write_text, v, o.attached))

\* Mutant of get_unique_id: the name is the id.
get_unique_id_unchecked(ids, name) == <<"id", name, 0>>

\* write_rev.get_unique_id, with the ids given so far in the same revision.
get_unique_id(ids, name) ==
  CHOOSE id \in {<<"id", name, i>> : i \in 0..Cardinality(ids)} :
    /\ id \notin ids
    /\ \A i \in 0..(id[3] - 1) : <<"id", name, i>> \in ids

\* Give ids to the symbols and pixmaps of a revision which don't have one yet.
AssignIds(w, s, r) ==
  LET Assign(a, o) ==
        IF o.ref = None \/ o.ref \in DOMAIN a[o.type] THEN a
        ELSE LET id == get_unique_id(a.ids, IF o.type = "component" THEN s.symbols[o.ref].name
                                                                    ELSE s.pixmaps[o.ref].name)
             IN [a EXCEPT !.ids = @ \cup {id}, ![o.type] = (o.ref :> id) @@ @]
      assigned == FoldLeft(Assign, [ids |-> {}, component |-> w.symbol_ids,
                                    picture |-> w.pixmap_ids], s.revs[r])
  IN [w EXCEPT !.symbol_ids = assigned.component, !.pixmap_ids = assigned.picture,
               !.raised = @ \/ \E id \in assigned.ids : id[2] = None]

Mode(w, ref) == CASE ref.embedded -> "embedded"
                  [] ~w.omit -> "referenced"
                  [] OTHER -> "omitted"

write_pixmap(w, s, y) ==
  LET pixmap == s.pixmaps[y]
      mode == IF w.omit THEN "omitted" ELSE Mode(w, pixmap)
      v == write_attributes(start_element(w, "pixmap", TRUE),
                            <<<<"id", w.pixmap_ids[y]>>, <<"name", <<pixmap.name>>>>,
                              <<"mode", <<mode>>>>>>)
  IN IF pixmap.data = None /\ ~w.omit THEN Raise(w)
     ELSE end_element(IF w.omit THEN v
                      ELSE write_character_data(v, <<" ", pixmap.data, " ">>))

\* Writer.write_rev with Writer.write_symbol.
RECURSIVE write_rev(_, _, _)
write_rev(w, s, r) ==
  LET Symbol(v, y) ==
        LET symbol == s.symbols[y]
            u == write_attributes(start_element(v, "symbol", FALSE),
                                  <<<<"id", v.symbol_ids[y]>>, <<"name", <<symbol.name>>>>,
                                    <<"mode", <<Mode(v, symbol)>>>>>>)
        IN IF Mode(v, symbol) = "omitted" THEN end_element(u)
           ELSE IF symbol.prim_objs = None THEN Raise(v)
           ELSE end_element(write_rev(u, s, symbol.prim_objs))
      Reference(x, o) ==
        IF o.ref = None \/ <<o.type, o.ref>> \in x.written THEN x
        ELSE [w |-> IF o.type = "component" THEN Symbol(x.w, o.ref)
                                            ELSE write_pixmap(x.w, s, o.ref),
              written |-> x.written \cup {<<o.type, o.ref>>}]
      content == end_element(FoldLeft(write_object,
                                      start_element(AssignIds(w, s, r), "content", FALSE),
                                      s.revs[r]))
  IN FoldLeft(Reference, [w |-> content, written |-> {}], s.revs[r]).w

WriteXmlFile(s, r, omit) ==
  LET w == write_attribute(start_element(Writer(omit), "schematic", FALSE),
                           "file-format-features", <<"experimental">>)
      v == end_element(write_rev(w, s, r))
  IN IF is_done(v) THEN v ELSE Raise(v)
=============================================================================
