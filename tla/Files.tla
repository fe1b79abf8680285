--------------------------------- MODULE Files ---------------------------------
(* What happens to a schematic when it is converted from one file format to   *)
(* another: a file in the plain format is read line by line, written in the   *)
(* plain or the XML format, and read again, an XML file possibly after it has *)
(* been edited.  Errors are logged to a DefaultLog, which gives up at the      *)
(* first one.                                                                  *)
EXTENDS PlainFiles, XmlReading

CONSTANTS Lines,       \* the lines files are made up of
          Worlds,      \* whether symbols and pixmaps are to be loaded, and are there
          MaxLines, MaxObjects, MaxEdited,  \* bounds
          Depth        \* as far as symbols in symbols are looked at

VARIABLES world,   \* what there is while the first file is read
          lines,   \* what has been read of it
          reader,  \* the state of the reader, at last the result
          phase,
          events,  \* the XML file
          edit,    \* the element which has been edited, and how
          copy     \* what has been read from the file written

vars == <<world, lines, reader, phase, events, edit, copy>>

Init ==
  /\ world \in {w \in Worlds : w.load => w.library = "found" /\ w.readable}
  /\ lines = << >>
  /\ reader = PlainReader
  /\ phase = "reading"
  /\ events = << >>
  /\ edit = None
  /\ copy = None

ObjectsIn(ls) == Len(SelectSeq(ls, LAMBDA line : line.kind = "object"))

ReadNext ==
  /\ phase = "reading"
  /\ ~reader.failed /\ ~reader.crashed
  /\ Len(lines) < MaxLines
  /\ \E line \in Lines :
       /\ line.kind = "object" => ObjectsIn(lines) < MaxObjects
       /\ line.kind \in {"comment", "version"} => lines = << >> \/ reader.attaching
       /\ lines' = Append(lines, line)
       /\ reader' = ReadLine(reader, world, line)
  /\ UNCHANGED <<world, phase, events, edit, copy>>

EndOfFile ==
  /\ phase = "reading"
  /\ ~reader.failed /\ ~reader.crashed
  /\ reader' = FinishPlain(reader)
  /\ phase' = "read"
  /\ UNCHANGED <<world, lines, events, edit, copy>>

\* xorn convert to the format of the file, and back.
SavePlain ==
  /\ phase = "read" /\ ~reader.failed
  /\ phase' = "plain"
  /\ copy' = ReadPlainFile(WritePlainFile(reader, reader.rev), world)
  /\ UNCHANGED <<world, lines, reader, events, edit>>

\* Symbols and pixmaps are omitted if they haven't been loaded.  Writing fails if
\* the contents of an embedded symbol are missing.
SaveXml ==
  /\ phase = "read" /\ ~reader.failed
  /\ LET w == WriteXmlFile(reader, reader.rev, ~world.load)
     IN /\ events' = w.out
        /\ phase' = IF w.raised THEN "raised" ELSE "xml"
  /\ UNCHANGED <<world, lines, reader, edit, copy>>

\* The end of the element which starts at i, or the position of its data.
EndOf(i) ==
  LET Level(j) == Cardinality({k \in i..j : events[k].t = "start"})
                  - Cardinality({k \in i..j : events[k].t = "end"})
  IN IF events[i].t = "data" THEN i
     ELSE CHOOSE j \in i..Len(events) : Level(j) = 0 /\ \A k \in i..(j - 1) : Level(k) # 0

Values(key) ==
  CASE key \in {"id", "symbol", "pixmap"} -> {<<"bad">>, <<"">>}
    [] key = "mode" -> {<<"bad">>, <<"embedded">>, <<"referenced">>, <<"omitted">>}
    [] OTHER -> {<<"bad">>}

Without(i) == SubSeq(events, 1, i - 1) \o SubSeq(events, EndOf(i) + 1, Len(events))
Again(i) == SubSeq(events, 1, EndOf(i)) \o SubSeq(events, i, Len(events))
WithData(i) == InsertAt(events, i + 1, Data("stray"))
Renamed(i) == {[events EXCEPT ![i].name = name] : name \in {"unknown", "box", "content"}}
WithAttribute(i) ==
  {[events EXCEPT ![i].attributes = ("unknown" :> <<"bad">>) @@ @]}
  \cup {[events EXCEPT ![i].attributes = [k \in DOMAIN @ \ {key} |-> @[k]]] :
          key \in DOMAIN events[i].attributes}
  \cup UNION {{[events EXCEPT ![i].attributes[key] = value] : value \in Values(key)} :
                key \in DOMAIN events[i].attributes}

Edits(i) ==
  (IF i = 1 THEN {} ELSE {Without(i), Again(i), WithData(i)})
  \cup (IF events[i].t = "start" THEN Renamed(i) \cup WithAttribute(i) ELSE {})

\* Somebody edits the file: an element or its data, one of its attributes.
Edit ==
  /\ phase = "xml" /\ edit = None
  /\ Len(reader.revs[reader.rev]) = 1 /\ ObjectsIn(lines) <= MaxEdited
  /\ \E i \in {i \in DOMAIN events : events[i].t # "end" /\ events[i] # Space} :
       \E edited \in Edits(i) \ {events} :
         /\ events' = edited
         /\ edit' = [at |-> i, original |-> events]
  /\ UNCHANGED <<world, lines, reader, phase, copy>>

\* The file can be read without the symbols and pixmaps it refers to.
LoadXml ==
  /\ phase = "xml"
  /\ \E w \in Worlds :
       /\ world.load \/ w = world
       /\ world' = w
       /\ copy' = ReadXmlFile(events, w)
  /\ phase' = "loaded"
  /\ UNCHANGED <<lines, reader, events, edit>>

Next == ReadNext \/ EndOfFile \/ SavePlain \/ SaveXml \/ Edit \/ LoadXml
Spec == Init /\ [][Next]_vars

-------------------------------------------------------------------------------

Top(s) == IF "rev" \in DOMAIN s THEN s.rev ELSE 1
Meaning(s) == Contents(s, Top(s), Depth)

\* A file without comments and empty attribute lists.  Whether texts are visible
\* is left out as attached attributes determine this for inherited ones.
Canonical(ls) ==
  LET Shown(l) == IF l.kind = "object" /\ l.text # None THEN [l EXCEPT !.text.visible = TRUE]
                                                         ELSE l
      kept == SelectSeq(ls, LAMBDA l : l.kind \notin {"comment", "version"})
      Empty(i) == \/ kept[i].kind = "{" /\ kept[i + 1].kind = "}"
                  \/ kept[i].kind = "}" /\ kept[i - 1].kind = "{"
  IN [i \in DOMAIN SelectSeq([i \in DOMAIN kept |-> i], LAMBDA i : ~Empty(i)) |->
        Shown(kept[SelectSeq([j \in DOMAIN kept |-> j], LAMBDA j : ~Empty(j))[i]])]

\* Symbols in embedded symbols, which are embedded too.
Nested(s) == \E y \in EmbeddedIn(s, Top(s)) :
               s.symbols[y].prim_objs # None /\ EmbeddedIn(s, s.symbols[y].prim_objs) # {}

\* Every line has been taken for what it is: what would be written for the objects
\* read are these lines.  Just a list or symbol which starts right behind a `[' isn't
\* attached to anything, but crashes the reader (plainread.read_file).
LinesFaithful ==
  /\ phase = "read" /\ ~reader.failed /\ reader.object_lists_save = << >> /\ ~Nested(reader)
       => Canonical(WritePlainFile(reader, reader.rev)) = Canonical(lines)
  /\ reader.crashed => lines[Len(lines) - 1].kind = "["

EmbeddedPictures ==
  {i \in DOMAIN reader.revs[reader.rev] :
     LET o == reader.revs[reader.rev][i]
     IN o.type = "picture" /\ reader.pixmaps[o.ref].embedded}

Identifying(es) == {i \in DOMAIN es : es[i].t = "start" /\ "id" \in DOMAIN es[i].attributes}

\* Symbols whose contents refer to symbols or pixmaps.
Deep(s) == \E r \in DOMAIN s.revs \ {Top(s)} : \E o \in ToSet(s.revs[r]) : o.ref # None

\* Converting a schematic keeps what it means: objects, what is attached to them, and
\* which symbols and pixmaps they share (plainwrite.write_file, xmlwrite.write_file
\* and the readers).  Ids may be used twice if symbols refer to symbols or pixmaps;
\* then the file can't be read again.
Converted ==
  /\ phase = "plain" /\ ~Nested(reader) => ~copy.failed /\ Meaning(copy) = Meaning(reader)
  /\ phase = "raised" => Nested(reader)
  /\ phase = "loaded" /\ edit = None =>
       IF copy.failed THEN world.library = "ambiguous" \/ Deep(reader)
       ELSE \/ Meaning(copy) = Meaning(reader)
            \/ ~world.load /\ \E pixmap \in ToSet(reader.pixmaps) : pixmap.embedded

\* Embedded pictures stay what they are: command/convert.py omits referenced
\* pixmaps.
EmbeddedKept ==
  phase = "loaded" /\ edit = None /\ ~copy.failed =>
    \A i \in EmbeddedPictures :
      copy.pixmaps[copy.revs[1][i].ref] = reader.pixmaps[reader.revs[reader.rev][i].ref]

\* Parts of an XML file which needn't be used: those of a symbol or pixmap which has
\* been found outside of it, and the list of features.
Unused(i) ==
  \/ i = 1
  \/ \E j \in Identifying(edit.original) :
       LET e == edit.original[j]
       IN /\ e.attributes["mode"] = <<"referenced">>
          /\ i > j
          /\ \A k \in j..i : Cardinality({l \in j..k : edit.original[l].t = "start"})
                               > Cardinality({l \in j..k : edit.original[l].t = "end"})
          /\ world.load /\ IF e.name = "symbol" THEN world.library = "found" ELSE world.readable

\* A reader of XML files doesn't ignore anything: if an element, an attribute or data
\* is changed, added, repeated or removed, then this is an error or changes what has
\* been read (xmlread.read_xml_file and its handlers).
NothingIgnored ==
  phase = "loaded" /\ edit # None /\ ~copy.failed =>
    LET unedited == ReadXmlFile(edit.original, world)
    IN unedited.failed \/ Unused(edit.at) \/ Meaning(copy) # Meaning(unedited)
=============================================================================
