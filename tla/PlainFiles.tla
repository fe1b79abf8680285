------------------------------ MODULE PlainFiles ------------------------------
(* plainread.read_file and plainwrite.write_file: how the lines of a file make *)
(* up objects with attributes and embedded symbols.  A line stands for all     *)
(* lines of an object.                                                         *)
EXTENDS Documents

Line(kind) == [kind |-> kind]
ObjectLine(o, name, embedded) ==
  [kind |-> "object", type |-> o.type, x |-> o.x, text |-> o.text,
   name |-> name, embedded |-> embedded]

\* The variables of read_file.  `ob' is the last object read, in `rev'; while
\* `attaching', the inner loop reads an attribute list.
PlainReader ==
  Blank @@ [rev |-> 1, ob |-> None, object_lists_save |-> << >>, attaching |-> FALSE,
            enhanced_pinbus_format |-> FALSE, crashed |-> FALSE]

LastObject(s) == s.revs[s.rev][s.ob.index]
HasObject(s) == s.ob # None /\ s.ob.rev = s.rev

add_object(s, o) ==
  [s EXCEPT !.revs[s.rev] = Append(@, o),
            !.ob = [rev |-> s.rev, index |-> Len(s.revs[s.rev]) + 1]]

ReadObjectLine(s, world, line) ==
  LET t == CASE line.type = "component" ->
                  IF line.embedded THEN AddSymbol(s, line.name, None, TRUE)
                                   ELSE load_symbol(s, world, line.name, FALSE)
             [] line.type = "picture" ->
                  IF line.embedded THEN AddPixmap(s, line.name, "data", TRUE)
                                   ELSE load_pixmap(s, world, line.name, FALSE)
             [] OTHER -> [s EXCEPT !.got = None]
  IN add_object(t, Object(line.type, line.x, line.text, t.got))

StartAttach(s) ==
  IF s.ob = None THEN Error(s)
  ELSE IF ~HasObject(s) THEN [s EXCEPT !.crashed = TRUE]
  ELSE IF LastObject(s).type \notin {"pin", "component"} THEN Error(s)
  ELSE [s EXCEPT !.attaching = TRUE]

EndAttach(s) == [s EXCEPT !.attaching = FALSE, !.ob = None]

\* A line of an attribute list.
ReadAttribute(s, line) ==
  IF line.kind = "}" THEN EndAttach(s)
  ELSE IF line.kind = "object" /\ line.type = "text"
  THEN [s EXCEPT !.revs[s.rev][s.ob.index].attached =
                   Append(@, Object("text", line.x, line.text, None))]
  ELSE Error(s)

\* Note that `ob' isn't reset: it isn't in the new revision.
StartEmbedded(s) ==
  IF s.ob = None THEN Error(s)
  ELSE IF ~HasObject(s) THEN [s EXCEPT !.crashed = TRUE]
  ELSE IF LastObject(s).type # "component" THEN Error(s)
  ELSE LET symbol == s.symbols[LastObject(s).ref]
       IN IF ~symbol.embedded \/ symbol.prim_objs # None THEN Error(s)
          ELSE [NewRevision(s, << >>) EXCEPT
                  !.object_lists_save = Append(@, [rev |-> s.rev, ob |-> s.ob]),
                  !.rev = Len(s.revs) + 1,
                  !.symbols[LastObject(s).ref].prim_objs = Len(s.revs) + 1]

\* Mutant of EndEmbedded: just the revision is restored.
EndEmbeddedKept(s) ==
  IF s.object_lists_save = << >> THEN Error(s)
  ELSE [s EXCEPT !.rev = Last(s.object_lists_save).rev,
                 !.object_lists_save = Front(@)]

EndEmbedded(s) ==
  IF s.object_lists_save = << >> THEN Error(s)
  ELSE [s EXCEPT !.rev = Last(s.object_lists_save).rev,
                 !.ob = Last(s.object_lists_save).ob,
                 !.object_lists_save = Front(@)]

ReadLine(s, world, line) ==
  CASE s.attaching -> ReadAttribute(s, line)
    [] line.kind = "object" -> ReadObjectLine(s, world, line)
    [] line.kind = "{" -> StartAttach(s)
    [] line.kind = "[" -> StartEmbedded(s)
    [] line.kind = "]" -> EndEmbedded(s)
    [] line.kind = "comment" -> s
    [] line.kind = "version" -> [s EXCEPT !.enhanced_pinbus_format = line.new]
    [] OTHER -> Error(s)     \* "}", and what can't be parsed

\* plainformat.transform and untransform.  Paths aren't supported.
Moved(o, by) ==
  [o EXCEPT !.x = IF o.type = "path" THEN @ ELSE @ + by,
            !.attached = [i \in DOMAIN @ |-> [@[i] EXCEPT !.x = @ + by]]]

\* The visibility which attached attributes give to inherited ones with their name.
Unhidden(o, attached) ==
  LET overriding == SelectSeq(attached, LAMBDA a : IsAttribute(a) /\ a.text.name = o.text.name)
  IN IF IsAttribute(o) /\ overriding # << >>
     THEN [o EXCEPT !.text.visible = Last(overriding).text.visible] ELSE o

\* After the last line: the contents of the embedded symbol of a component are
\* moved back, and its attributes un-hidden.
FinishComponent(s, o) ==
  IF o.type # "component" \/ ~s.symbols[o.ref].embedded THEN s
  ELSE LET prim_objs == s.symbols[o.ref].prim_objs
       IN IF prim_objs = None THEN Error(s)
          ELSE [s EXCEPT !.revs[prim_objs] =
                  [i \in DOMAIN @ |-> Unhidden(Moved(@[i], -o.x), o.attached)]]

FinishPlain(s) ==
  LET t == FoldLeft(FinishComponent, Check(s, ~s.attaching), s.revs[s.rev])
  IN Check(t, t.enhanced_pinbus_format \/ \A o \in ToSet(t.revs[t.rev]) : o.type # "pin")

ReadPlainFile(lines, world) ==
  FinishPlain(FoldLeft(LAMBDA s, line : ReadLine(s, world, line), PlainReader, lines))

\* plainwrite.write_object.  The contents of an embedded symbol are moved to
\* where the component is.
RECURSIVE WriteObjects(_, _, _)
WriteObjects(s, r, by) ==
  LET Contained(o) == IF s.symbols[o.ref].prim_objs = None THEN << >>
                      ELSE WriteObjects(s, s.symbols[o.ref].prim_objs, o.x)
      Name(o) == CASE o.ref = None -> None
                   [] o.type = "component" -> s.symbols[o.ref].name
                   [] o.type = "picture" -> s.pixmaps[o.ref].name
      Embedded(o) == CASE o.ref = None -> FALSE
                       [] o.type = "component" -> s.symbols[o.ref].embedded
                       [] o.type = "picture" -> s.pixmaps[o.ref].embedded
      Written(o) ==
        <<ObjectLine(o, Name(o), Embedded(o))>>
        \o (IF o.type = "component" /\ Embedded(o)
            THEN <<Line("[")>> \o Contained(o) \o <<Line("]")>> ELSE << >>)
        \o (IF o.attached = << >> THEN << >>
            ELSE <<Line("{")>> \o [i \in DOMAIN o.attached |->
                                     ObjectLine(o.attached[i], None, FALSE)]
                               \o <<Line("}")>>)
  IN FlattenSeq([i \in DOMAIN s.revs[r] |-> Written(Moved(s.revs[r][i], by))])

WritePlainFile(s, r) ==
  <<[kind |-> "version", new |-> TRUE]>> \o WriteObjects(s, r, 0)
=============================================================================
