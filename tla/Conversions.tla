------------------------------ MODULE Conversions ------------------------------
(* The life of a schematic object: its attributes are set, it is written to a *)
(* file and read again, in one format or the other, and when it is part of an *)
(* embedded symbol it is moved to the component for that and back.  Files may *)
(* be edited by hand between being written and being read, and Python         *)
(* programs get, change and set the data.                                     *)
EXTENDS XmlObjects, PythonData

CONSTANTS Samples,     \* objects to start with
          Values(_),   \* values which are tried for an attribute
          Origins,     \* positions of components with an embedded symbol
          HandWritten, \* numbers which people write into files
          HandNumbers, \* what they write for numbers in XML files
          MaxEdits     \* bound: attributes set, or edits made to a file

VARIABLES ob,      \* the object, as it is stored
          form,    \* where it is: "stored", in a "line", an "element" or a
                   \* Python "program", or "rejected" by the storage library
          file,    \* the line, element or Python object
          at,      \* the component it has been moved to, None if none
          orig,    \* what the object must be; None if it has been tampered with:
                   \* bound: it is followed no further than to the revision
          edits

vars == <<ob, form, file, at, orig, edits>>

Placements == {o @@ p : o \in Orientation, p \in Origins}

Init ==
  /\ ob \in Samples
  /\ form = "stored"
  /\ file = None
  /\ at = None
  /\ orig = ob
  /\ edits = 0

\* xornsch_set_...: an attribute of the object is set.
SetAttribute ==
  /\ form = "stored" /\ at = None /\ orig # None /\ edits < MaxEdits
  /\ \E a \in DOMAIN HaveIn : \E value \in Values(a) : ob' = set_attr(ob, a, value)
  /\ orig' = ob'
  /\ edits' = edits + 1
  /\ UNCHANGED <<form, file, at>>

\* plainwrite.write_object transforms the contents of an embedded symbol, and
\* plainread.read_file transforms them back when the file has been read.
Place ==
  /\ form = "stored" /\ at = None /\ orig # None
  /\ at' \in Placements
  /\ ob' = obstate(transform(ob, at'))
  /\ UNCHANGED <<form, file, orig, edits>>

TakeBack ==
  /\ form = "stored" /\ at # None /\ orig # None
  /\ at' = None
  /\ ob' = obstate(untransform(ob, at))
  /\ UNCHANGED <<form, file, orig, edits>>

WritePlain ==
  /\ form = "stored" /\ orig # None
  /\ form' = "line"
  /\ file' = write_object(ob, 0)
  /\ UNCHANGED <<ob, at, orig, edits>>

\* XML files hold the objects of an embedded symbol where they are.
WriteXml ==
  /\ form = "stored" /\ at = None /\ orig # None
  /\ form' = "element"
  /\ file' = ElementOf(ob)
  /\ UNCHANGED <<ob, at, orig, edits>>

\* Somebody writes another number into a line, or leaves out the last ones.
NumberColumns == DOMAIN file \ {"letter", "more", "basename", "num_lines"}
EditLine ==
  /\ form = "line" /\ at = None /\ edits < MaxEdits
  /\ \E column \in NumberColumns :
       \/ \E n \in HandWritten : file' = [file EXCEPT ![column] = n]
       \/ file' = Restrict(file, DOMAIN file \ {column})
  /\ orig' = None
  /\ edits' = edits + 1
  /\ UNCHANGED <<ob, form, at>>

\* Or writes something else for a number of an element, or removes an attribute.
Numeric == {"x", "y", "x0", "y0", "x1", "y1", "width", "height", "radius", "size",
            "startangle", "sweepangle", "angle", "linewidth", "dashlength", "dashspace",
            "fillwidth", "angle0", "pitch0", "angle1", "pitch1"}
EditElement ==
  /\ form = "element" /\ edits < MaxEdits
  /\ \E key \in DOMAIN file.attributes \ {"symbol", "pixmap", "name"} :
       \/ file' = [file EXCEPT !.attributes = Restrict(@, DOMAIN @ \ {key})]
       \/ /\ key \in Numeric
          /\ \E s \in HandNumbers : file' = [file EXCEPT !.attributes[key] = s]
  /\ orig' = None
  /\ edits' = edits + 1
  /\ UNCHANGED <<ob, form, at>>

\* The data which has been read is given to rev.add_object.
Added(data) ==
  IF data_is_valid(data) THEN form' = "stored" /\ ob' = obstate(data)
                         ELSE form' = "rejected" /\ ob' = ob

\* The line may be in a file of any version; an object read from an older one
\* has to do without some of its attributes.
ReadPlain ==
  /\ form = "line"
  /\ \E format \in FileFormat :
       LET data == ReadObject(file, format)
       IN /\ data # Failed
          /\ Added(data)
          /\ orig' = IF format = Len(Features) THEN orig ELSE None
  /\ file' = None
  /\ UNCHANGED <<at, edits>>

ReadXml ==
  /\ form = "element"
  /\ Added(ReadElement(file))
  /\ file' = None
  /\ UNCHANGED <<at, orig, edits>>

\* A program gets the data, or makes new data from all its members but one.
GetData ==
  /\ form = "stored" /\ at = None /\ orig # None
  /\ form' = "program"
  /\ file' = construct(ob)
  /\ UNCHANGED <<ob, at, orig, edits>>

MakeData ==
  /\ form = "program" /\ edits < MaxEdits
  /\ \E left_out \in DOMAIN Members(ob.type) \ {"symbol", "pixmap"} :
       file' = init(ob.type, [m \in DOMAIN Members(ob.type) \ {left_out} |-> GetMember(file, m)])
  /\ edits' = edits + 1
  /\ UNCHANGED <<ob, form, at, orig>>

\* It assigns to a member, which may be an object of its own.
ChangeData ==
  /\ form = "program" /\ edits < MaxEdits
  /\ \E member \in DOMAIN Members(ob.type) \ {"symbol", "pixmap"} :
       \E value \in Values(Members(ob.type)[member]) :
         file' = SetMember(file, member, value)
  /\ edits' = edits + 1
  /\ UNCHANGED <<ob, form, at, orig>>

\* What the program sees in the members of its object.
Seen(p) == [f \in Fields(p.data.type) |->
  IF f = "type" THEN p.data.type
  ELSE GetMember(p, CHOOSE m \in DOMAIN Members(p.data.type) :
                      f \in DOMAIN GetMember(p, m))[f]]

\* rev.set_object_data raises ValueError if the data isn't valid.
SetData ==
  /\ form = "program"
  /\ form' = "stored"
  /\ file' = None
  /\ LET valid == data_is_valid(prepare(file))
     IN /\ ob' = IF valid THEN obstate(prepare(file)) ELSE ob
        /\ orig' = IF valid THEN obstate(Seen(file)) ELSE orig
  /\ UNCHANGED <<at, edits>>

Next ==
  \/ GetData \/ MakeData \/ ChangeData \/ SetData
  \/ SetAttribute \/ Place \/ TakeBack
  \/ WritePlain \/ EditLine \/ ReadPlain
  \/ WriteXml \/ EditElement \/ ReadXml

Spec == Init /\ [][Next]_vars

-----------------------------------------------------------------------------

\* An object in a revision has exactly the fields of its type, and is valid and
\* normalized, wherever it comes from (obstate.cc:94, validate.cc:67): objects
\* which are equal are found to be equal by comparing bytes.
StoredForm == form = "stored" => DOMAIN ob = Fields(ob.type) /\ Stored(ob)

\* No sequence of writing, reading, moving into and out of symbols, and setting
\* the data got changes an object, and what a program sees in its data is what
\* it sets: what one format leaves out because it is the default or isn't used,
\* its reader puts back, and what is clamped on reading is nothing that
\* is ever written.  (Moving an arc reduces its start angle to one turn.)
Reduced(o) == IF o.type = "arc" THEN [o EXCEPT !.startangle = @ % 360] ELSE o
Preserved ==
  form = "stored" /\ at = None /\ orig # None => Reduced(ob) = Reduced(orig)

\* The columns a reader doesn't look at twice.
Unchecked(o) ==
  \/ o.type \in WithLine /\ ~line_is_valid(o)
  \/ o.type \in WithFill /\ ~fill_is_valid(o)
  \/ o.type = "text" /\ (o.text_size < 0 \/ o.show_name_value \notin 0 .. 2)

\* No reader minds a negative one in an XML file.
Lengths == {"radius", "text_size", "line_width", "line_dash_length", "line_dash_space",
            "fill_width", "fill_pitch0", "fill_pitch1"}
WithoutSigns(o) == [f \in DOMAIN o |-> IF f \in Lengths THEN Magnitude(o[f]) ELSE o[f]]

\* Whatever a line says, and whichever version the file has: data read from it
\* is fit for the revision (plainread.py replaces bad colours, angles, flags,
\* radiuses and alignments) unless its style, text size or show flags are bad;
\* and it is in the form the storage library would give it.  Whatever an element
\* says, only lengths below zero can be wrong with the data made from it.
ReadersRepair ==
  /\ form = "line" =>
       \A format \in FileFormat :
         LET data == ReadObject(file, format)
         IN data = Failed \/ /\ Unchecked(data) \/ data_is_valid(data)
                             /\ data.type \in WithLine => obstate(data) = data
  /\ form = "element" =>
       LET data == ReadElement(file)
       IN /\ data_is_valid(WithoutSigns(data))
          /\ data.type \in WithLine => obstate(data) = data

\* Setting an attribute on several objects leaves all of those which have it
\* with this value, so that it is got back and they are selected by it, but for
\* those for which it is invalid or which have no use for it in their style.
SetIsGot ==
  form = "stored" /\ edits = 0 /\ at = None =>
    \A other \in Samples, a \in DOMAIN HaveIn :
      \A value \in Values(a) :
        LET rev == <<set_attr(ob, a, value), set_attr(other, a, value)>>
            Takes(o) == /\ o.type \in HaveIn[a]
                        /\ data_is_valid(value @@ o)
                        /\ obstate(value @@ o) = value @@ o
        IN Takes(ob) /\ Takes(other) =>
             /\ get_attr({rev[1], rev[2]}, a) = <<"consistent", value>>
             /\ select_by_attr(rev, a, value) = {1, 2}

\* A component in a component: moving an object with the inner one and then
\* with the outer one is moving it with the inner one moved with the outer one.
\* (Text which ends up upside-down is turned around by mirroring only once.)
Composed ==
  form = "stored" /\ at = None /\ ob.type # "text" =>
    \A inner, outer \in Placements :
      LET component == [type |-> "component"] @@ inner
      IN transform(transform(ob, inner), outer) = transform(ob, transform(component, outer))

\* The ripper direction doesn't depend on which end of the bus comes first, and
\* changes its sign when everything is turned by 180 degrees around any point.
RipperTurned ==
  form = "stored" /\ ob.type = "net" /\ edits = 0 /\ at = None =>
  \A angle \in {0, 90, 180, 270}, x, y \in -2 .. 2, length \in -2 .. 2 :
    \A size \in {<<length, 0>>, <<0, length>>} :
      LET ripper == [pos_x |-> x, pos_y |-> y, angle |-> angle]
          bus == [pos_x |-> 0, pos_y |-> 0, size_x |-> size[1], size_y |-> size[2]]
          reversed == [pos_x |-> size[1], pos_y |-> size[2],
                       size_x |-> -size[1], size_y |-> -size[2]]
          turned == [pos_x |-> -x, pos_y |-> -y, angle |-> (angle + 180) % 360]
          Direction(b, r) == bus_ripper_direction(b, {r}, 1)
      IN /\ Direction(bus, ripper) = Direction(reversed, ripper)
         /\ Direction(bus, ripper) =
              -Direction([bus EXCEPT !.size_x = -@, !.size_y = -@], turned)

\* Positions, angles and mirror flags mean the same wherever they are used: in
\* transform, for components in components, and in the ripper direction.
PlacementsAgree == Composed /\ RipperTurned

\* What doesn't depend on the object is looked at in one initial state.
Once == form = "stored" /\ edits = 0 /\ at = None /\ ob = CHOOSE o \in Samples : TRUE

Texts(chars, length) == UNION {[1 .. n -> chars] : n \in 0 .. length}

\* A number comes back as it was, from a file with hybrid numbers to the last
\* bit; and what isn't a hybrid number means the same with and without them.
NumbersExact ==
  Once =>
    /\ \A x \in -2100 .. 2100, digits \in {0, 3} :
         fixednum_parse(fixednum_format(x, digits), digits) = x
    /\ \A n \in -3 .. 3, m \in {0, 10, 1000}, f \in -16 .. 16, digits \in {0, 1, 3} :
         LET x == 16 * n * m + f
         IN hybridnum_parse(hybridnum_format(x, digits), digits) = x
    /\ \A s \in Texts({"-", ".", "0", "7"}, 5) :
         LET x == fixednum_parse(s, 3)
         IN hybridnum_parse(s, 3) = IF x = Invalid THEN Invalid ELSE 16 * x

\* Binary data comes back as it was, in lines no longer than asked for and none
\* of them empty; and there is only one way to write it, so that nothing can be
\* hidden in what is skipped at the end (base64.py:203).
Base64Exact ==
  Once =>
    /\ \A src \in Texts({0, 77, 255}, 6), columns \in {4, 8} :
         LET text == encode(src, columns)
             lines == Split(text, NewLine)
         IN /\ decode(text) = src
            /\ \A i \in DOMAIN lines : /\ Len(lines[i]) <= columns
                                       /\ lines[i] = << >> => i = Len(lines)
    /\ \A text \in Texts({0, 1, 16, 63, PAD64}, 5) :
         decode(text) # Invalid => Without(encode(decode(text), 72), NewLine) = text

\* What a text means: its characters, and whether there is an overbar above.
Meaning(text) ==
  FoldLeft(LAMBDA m, c :
             IF m.escaped
             THEN IF c = "_" THEN [m EXCEPT !.escaped = FALSE, !.over = ~@]
                  ELSE [m EXCEPT !.escaped = FALSE, !.shown = Append(@, <<c, m.over>>)]
             ELSE IF c = "\\" THEN [m EXCEPT !.escaped = TRUE]
                  ELSE [m EXCEPT !.shown = Append(@, <<c, m.over>>)],
           [escaped |-> FALSE, over |-> FALSE, shown |-> << >>], text).shown

\* An XML file keeps what a text means, however many backslashes there are, but
\* for an escaped one before an underscore: this is taken for an overbar.
OverbarsKept ==
  Once =>
    \A text \in Texts({"a", "_", "\\", "\n"}, 5) :
      (\E i \in 3 .. Len(text) :
         /\ text[i] = "_"
         /\ \E k \in {2, 4} : /\ k < i /\ \A j \in i - k .. i - 1 : text[j] = "\\"
                             /\ i - k > 1 => text[i - k - 1] # "\\")
      \/ Meaning(ReadText(WrittenText(text))) = Meaning(text)

\* Numbers, binary data and text survive being written, whatever is in them.
FormatsExact == NumbersExact /\ Base64Exact /\ OverbarsKept
=============================================================================
