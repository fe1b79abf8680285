------------------------------ MODULE Documents ------------------------------
(* Schematics and symbols as the readers of src/gaf make them and the writers *)
(* get them: revisions, their objects, and the symbols and pixmaps which      *)
(* these refer to.  Revisions, symbols and pixmaps are Python objects; here   *)
(* they have numbers.  What the data of an object is like doesn't matter      *)
(* here (see Conversions): there are pins, which stand for nets too, boxes,   *)
(* which stand for arcs, circles and lines too, components, pictures, texts   *)
(* and paths, with one coordinate.                                            *)
EXTENDS Integers, Sequences, FiniteSets, SequencesExt

CONSTANTS None,
          LibrarySymbol  \* the objects of a symbol in the component library

\* An object with nothing attached.  A text, or the text of a path, is
\* [name, value, visible].  The name is None unless it is an attribute; the value
\* is a sequence of words, line ends ("\n") and overbar marks ("\_").
Object(type, x, text, ref) ==
  [type |-> type, x |-> x, text |-> text, ref |-> ref, attached |-> << >>]

IsAttribute(o) == o.type = "text" /\ o.text.name # None

\* What a reader has made so far; `got' is what the last function returned.
Blank == [revs |-> << << >> >>, symbols |-> << >>, pixmaps |-> << >>,
          cache |-> << >>, got |-> None, failed |-> FALSE]

Error(s) == [s EXCEPT !.failed = TRUE]
Check(s, condition) == [s EXCEPT !.failed = @ \/ ~condition]

AddSymbol(s, name, prim_objs, embedded) ==
  [s EXCEPT !.symbols = Append(@, [name |-> name, prim_objs |-> prim_objs,
                                   embedded |-> embedded]),
            !.got = Len(s.symbols) + 1]

AddPixmap(s, name, data, embedded) ==
  [s EXCEPT !.pixmaps = Append(@, [name |-> name, data |-> data, embedded |-> embedded]),
            !.got = Len(s.pixmaps) + 1]

NewRevision(s, objects) == [s EXCEPT !.revs = Append(@, objects)]

Remembered(s, key) == [s EXCEPT !.cache = (key :> s.got) @@ @]

\* read.load_symbol looks a symbol up in the component library, if symbols are to
\* be loaded, and makes up an empty one for each name if it can't be loaded.
\* There is no need for that if the file has it, which is what None means.
load_symbol(s, world, basename, fallback_available) ==
  LET found == world.load /\ world.library = "found"
      key == <<IF found THEN "library" ELSE "referenced", basename>>
      expected == world.library = "missing" /\ fallback_available
      t == Check(s, found \/ expected \/ ~world.load)
  IN IF ~found /\ fallback_available THEN [t EXCEPT !.got = None]
     ELSE IF key \in DOMAIN s.cache THEN [t EXCEPT !.got = s.cache[key]]
     ELSE IF found
     THEN Remembered(AddSymbol(NewRevision(t, LibrarySymbol), basename,
                               Len(t.revs) + 1, FALSE), key)
     ELSE Remembered(AddSymbol(t, basename, None, FALSE), key)

\* read.load_pixmap: pixmaps are remembered even if they couldn't be read.
load_pixmap(s, world, filename, fallback_available) ==
  LET key == <<"pixmap", filename>>
      t == IF key \in DOMAIN s.cache THEN [s EXCEPT !.got = s.cache[key]]
           ELSE Remembered(AddPixmap(Check(s, ~world.load \/ world.readable
                                                          \/ fallback_available),
                                     filename,
                                     IF world.load /\ world.readable THEN "data" ELSE None,
                                     FALSE),
                           key)
  IN IF t.pixmaps[t.got].data = None /\ fallback_available THEN [t EXCEPT !.got = None] ELSE t

\* What a revision holds: its objects with the contents of their symbols, down to
\* a depth, and which of its objects share them.
RECURSIVE Contents(_, _, _)
Contents(s, r, depth) ==
  LET Symbol(y) ==
        [y EXCEPT !.prim_objs = IF @ = None \/ depth = 0 THEN << >>
                                ELSE Contents(s, @, depth - 1)]
      With(o) == {i \in DOMAIN s.revs[r] : /\ s.revs[r][i].type = o.type
                                           /\ s.revs[r][i].ref = o.ref}
  IN [i \in DOMAIN s.revs[r] |->
        LET o == s.revs[r][i]
        IN CASE o.ref = None -> o
             [] o.type = "component" ->
                  [o EXCEPT !.ref = [symbol |-> Symbol(s.symbols[@]), with |-> With(o)]]
             [] o.type = "picture" ->
                  [o EXCEPT !.ref = [pixmap |-> s.pixmaps[@], with |-> With(o)]]]

\* Embedded symbols of the objects of a revision.
EmbeddedIn(s, r) ==
  {o.ref : o \in {o \in ToSet(s.revs[r]) :
                    o.type = "component" /\ o.ref # None /\ s.symbols[o.ref].embedded}}
=============================================================================
