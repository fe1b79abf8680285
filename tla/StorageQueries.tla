--------------------------- MODULE StorageQueries ---------------------------
(* The functions which read revisions (object.cc), and what they rely on.   *)
EXTENDS Storage

\* An object's siblings are counted from zero.
xorn_get_object_location(r, ob) ==
  [attached_to |-> parent[r][ob],
   position |-> Find(children[r][parent[r][ob]], ob) - 1]

\* dump_children: each object is followed by the objects attached to it.  One
\* level of recursion is all there is (AttachmentsTyped).
dump_children(r, n) ==
  FlattenSeq([i \in DOMAIN children[r][n] |->
                <<children[r][n][i]>> \o children[r][children[r][n][i]]])

xorn_get_objects(r) == dump_children(r, NULL)

-----------------------------------------------------------------------------

\* A list without one of its elements, if it is there.
Others(s, ob) == IF ob \in ToSet(s) THEN RemoveAt(s, Find(s, ob)) ELSE s

\* The array for xorn_get_objects is allocated for as many objects as there are
\* object states, and filled by walking the tree (object.cc:149): the walk must
\* meet each of them, once, or it writes past the end or returns garbage.
ListingFits ==
  \A r \in live :
    LET list == xorn_get_objects(r)
    IN /\ Len(list) = Cardinality({ob \in Object : Exists(r, ob)})
       /\ ToSet(list) = {ob \in Object : Exists(r, ob)}

\* The location which xorn_get_object_location returns between two calls is
\* good for going back: wherever xorn_relocate_object has moved an object,
\* moving it before the sibling which then is at the position it had restores
\* the order of all objects.
RelocationReversible ==
  \A r \in live, ob \in handles, to, before \in handles \cup {NULL} :
    call = Idle /\ CanRelocate(r, ob, to, before) =>
      LET was == xorn_get_object_location(r, ob)
          moved == Relocated(children[r], was.attached_to, to, ob, before)
          siblings == Others(moved[was.attached_to], ob)
          successor == IF was.position < Len(siblings)
                       THEN siblings[was.position + 1] ELSE NULL
      IN Relocated(moved, to, was.attached_to, ob, successor) = children[r]

\* What a program reads off a revision between two calls, the list of objects and
\* the place of each one, is what it needs in order to find and to restore all
\* of it, whatever calls have led there.
QueriesFit == ListingFits /\ RelocationReversible
=============================================================================
