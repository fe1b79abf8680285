------------------------- MODULE StorageRefinement -------------------------
(* The storage library implements RevisionStore. *)
EXTENDS Storage

\* While a call is in progress, nobody can look at the revision it works on: it
\* counts as unchanged until the call returns.
VisibleContents ==
  [r \in Rev |-> IF r = call.dst THEN entry ELSE Contents(r)]

Store == INSTANCE RevisionStore WITH content <- VisibleContents

\* Every function of the library changes one revision, at once, to what its
\* description says, or leaves everything as it was: sharing of object states,
\* half-done copies and deletions, index arithmetic and undoing never show.
ImplementsStore == Store!Spec
=============================================================================
