-------------------------- MODULE MCComponentLibrary --------------------------
(* Small instances of ComponentLibrary.  Nothing is known of addresses but *)
(* whether they are equal.                                                 *)
EXTENDS ComponentLibrary

Symmetry == Permutations(Address)
=============================================================================
