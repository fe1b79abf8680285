----------------------------- MODULE MCStorage -----------------------------
(* Small instances of the storage library for TLC. *)
EXTENDS StorageRefinement, StorageQueries, TLC

\* Two kinds of net, text, and something which neither holds nor is attached
\* and has two ways of writing the same data.
FullValidData == {<<"net", "plain">>, <<"net", "other">>, <<"text", "plain">>,
                  <<"line", "plain">>, <<"line", "other">>}

\* Just what it takes to attach one object to another.
TreeValidData == {<<"net", "plain">>, <<"text", "plain">>}

MCNormal == [v \in Value |->
               IF v = <<"line", "other">> THEN "plain" ELSE v[2]]

\* An attribute of nets and texts; the value is not valid for a text.
MCSetters == {[v \in {"net", "text"} \X {"plain", "other"} |-> "other"]}

Symmetry == Permutations(Rev) \cup Permutations(Addr)
=============================================================================
