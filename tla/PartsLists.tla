------------------------------ MODULE PartsLists ------------------------------
(***************************************************************************)
(* src/backend/partslist_common.py, gnet_partslist3.py and gnet_bom2.py:   *)
(* how rows are sorted by several columns, and equal ones put together.  A *)
(* row has a package and its attributes; what strings are once they have   *)
(* been put into lower case is known as their rank.                        *)
(***************************************************************************)
EXTENDS Naturals, Sequences, FiniteSets, SequencesExt

CONSTANT Rank(_, _)     \* per column, the rank of what is in it

(* Rows which are equal keep their order.                                  *)
marge_sort(ls, key_column) ==
  LET Before(i, j) ==
        \/ Rank(key_column, ls[i][key_column]) < Rank(key_column, ls[j][key_column])
        \/ Rank(key_column, ls[i][key_column]) = Rank(key_column, ls[j][key_column]) /\ i < j
      order == SetToSortSeq(DOMAIN ls, Before)
  IN [i \in DOMAIN ls |-> ls[order[i]]]

(* How many rows there are up to the last one which is like the first one. *)
MatchLength(ls, Like(_)) ==
  CHOOSE k \in DOMAIN ls : Like(ls[k]) /\ \A j \in DOMAIN ls : j > k => ~Like(ls[j])

RECURSIVE marge_sort_with_multikey(_, _)
marge_sort_with_multikey(ls, key_columns) ==
  IF Len(ls) <= 1 \/ key_columns = <<>> THEN ls
  ELSE LET key_column == Head(key_columns)
           sorted == marge_sort(ls, key_column)
           match == MatchLength(sorted, LAMBDA x : x[key_column] = sorted[1][key_column])
       IN marge_sort_with_multikey(Reverse(SubSeq(sorted, 1, match)), Tail(key_columns))
            \o marge_sort_with_multikey(SubSeq(sorted, match + 1, Len(sorted)), key_columns)

RECURSIVE count_same_parts(_)
count_same_parts(ls) ==
  IF ls = <<>> THEN <<>>
  ELSE LET match == MatchLength(ls, LAMBDA x : Tail(x) = Tail(ls[1]))
       IN <<[urefs |-> [i \in 1..match |-> ls[i][1]], part |-> Tail(ls[1]), quantity |-> match]>>
            \o count_same_parts(SubSeq(ls, match + 1, Len(ls)))

(* gnet_bom2 looks for an entry with the same attributes.                  *)
bomlist(ls) ==
  LET Add(entries, row) ==
        IF \E i \in DOMAIN entries : entries[i].attribs = Tail(row)
        THEN [i \in DOMAIN entries |->
                IF entries[i].attribs = Tail(row)
                THEN [entries[i] EXCEPT !.refdes_list = Append(@, row[1])] ELSE entries[i]]
        ELSE Append(entries, [refdes_list |-> <<row[1]>>, attribs |-> Tail(row)])
  IN Reverse(FoldLeft(Add, <<>>, ls))
===============================================================================
