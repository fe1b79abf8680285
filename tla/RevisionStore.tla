--------------------------- MODULE RevisionStore ---------------------------
(***************************************************************************)
(* What the storage library promises (xorn/storage.h and the comments on   *)
(* its functions): each revision is a value of its own, every call takes   *)
(* effect in one step or not at all, and the objects attached to an object *)
(* follow it.  There are no addresses, reference counts or parent pointers *)
(* here, and running out of memory is no event: such a call never happens. *)
(***************************************************************************)
EXTENDS Integers, Sequences, FiniteSets, SequencesExt

CONSTANTS Rev, MaxObject, Text, Holders, ValidData, Normal, Setters, None

NULL == 0
Object == 1..MaxObject
Node == 0..MaxObject

VARIABLES live, is_transient, content, handles

vars == <<live, is_transient, content, handles>>

\* What a revision holds: object data, and the order of objects below a node.
Empty == [value |-> [ob \in Object |-> None], children |-> [n \in Node |-> <<>>]]

Exists(c, ob) == c.value[ob] # None
AttachedTo(c, n) == ToSet(c.children[n])
IsAttached(c, ob) == \E n \in Object : ob \in AttachedTo(c, n)

Init ==
  /\ live = {} /\ handles = {}
  /\ is_transient = [r \in Rev |-> FALSE]
  /\ content = [r \in Rev |-> Empty]

-----------------------------------------------------------------------------

New(r, initial) ==
  /\ r \notin live
  /\ live' = live \cup {r}
  /\ is_transient' = [is_transient EXCEPT ![r] = TRUE]
  /\ content' = [content EXCEPT ![r] = initial]
  /\ UNCHANGED handles

Finalize(r) ==
  /\ r \in live
  /\ is_transient' = [is_transient EXCEPT ![r] = FALSE]
  /\ UNCHANGED <<live, content, handles>>

Free(r) ==
  /\ r \in live
  /\ live' = live \ {r}
  /\ is_transient' = [is_transient EXCEPT ![r] = FALSE]
  /\ content' = [content EXCEPT ![r] = Empty]
  /\ UNCHANGED handles

\* All the other calls change the content of one transient revision.
Becomes(r, c) ==
  /\ r \in live /\ is_transient[r]
  /\ content' = [content EXCEPT ![r] = c]
  /\ UNCHANGED <<live, is_transient>>

\* Data is stored in its normal form.
Stored(v) == <<v[1], Normal[v]>>

\* Give an object data; if it isn't there yet, it is put at the end.
WithObject(c, ob, v) ==
  [value |-> [c.value EXCEPT ![ob] = Stored(v)],
   children |-> IF Exists(c, ob) THEN c.children
                ELSE [c.children EXCEPT ![NULL] = Append(@, ob)]]

Add(r, v) == \E ob \in Object \ handles :
  /\ Becomes(r, WithObject(content[r], ob, v))
  /\ handles' = handles \cup {ob}

Set(r, ob, v) ==
  /\ AttachedTo(content[r], ob) # {} => v[1] \in Holders
  /\ IsAttached(content[r], ob) => v[1] = Text
  /\ Becomes(r, WithObject(content[r], ob, v))
  /\ UNCHANGED handles

\* The elements of a list which are not in the set `gone', in their order.
Without(s, gone) ==
  LET kept == {i \in DOMAIN s : s[i] \notin gone}
      nth(k) == CHOOSE i \in kept : Cardinality({j \in kept : j <= i}) = k
  IN [k \in 1..Cardinality(kept) |-> s[nth(k)]]

\* Take ob out of the list it is in, then insert it below `to', before the
\* object `before' or at the end.  Before itself means where it is.
Put(s, ob, before) ==
  IF before = NULL THEN Append(s, ob)
  ELSE InsertAt(s, CHOOSE i \in DOMAIN s : s[i] = before, ob)

Moved(c, ob, to, before) ==
  LET without == [n \in Node |-> Without(c.children[n], {ob})]
  IN IF before = ob THEN c
     ELSE [c EXCEPT !.children = [without EXCEPT ![to] = Put(@, ob, before)]]

Relocate(r, ob, to, before) ==
  LET c == content[r] IN
  /\ Exists(c, ob)
  /\ to # NULL => /\ Exists(c, to) /\ c.value[ob][1] = Text
                  /\ c.value[to][1] \in Holders
  /\ before # NULL => before \in AttachedTo(c, to)
  /\ Becomes(r, Moved(c, ob, to, before))
  /\ UNCHANGED handles

\* Objects which are not there are ignored; the others keep their order.
Deleted(c, S) ==
  LET gone == S \cup UNION {AttachedTo(c, ob) : ob \in S}
  IN [value |-> [ob \in Object |-> IF ob \in gone THEN None ELSE c.value[ob]],
      children |-> [n \in Node |-> IF n \in gone THEN <<>>
                                   ELSE Without(c.children[n], gone)]]

Delete(r, S) ==
  /\ Becomes(r, Deleted(content[r], S))
  /\ UNCHANGED handles

\* The objects in S are copied to the end of the object list, in any order;
\* what is attached to one of them is copied with it, and in its order.  An
\* object which is in S and attached to another one in S is copied twice.
Copies(c, S) == {x \in S \X Object : x[2] = x[1] \/ x[2] \in AttachedTo(c, x[1])}

WithCopies(dst, src, order, new) ==
  LET tops == [i \in DOMAIN order |-> new[<<order[i], order[i]>>]]
      copied(n) == \E x \in DOMAIN new : new[x] = n
      origin(n) == CHOOSE x \in DOMAIN new : new[x] = n
  IN [value |-> [n \in Object |-> IF copied(n) THEN src.value[origin(n)[2]]
                                  ELSE dst.value[n]],
      children |-> [n \in Node |->
        IF n = NULL THEN dst.children[n] \o tops
        ELSE IF copied(n) /\ origin(n)[1] = origin(n)[2]
        THEN LET top == origin(n)[1]
             IN [i \in DOMAIN src.children[top] |-> new[<<top, src.children[top][i]>>]]
        ELSE dst.children[n]]]

CopyObjects(r, from, S) ==
  LET src == content[from]
      found == {ob \in S : Exists(src, ob)}
  IN /\ from \in live
     /\ \E new \in [Copies(src, found) -> Object \ handles] :
          /\ IsInjective(new)
          /\ \E order \in SetToSeqs(found) :
               Becomes(r, WithCopies(content[r], src, order, new))
          /\ handles' = handles \cup {new[x] : x \in DOMAIN new}

\* Change the data of those objects for which the result makes sense.
SetAttr(r, S, f) ==
  LET c == content[r]
      fits(ob) == /\ ob \in S /\ Exists(c, ob) /\ c.value[ob] \in DOMAIN f
                  /\ <<c.value[ob][1], f[c.value[ob]]>> \in ValidData
  IN /\ Becomes(r, [c EXCEPT !.value = [ob \in Object |->
                      IF fits(ob) THEN Stored(<<@[ob][1], f[@[ob]]>>) ELSE @[ob]]])
     /\ UNCHANGED handles

-----------------------------------------------------------------------------

Next ==
  \E r \in Rev :
    \/ New(r, Empty)
    \/ \E from \in live : New(r, content[from])
    \/ Finalize(r)
    \/ Free(r)
    \/ \E v \in ValidData : Add(r, v)
    \/ \E ob \in handles, v \in ValidData : Set(r, ob, v)
    \/ \E ob \in handles, to, before \in handles \cup {NULL} : Relocate(r, ob, to, before)
    \/ \E S \in SUBSET handles : Delete(r, S)
    \/ \E from \in Rev, S \in SUBSET handles : CopyObjects(r, from, S)
    \/ \E S \in SUBSET handles, f \in Setters : SetAttr(r, S, f)

Spec == Init /\ [][Next]_vars
=============================================================================
