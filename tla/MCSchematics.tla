----------------------------- MODULE MCSchematics -----------------------------
(* Small instances of Schematics.  In some, two schematics refer to each   *)
(* other and to a third one in all ways; in others, a component has pins   *)
(* with slots and net= attributes, next to a power symbol.                 *)
EXTENDS Schematics

Each(x) == [c \in Component |-> x]

Simple ==
  [toplevel |-> <<1>>, unreadable |-> {}, missing |-> {}, file |-> <<1, 1, 2, 3>>,
   source |-> Each(<<>>), graphical |-> {}, refdes |-> Each("name"),
   netname |-> Each(None), portname |-> Each(None), pins |-> Each(<<>>), slot |-> Each(None),
   slotdef |-> Each(<<>>), net |-> Each(<<>>)]

SourcesIn(toplevel, first, second, third, fourth) ==
  {[Simple EXCEPT !.toplevel = t, !.source = <<a, b, c, d>>] :
     t \in toplevel, a \in first, b \in second, c \in third, d \in fourth}

Circles ==
  LET references == {<<>>, <<1>>, <<2>>, <<3>>, <<3, 2>>}
  IN SourcesIn({<<1>>, <<1, 1>>, <<2, 1>>}, {<<2>>, <<2, 3>>, <<2, 2>>}, references, references,
               {<<>>, <<1>>, <<2>>})

(* Files which can't be found or read, and components of other kinds.      *)
Trouble ==
  {[i EXCEPT !.missing = m, !.unreadable = u, !.graphical = g,
             !.netname = [@ EXCEPT ![2] = p], !.portname = [@ EXCEPT ![3] = q],
             !.refdes = [@ EXCEPT ![2] = IF p = None THEN "name" ELSE None,
                                  ![3] = IF q = None THEN "name" ELSE None]] :
     i \in SourcesIn({<<1>>}, {<<2>>, <<2, 3>>}, {<<3>>}, {<<>>, <<3>>}, {<<>>, <<2>>}),
     m \in {{}, {3}}, u \in {{}, {2}, {3}}, g \in {{}, {1}, {3}},
     p \in {None, "name"}, q \in {None, "name"}}

Symbol(first, second) ==
  <<[pinnumber |-> first, pinseq |-> 1, net |-> <<0, 1>>],
    [pinnumber |-> second[1], pinseq |-> second[2], net |-> <<0, 2>>]>>

Symbols ==
  {Symbol("1", s) :
     s \in {<<"2", 2>>, <<"1", 2>>, <<"2", 1>>, <<"2", None>>, <<"3", Malformed>>}}
  \cup {Symbol(None, <<"2", 2>>), Symbol(None, <<"1", 2>>)}

Slotdefs ==
  {<<>>, <<[slot |-> 1, numbers |-> <<"1", "2">>], [slot |-> 2, numbers |-> <<"3", "1">>]>>,
   <<[slot |-> None, numbers |-> <<>>], [slot |-> 2, numbers |-> <<"2", "1">>]>>,
   <<[slot |-> 2, numbers |-> <<"2", "1", "3">>]>>, <<[slot |-> 2, numbers |-> <<>>]>>}

NetAttribSets ==
  LET at(name, numbers, inherited) == [name |-> name, numbers |-> numbers, inherited |-> inherited]
  IN {<<>>, <<at(None, <<>>, FALSE)>>, <<at("a", <<"3", "1">>, TRUE)>>,
      <<at("b", <<"3">>, FALSE), at("a", <<"3", "1">>, TRUE)>>,
      <<at("a", <<"3">>, TRUE), at("b", <<"1", "3">>, FALSE)>>,
      <<at("a", <<"1", "2">>, TRUE), at("b", <<"1">>, TRUE)>>}

Numbering ==
  {[Simple EXCEPT !.pins = <<symbol, <<[pinnumber |-> None, pinseq |-> None, net |-> <<0, n>>]>>,
                             <<>>, <<>>>>,
                  !.slotdef = [@ EXCEPT ![1] = slotdef], !.slot = [@ EXCEPT ![1] = slot],
                  !.net = [@ EXCEPT ![1] = net], !.refdes = <<refdes, None, "name", "name">>,
                  !.netname = [@ EXCEPT ![2] = IF n = 2 THEN "name" ELSE None],
                  !.portname = [@ EXCEPT ![2] = IF n = 2 THEN None ELSE "name"],
                  !.source = [@ EXCEPT ![1] = source]] :
     symbol \in Symbols, slotdef \in Slotdefs, slot \in {None, Malformed, 1, 2},
     net \in NetAttribSets,
     <<n, refdes, source>> \in {<<2, "name", <<>>>>, <<3, "name", <<>>>>, <<2, None, <<>>>>,
                               <<3, "name", <<2>>>>}}

MCInput == Circles \cup Trouble \cup Numbering
MCNet == {<<0, n>> : n \in 1..3}
=============================================================================
