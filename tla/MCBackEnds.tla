------------------------------ MODULE MCBackEnds ------------------------------
(* Small instances of Packages, which end when packages have been formed,  *)
(* and of BackEnds: a composite component on the first sheet, and a second *)
(* one below it or next to its subsheet.                                   *)
EXTENDS BackEnds

A == <<"A">>
B == <<"B">>
C == <<"C">>
D == <<"D">>
Plain == <<<<"n1">>, <<"n2">>, <<"n3">>, <<"n4">>, <<"n5">>, <<"n6">>>>
MCLabel == {A, B, C, D, <<"A", "C">>, <<"A", "c">>, <<"C?">>, <<"x_lines">>, <<"A", "x_lines">>,
            <<"A", "X_lines">>, <<"A", "x-lines">>} \cup {Plain[n] : n \in Net}

(* Which components are ports or may be taken for ports.                   *)
MCPortnames == {<<None, x, None, y, None, None>> : x, y \in {None, A, B}}

(* Composite components have a refdes.                                     *)
MCRefdes == {<<A, None, C, None, x, y>> : x \in {C, None}, y \in {<<"A", "C">>, C}}
            \cup {<<A, A, C, None, C, C>>, <<A, None, A, A, C, None>>}

(* Graphical components, pins which are buses, and the component the sixth *)
(* pin belongs to.                                                         *)
MCSpecial == {<<{}, {}, 4>>, <<{}, {}, 5>>, <<{4}, {}, 4>>, <<{}, {3}, 5>>}

MCPinlabels == {<<A, x, None, y, None, None, None>> : x \in {B, A}, y \in {A, None}}
MCLocalNets == {<<1, 2, 3, x, 5, y, z>> : x \in {3, 4}, y \in {5, 6}, z \in {1, 2}}

(* All local nets apart, or two on different sheets with the same name.    *)
MCNets == {<<1, 2, 3, 4, 5, 6>>, <<1, 2, 3, 2, 5, 6>>}

Schematics(d, special, portname, refdes, pinlabel, local_net, net) ==
  [sheet |-> <<1, 2, 2, 3, 3, 1>>, parent |-> <<None, 1, d>>,
   composite |-> {1, d}, graphical |-> special[1], bus |-> special[2],
   portname |-> portname, refdes |-> refdes,
   component |-> <<1, 1, 2, 3, 4, special[3], 6>>, pinlabel |-> pinlabel,
   local_net |-> local_net, net |-> net]

HierarchyInput ==
  {Schematics(d, special, portname, refdes, pinlabel, local_net, net) :
     d \in {1, 3}, special \in MCSpecial, portname \in MCPortnames, refdes \in MCRefdes,
     pinlabel \in MCPinlabels, local_net \in MCLocalNets, net \in MCNets}

(* The components 3, 5 and 6, which form one to three packages, are        *)
(* connected in various ways; 4 is a port or carries a directive.          *)
BackEndInput ==
  {Schematics(1, <<IF y = None THEN {4} ELSE {}, {}, 5>>, <<None, A, None, y, None, None>>,
              <<A, None, C, None, r[1], r[2]>>, <<A, B, None, None, None, None, None>>,
              local_net, net) :
     y \in {None, A},
     r \in {<<C, D>>, <<D, C>>, <<D, <<"A", "c">>>>, <<C, <<"C?">>>>},
     local_net \in {<<1, 2, 3, x, 5, 5, z>> : x \in {3, 4}, z \in {1, 2}}, net \in MCNets}

MCInput == HierarchyInput \cup BackEndInput

(* The first nets have names which may look like each other's when they    *)
(* are mangled or put into upper case, nets of a single pin have none.     *)
MCGiven(i) ==
  LET on(n) == {p \in Pin : i.net[i.local_net[p]] = n}
      at(n) == IF on(n) = {} THEN 1 ELSE i.sheet[i.component[Min(on(n))]]
      x == i.local_net[7]
      lonely == {n \in Net \ {2, 3} : Cardinality(on(n)) = 1 /\ on(n) \cap i.bus = {}}
      number == <<"1", "2">>
  IN {[number |-> <<"1", "2", "1", "1", "1", number[x], number[3 - x]>>,
       name |-> [n \in Net |-> CASE n = 1 /\ n \notin lonely ->
                                        <<"A", IF i.local_net[4] = 3 THEN "X_lines" ELSE "x-lines">>
                                 [] n = 2 -> <<"A", "x_lines">>
                                 [] n = 3 -> <<"x_lines">>
                                 [] OTHER -> Plain[n]],
       from |-> [n \in Net |-> at(n)],
       unnamed |-> {4, 5, 6} \cup lonely, lonely |-> lonely, flat |-> x = 2]}

T(name, value) == [name |-> name, value |-> value]

Nothing ==
  [attached |-> [c \in Component |-> <<>>], inherited |-> [c \in Component |-> <<>>],
   params |-> [c \in Component |-> [attached |-> <<>>, inherited |-> <<>>]],
   pin |-> [p \in Pin |-> <<>>], artificial |-> {}]

Values(x, y, z) ==
  [Nothing EXCEPT
     !.inherited = [c \in Component |-> IF c \in {3, 5, 6} THEN <<T("device", "R")>> ELSE <<>>],
     !.attached = <<<<>>, <<>>, <<T("value", x)>>, <<>>, <<T("value", y)>>, <<T("value", z)>>>>]

Slots(x, y, n) ==
  [Nothing EXCEPT !.attached[3] = <<T("slot", x), T("numslots", n)>>,
                  !.attached[5] = <<T("slot", y), T("numslots", n)>>]

Types(x, y, z) ==
  [Nothing EXCEPT !.pin = <<<<>>, <<>>, <<>>, <<T("pintype", x)>>, <<>>, <<T("pintype", y)>>,
                           <<T("pintype", z)>>>>]

Directive(value) == <<T("device", "DRC_Directive"), T("value", value)>>

MCTexts(i) ==
  IF i \notin BackEndInput THEN {}
  ELSE {Values("1k", "1k", "1k"), Values("1k", "2k", "1k"), Values("1k", "1K", "1k"),
        [Values("1k", "unknown", "2k") EXCEPT !.inherited[5] = <<T("value", "1k"), T("device", "R")>>],
        [Values("1k", "1k", "2k") EXCEPT !.attached[3] = @ \o <<T("value", "2k")>>],
        [Values("1k", "$(r)", "$(r)") EXCEPT
           !.attached[6] = @ \o <<T("nobom", "1"), NoAttribute>>, !.attached[3] = @ \o <<T("device", "include")>>,
           !.params[1] = [attached |-> <<T("r", "1k")>>, inherited |-> <<T("r", "2k")>>]],
        [Nothing EXCEPT !.params[2].attached = <<NoAttribute>>],
        [Nothing EXCEPT !.params[1].inherited = <<T("r", "1k"), T("r", "2k")>>],
        Slots("1", "2", "2"), Slots("1", "1", "2"), Slots("x", "2", "2"), Slots("3", "1", "x"),
        [Slots("1", "2", "3") EXCEPT !.inherited[6] = <<T("slot", "2")>>],
        Types("out", "out", "in"), Types("io", "oc", "pwr"), Types("in", "in", "in"),
        Types("in", "other", "tri"),
        [Types("out", "out", "clk") EXCEPT !.attached[4] = Directive("DontCheckPintypes")],
        [Types("in", "in", "in") EXCEPT !.attached[4] = Directive("NoConnection"), !.artificial = {7}],
        [Types("tp", "in", "in") EXCEPT !.pin[6] = @ \o <<T("pintype", "out"), T("pinlabel", "B")>>]}

MCReference == [x \in {"$(r)"} |-> "r"]
MCIntOf == [x \in {"1", "2", "3"} |-> CASE x = "1" -> 1 [] x = "2" -> 2 [] x = "3" -> 3]

MCUpper ==
  [x \in {"x_lines", "X_lines", "x-lines", "x_line", "X_line", "x-line", "c"} |->
     CASE x = "c" -> "C" [] x = "x-lines" -> "X-LINES" [] x = "x-line" -> "X-LINE"
       [] x \in {"x_lines", "X_lines"} -> "X_LINES" [] OTHER -> "X_LINE"]
MCDashed == [x \in {"x_lines", "X_lines"} |-> IF x = "x_lines" THEN "x-lines" ELSE "X-lines"]

MCShort ==
  [x \in {<<"A", y>> : y \in {"x_lines", "X_lines", "x-lines"}}
           \cup {Plain[n] : n \in Net} \cup {A \o Plain[n] : n \in Net} |->
     CASE x = <<"A", "x_lines">> -> <<"A", "x_line">> [] x = <<"A", "X_lines">> -> <<"A", "X_line">>
       [] x = <<"A", "x-lines">> -> <<"A", "x-line">>
       [] x \in {Plain[n] : n \in Net} -> <<"unconnec">> [] OTHER -> <<"A", "unconn">>]

(* Refdes are ordered by their length, other values as they are here.      *)
MCRank(column, x) ==
  IF column = 1 THEN Len(x)
  ELSE CASE x \in {"1k", "1K"} -> 1 [] x = "2k" -> 2 [] x = "R" -> 3 [] OTHER -> 4

MCAttribs == {None, <<>>, <<"value">>, <<"value", "device">>}
=============================================================================
