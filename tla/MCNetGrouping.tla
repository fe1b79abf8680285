---------------------------- MODULE MCNetGrouping ----------------------------
(* Small instances of NetGrouping: three local nets on two sheets.         *)
EXTENDS NetGrouping

(* The second name looks like the first name which is generated.           *)
MCName == {<<"user", 1>>, <<"unnamed_net", 1>>}

AtMostOne(b) ==
  {<<>>} \cup {<<[name |-> x, from_netattrib |-> b]>> : x \in MCName}

(* No label, one of each kind, or both names as netname= attributes.       *)
MCLabels ==
  {s \o t : s \in AtMostOne(FALSE), t \in AtMostOne(TRUE)}
    \cup {s \o t : s, t \in AtMostOne(FALSE) \ {<<>>}}

MCPinNet == {<<1, 2, 3>>, <<3, 1, 1>>}

MCInput ==
  [labels: [LocalNet -> MCLabels],
   namespace: {<<"top", "top", "sub">>},
   segments: {{1}},
   pin_net: MCPinNet,
   flat: [BOOLEAN -> BOOLEAN],
   prefer: BOOLEAN]
=============================================================================
