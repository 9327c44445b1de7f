---------------------------- MODULE MCApiCommands ----------------------------
(* Two routes of one family: each announced or withdrawn on its own, both     *)
(* announced by one command or one group, in sync mode or not.                *)
EXTENDS ApiCommands
CONSTANTS n1, n2, a, f
MCAttrOf   == [p \in Path |-> p]
MCFamilyOf == [n \in Nlri |-> f]
Routes(s)  == [i \in DOMAIN s |-> [n |-> s[i][1], p |-> s[i][2]]]
Cmd(s, sync, group) == [do |-> Routes(s), sync |-> sync, group |-> group]
MCCommands ==
    { Cmd(<<<<n1, a>>>>, TRUE, FALSE), Cmd(<<<<n1, NoPath>>>>, TRUE, FALSE),
      Cmd(<<<<n1, a>>>>, FALSE, FALSE), Cmd(<<<<n1, a>>, <<n2, a>>>>, FALSE, TRUE),
      Cmd(<<<<n1, NoPath>>, <<n2, a>>>>, TRUE, TRUE),
      Cmd(<<<<n2, a>>, <<n1, a>>>>, TRUE, FALSE) }
==============================================================================
