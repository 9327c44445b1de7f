---------------------------- MODULE MCAdjRibOut ------------------------------
(* One or two routes, each announced with either of two attribute sets, and a *)
(* family of its own for the second one where the configuration declares it.  *)
EXTENDS AdjRibOut, TLC
CONSTANTS n1, n2, a, b, f, g
MCAttrOf   == [p \in Path |-> p]
MCFamilyOf == [n \in Nlri |-> IF n = n2 /\ g \in Family THEN g ELSE f]
Symmetry   == {p @@ q : p \in Permutations({n1, n2}), q \in Permutations({a, b})}
==============================================================================
