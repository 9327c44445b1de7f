--------------------------- MODULE MCConfigReload ----------------------------
(* One or two routes of one family, and every file they can make up: each is  *)
(* in it, with any of the attribute sets, or not.                             *)
EXTENDS ConfigReload, TLC
CONSTANTS n1, n2, a, b, f
MCAttrOf   == [p \in Path |-> p]
MCFamilyOf == [n \in Nlri |-> f]
MCFiles    == [Nlri -> MaybePath]
==============================================================================
