---------------------------- MODULE MCEntraSource ----------------------------
(* Two users and two groups: g1 is configured under alias x, g2 under both. *)
EXTENDS EntraSource

MCAliasesOf == [g \in {"g1", "g2"} |-> IF g = "g1" THEN {"x"} ELSE {"x", "y"}]
MCInitMembers == {<<"g1", "u1">>, <<"g2", "u2">>}
=============================================================================
