---------------------------- MODULE MCTraverse ----------------------------
(* Traverse for TLC: every tree of three nodes below the root.             *)
EXTENDS Traverse

CONSTANTS r, a, b, c, MaxLen

\* The children of d under a parent function, in alphabetical order.
Kids(up, d) ==
    (IF up[a] = d THEN <<a>> ELSE <<>>) \o (IF up[b] = d THEN <<b>> ELSE <<>>)
        \o (IF up[c] = d THEN <<c>> ELSE <<>>)

Parents == {up \in [{a, b, c} -> {r, a, b}] :
              up[a] = r /\ up[b] \in {r, a} /\ up[c] \in {r, a, b}}

SmallTrees ==
    UNION {{[dirs |-> ds, kids |-> [d \in ds |-> Kids(up, d)], len |-> [n \in Nodes |-> l[n]]] :
              ds \in {s \in SUBSET Nodes : r \in s /\ \A n \in {a, b, c} : up[n] \in s},
              l \in {f \in [Nodes -> 1 .. MaxLen] : f[r] = 1}} :
           up \in Parents}

=============================================================================
