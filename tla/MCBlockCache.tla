---------------------------- MODULE MCBlockCache ----------------------------
(* An instance of BlockCache for TLC.                                      *)
EXTENDS BlockCache, TLC
CONSTANTS t1, t2, k1, k2, k3, s1, s2, b1, b2, b3, b4

\* k1 and k2 collide, k3 has the second slot to itself.
TwoSlotHash == (k1 :> s1) @@ (k2 :> s1) @@ (k3 :> s2)
=============================================================================
