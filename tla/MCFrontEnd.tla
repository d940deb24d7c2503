---------------------------- MODULE MCFrontEnd ----------------------------
(* A root directory with a file f and a directory d, which holds a file g. *)
EXTENDS FrontEnd

SmallTree == [r |-> [d |-> "d1", f |-> "f1"], d1 |-> [g |-> "g1"]]

NamedSubdirs == {<<>>, <<"/", "d">>, <<"d", "/", "/", "g", "/">>, <<"d", "/", "x">>}
SlashSubdirs == {<<"/">>}
SmallPaths   == {<<"/">>, <<"/", "d">>, <<"/", "d", "/", "g">>, <<"/", "f", "/", "g">>}
===========================================================================
