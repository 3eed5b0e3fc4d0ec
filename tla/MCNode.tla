------------------------------- MODULE MCNode -------------------------------
(* The instances of Node that TLC checks: the empty tag takes every message *)
(* and the tag "a", read as a regular expression, takes the tag "a" only.   *)
EXTENDS Node, TLC

MCTag == {"", "a"}
MCNoTag == ""
MCMatches == {<<"a", "a">>, <<"", "">>}

OneTag == {""}
OneMatch == {<<"", "">>}

Everyone == Id

Symmetry == Permutations(Thread)

=============================================================================
