---------------------------- MODULE MCScratchpad ----------------------------
(* Two processes, a cap of one entry and three creations. *)
EXTENDS Scratchpad, TLC

CONSTANTS p1, p2, s1, s2, s3

MCProcs == {p1, p2}
MCIds == {s1, s2, s3}
MCTexts == {<<"a", "b">>, <<"c", "macro">>}
MCOutputs == {[text |-> <<"c", "macro">>, binary |-> FALSE], [text |-> <<"a">>, binary |-> TRUE]}

Symmetry == Permutations(MCProcs) \cup Permutations(MCIds)
=============================================================================
