----------------------------- MODULE MCCueMerge -----------------------------
(* Times on both sides of a full minute, one of them written in two ways.   *)
EXTENDS CueMerge

CONSTANTS a, ba, b, blank

MCClocks == {<<0, 0, 59, 998>>, <<0, 0, 60, 0>>, <<0, 1, 0, 0>>, <<0, 1, 0, 1>>}
MCKey == [x \in {a, ba, b, blank} |-> IF x = ba THEN a ELSE x]
=============================================================================
