---------------------------- MODULE MCShadowBooks ----------------------------
(* An instance of ShadowBooks for TLC.                                      *)
EXTENDS ShadowBooks

CONSTANTS s1, s4, nX, nY

MCPrice0 == [s \in {nX, nY} |-> IF s = nX THEN 8 ELSE 2]

\* s4 is long one name and short the other, or flat; s1 is long both or one.
MCTargets ==
    {[book \in {s1, s4} |-> [s \in {nX, nY} |-> IF book = s4 /\ s = nY THEN -1 ELSE 1]],
     [book \in {s1, s4} |-> [s \in {nX, nY} |-> IF book = s1 /\ s = nX THEN 1 ELSE 0]]}
==============================================================================
