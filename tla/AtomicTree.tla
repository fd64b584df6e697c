----------------------------- MODULE AtomicTree ------------------------------
(* What an applied proposal promises: the working tree changes only by a     *)
(* whole proposal landing at once, and each proposal lands at most once.     *)
EXTENDS Naturals

CONSTANTS Files, Ids

VARIABLES tree, wrote, landed

vars == <<tree, wrote, landed>>

Init == tree = [f \in Files |-> 0] /\ wrote = [i \in Ids |-> {}] /\ landed = {}

(* A proposal is written once: the files it replaces never change after.     *)
Propose(i) ==
    /\ wrote[i] = {}
    /\ \E fs \in (SUBSET Files) \ {{}} : wrote' = [wrote EXCEPT ![i] = fs]
    /\ UNCHANGED <<tree, landed>>

Land(i) ==
    /\ i \notin landed /\ wrote[i] # {}
    /\ tree' = [f \in Files |-> IF f \in wrote[i] THEN i ELSE tree[f]]
    /\ landed' = landed \cup {i}
    /\ UNCHANGED wrote

Next == \E i \in Ids : Propose(i) \/ Land(i)

Spec == Init /\ [][Next]_vars
==============================================================================
