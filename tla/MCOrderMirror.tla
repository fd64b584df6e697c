---------------------------- MODULE MCOrderMirror ----------------------------
(* Instances of OrderMirror for TLC.                                        *)
EXTENDS OrderMirror, TLC

CONSTANTS a, b

MCOne == {a}
MCTwo == {a, b}
MCLong == {0, 1}
MCThreeSlots == 1 .. 3
MCSymmetry == Permutations(MCTwo)

\* Liveness: a behaviour has either a run of the manual client or the
\* runtime's own faults, deadlines and crashes, and a dropped order beside
\* either: it begins with the other bounds used up.
MCSpent ==
    {[Unspent EXCEPT !.cli = MaxCli],
     [Unspent EXCEPT !.faults = MaxFaults, !.timeouts = MaxTimeouts, !.crashes = MaxCrashes]}
MCInit == Boot /\ spent \in MCSpent
MCLiveSpec == MCInit /\ [][Next]_vars /\ Fairness
==============================================================================
