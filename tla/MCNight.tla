------------------------------- MODULE MCNight -------------------------------
(* The nightly job on small instances in one run: the judge over its queue   *)
(* (p1 and p2 share a family) and the engineer lane that follows it. Each    *)
(* keeps files of its own, so in a behaviour one part moves and the other    *)
(* stays in its initial state, which satisfies what is invariant.            *)
EXTENDS ResearchHarness, EngineerLane

CONSTANTS p1, p2, r1, famP, famR, f1, f2

MCSpecs == {p1, p2, r1}
MCFamilies == {famP, famR}
MCFamilyOf == [s \in MCSpecs |-> IF s = r1 THEN famR ELSE famP]
MCQueue == <<p1, r1>>

ASSUME LaneBounds

VARIABLE part

NightInit == part \in {"judge", "engineer"} /\ Init /\ LaneInit

NightNext ==
    \/ part = "judge" /\ Next /\ UNCHANGED <<part, laneVars>>
    \/ part = "engineer" /\ LaneNext /\ UNCHANGED <<part, vars>>

(* The fairness each module states, for the part that moves.                 *)
NightSpec ==
    /\ NightInit /\ [][NightNext]_<<part, vars, laneVars>>
    /\ WF_vars(part = "judge" /\ Night)
    /\ WF_laneVars(part = "engineer" /\ LaneNight) /\ SF_laneVars(part = "engineer" /\ NewDay)
    /\ \A h \in Hands : WF_laneVars(part = "engineer" /\ ApplySteps(h))

(* A pending entry of the queue is decided some night; ResearchHarness       *)
(* states it.                                                                *)
EveryEntryIsDecided == part = "judge" => PendingIsDecided

(* Proposals nobody reviews do not hold the lane shut for ever (E53);        *)
(* EngineerLane states it.                                                   *)
GateReopens == part = "engineer" => BlockedLaneReopens
==============================================================================
