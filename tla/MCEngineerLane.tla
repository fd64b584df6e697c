--------------------------- MODULE MCEngineerLane ----------------------------
(* Instances of EngineerLane for TLC.                                        *)
EXTENDS EngineerLane

CONSTANTS f1, f2
==============================================================================
