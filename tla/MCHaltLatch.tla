----------------------------- MODULE MCHaltLatch -----------------------------
(* Instances of HaltLatch for TLC.                                          *)
EXTENDS HaltLatch

CONSTANTS s4, n1, n2

MCNames == {n1, n2}
MCOneName == {n1}
MCOneBook == {s4}
==============================================================================
