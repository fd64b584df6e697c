-------------------------------- MODULE Slots --------------------------------
(* What admission promises the model server: a counting semaphore.           *)
EXTENDS Naturals, FiniteSets

CONSTANTS Clients, Limit

VARIABLE holders

Init == holders = {}

Take(c) == c \notin holders /\ Cardinality(holders) < Limit /\ holders' = holders \cup {c}

Give(c) == c \in holders /\ holders' = holders \ {c}

Next == \E c \in Clients : Take(c) \/ Give(c)

Spec == Init /\ [][Next]_holders
==============================================================================
