\* Safety of the automatic mirror: two symbols, a failing request, a missed
\* deadline, a dropped order and a crash.
CONSTANTS
    a = a
    b = b
    Syms <- MCTwo
    Shares <- MCLong
    Slots <- MCThreeSlots
    Fuse = 2
    MaxFaults = 1
    MaxTimeouts = 1
    MaxDrops = 1
    MaxCli = 0
    MaxCrashes = 1
    MaxTrades = 1
SPECIFICATION Spec
SYMMETRY MCSymmetry
INVARIANTS JobsStayBounded OneGeneration WorkingEndsAtGoal HaltedOrdersOnlyReduce
