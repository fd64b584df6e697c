\* Two generations of two clients.
CONSTANTS
    a = a
    b = b
    Syms <- MCOne
    Shares <- MCLong
    Slots <- MCThreeSlots
    Fuse = 1
    MaxFaults = 0
    MaxTimeouts = 0
    MaxDrops = 0
    MaxCli = 1
    MaxCrashes = 0
    MaxTrades = 1
SPECIFICATION Spec
INVARIANTS OneGeneration
