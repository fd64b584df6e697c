\* Liveness: one symbol, one dropped order, and either one run of ibkr_sync.py
\* or one failing request, one deadline and one crash of the runtime.
CONSTANTS
    a = a
    b = b
    Syms <- MCOne
    Shares <- MCLong
    Slots <- MCThreeSlots
    Fuse = 1
    MaxFaults = 1
    MaxTimeouts = 1
    MaxDrops = 1
    MaxCli = 1
    MaxCrashes = 1
    MaxTrades = 1
SPECIFICATION MCLiveSpec
PROPERTIES HaltReachesAccount RetriedWithoutDoubling
