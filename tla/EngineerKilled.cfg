\* The night's process dies between the first write and the test verdict.
CONSTANTS
    f1 = f1
    f2 = f2
    Files = {f1, f2}
    MaxProps = 1
    MaxPending = 1
    MaxPerRound = 1
    Sessions = 1
    MaxRounds = 1
    BarrenCap = 1
    DeadAfter = 0
    MaxKills = 1
    MaxHuman = 0
    KillsInApply = TRUE
    Overlap = FALSE
SPECIFICATION LaneSpec
INVARIANTS TreeIsLanded
