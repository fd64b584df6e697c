\* Judge: two families, one of two specs; one error, one crash, one edit.
\* Engineer lane: two files, three proposals, one pending allowed, two sessions
\* and rounds, one death, one act of the human.
CONSTANTS
    p1 = p1
    p2 = p2
    r1 = r1
    famP = famP
    famR = famR
    f1 = f1
    f2 = f2
    None = None
    Specs <- MCSpecs
    Families <- MCFamilies
    FamilyOf <- MCFamilyOf
    Queue0 <- MCQueue
    WeakTrials = 1
    MaxQueue = 3
    MaxErrors = 1
    MaxCrashes = 1
    MaxEdits = 1
    Files = {f1, f2}
    MaxProps = 3
    MaxPending = 1
    MaxPerRound = 2
    Sessions = 2
    MaxRounds = 2
    BarrenCap = 2
    DeadAfter = 0
    MaxKills = 1
    MaxHuman = 1
    KillsInApply = FALSE
    Overlap = FALSE
SPECIFICATION NightSpec
INVARIANTS OneShotClosesFamily PenaltyIsPaid DoneIsItsOwnAnswer NightIsAccounted
PROPERTIES AnsweredOnce EveryEntryIsDecided ProposalsLandWhole GateReopens
