\* Director: caps of two and one, two lines shown, two days to a stall.
\* AuditRotation: four files in slices of two, one unreadable.
\* Pagers: stale after one unit, paged again after two, one ledger lost.
\* ServingGateway: two callers, one slot. GpuDemo: two demonstrations.
CONSTANTS
    c1 = c1
    c2 = c2
    DirectorCap = 2
    RefereeCap = 1
    Shown = 2
    StallDays = 2
    Designs = 2
    MaxPending = 2
    MaxDeadNights = 1
    NFiles = 4
    Slice = 2
    MaxUnreadable = 1
    MaxDeadPasses = 1
    Stale = 1
    Realert = 2
    Watched = {"runtime"}
    Held = {"runtime"}
    AutoHeal = TRUE
    MaxUnsaved = 1
    Callers = {c1, c2}
    MaxConcurrency = 1
    MaxDemos = 2
    MaxLost = 2
SPECIFICATION Operations
INVARIANTS AbsenceIsFinal
PROPERTIES DesignGoesOn EveryFileIsReached PagerIsHeard GatewayHolds SlotIsFreed
CHECK_DEADLOCK FALSE
