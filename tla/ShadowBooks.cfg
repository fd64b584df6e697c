\* Two books of two names; a split of eight for one is an absurd print.
CONSTANTS
    s1 = s1
    s4 = s4
    nX = nX
    nY = nY
    Hold = Hold
    Books = {s1, s4}
    Syms = {nX, nY}
    Targets <- MCTargets
    Prices = {1, 2, 8}
    Price0 <- MCPrice0
    Nav0 = 7
    JumpMax = 4
    SplitFactor = 8
    BadFactor = 8
    TradeCost = 1
    BorrowCost = 1
    MaxMoves = 1
    MaxJumps = 1
    MaxDays = 2
    MaxTrades = 2
    MaxUnsaved = 1
    MaxCrashes = 1
SPECIFICATION Spec
INVARIANTS SharesKeepTheirWorth SelfFinancing BorrowOncePerDay
PROPERTIES UnpricedFundsNothing
