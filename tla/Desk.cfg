\* RiskGates: a NAV of 100, gates at 3 and 5 percent, a ring of five marks.
\* Brains: one paid proposal and two scores a day. DecisionGate: one flap.
\* FillLedger: two fills on each of two days, a ring of one.
\* EventBook: two names, a calendar with a weekend. RaceVerdict: the same.
\* EquityBackup: two marks a day, a ring that outlasts one torn line.
\* Allocation: one equity and one coin, weights below and beyond every limit.
CONSTANTS
    na = na
    nb = nb
    eq = eq
    cx = cx
    Nav0 = 100
    Navs <- MCNavs
    Moves <- MCMoves
    Full = 2
    GatesRing = 5
    GatesPerDay = 2
    Gate1 = 3
    Gate2 = 5
    Kill = 3
    PmCap = 1
    ScorerCap = 2
    PerTick = 2
    MaxFresh = 2
    MaxDays = 2
    MaxCrashes = 1
    Shock = 2
    MaxNews = 2
    MaxBars = 2
    MaxFlaps = 1
    MaxFailures = 1
    FillsPerDay = 2
    LastSession = 2
    FillRing = 1
    SeenTail = 2
    CleanStart = 2
    Floor = 1
    NavBar = 2
    MaxLostAppends = 1
    MaxRestarts = 1
    Names = {na, nb}
    Bars = {1, 2, 3, 6, 7, 8}
    FilingDays = {2, 4}
    EntryLag = 2
    ExitLag = 4
    MinUnits = 2
    Slack = 1
    MaxMisses = 2
    Trading = {1, 3, 4}
    LastDay = 4
    TicksPerDay = 2
    LateTick = 1
    Move <- MCMove
    RaceRing = 4
    Bar = 2
    Enough = 1
    Text <- MCText
    NotesKept = 1
    MaxKills = 1
    MarksKept = 5
    MarksPerDay = 2
    Values = {1, 2}
    Keep = 2
    LedgerDays = 4
    MaxMissed = 0
    MaxTorn = 1
    Equities = {eq}
    Crypto = {cx}
    MaxPosition = 2
    MaxGross = 3
    MaxTurnover = 2
    Weights <- MCWeights
    Adv = {1, 3}
    Factors <- MCFactors
SPECIFICATION Desk
INVARIANTS GatesHold AccountIsMeasured FillsAreAccounted ForwardIsTheBacktest LimitsBind EveryMoveCountsOnce DigestIsTrue LedgerKeepsDays AnswersAreChecked
PROPERTIES NoWeakerBrainByBudget OneBasis
CHECK_DEADLOCK FALSE
