\* One book and two names; a failed tick, a crash, two runs of clear_halt.py
\* and a manual edit, in every order.
CONSTANTS
    s4 = s4
    n1 = n1
    n2 = n2
    Books <- MCOneBook
    Names <- MCNames
    Enabled <- MCOneBook
    MaxHalts = 2
    MaxRequests = 2
    MaxEdits = 1
    MaxFailures = 1
    MaxCrashes = 1
SPECIFICATION FairSpec
INVARIANTS HaltedFileIsFlat
PROPERTIES NoRiskUnderLatch SavedHaltNeedsHuman RequestLiftsLatch HaltFlattens
