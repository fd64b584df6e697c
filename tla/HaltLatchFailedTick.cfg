\* A tick that latches and then raises before _save: no human acts at all.
CONSTANTS
    s4 = s4
    n1 = n1
    n2 = n2
    Books <- MCOneBook
    Names <- MCOneName
    Enabled <- MCOneBook
    MaxHalts = 1
    MaxRequests = 0
    MaxEdits = 0
    MaxFailures = 1
    MaxCrashes = 0
SPECIFICATION Spec
PROPERTIES OnlyHumansClear
