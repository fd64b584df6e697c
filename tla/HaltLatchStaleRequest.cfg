\* clear_halt.py is run twice for one halt.
CONSTANTS
    s4 = s4
    n1 = n1
    n2 = n2
    Books <- MCOneBook
    Names <- MCOneName
    Enabled <- MCOneBook
    MaxHalts = 2
    MaxRequests = 2
    MaxEdits = 0
    MaxFailures = 0
    MaxCrashes = 0
SPECIFICATION Spec
PROPERTIES NewHaltSurvivesOldRequest
